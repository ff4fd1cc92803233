CONSTANTS
  w1 = w1
  w2 = w2
  x1 = x1
  d1 = d1
  Workers = {w1, w2}
  Targets = {x1}
  Devices = {d1}
  DeviceOf <- OneRow
  AttemptLimits = {2}
  Lease = 1
  Deferral = 1
  Statuses = {201, 202, 301, 400, 401, 403, 404, 410, 413, 429, 500, 600}
  Headers <- SomeHeaders
  SenderEnv = "dev"
  BaseDelay = 1
  MaxDelay = 1
  CrashHorizon = 3
  MaxClock = 3
  MaxTokens = 4
SPECIFICATION WorkerSpec
PROPERTIES
  NeverSentLate
SYMMETRY WorkerSymmetry
