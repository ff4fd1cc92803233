CONSTANTS
  p1 = p1
  r1 = r1
  r2 = r2
  c1 = c1
  w1 = w1
  w2 = w2
  None = None
  Recordings = {r1}
  Processors = {p1}
  Contents = {c1}
  MaxAttempts = 2
  Scribes = {w1}
  MaxTries = 3
  JobLease = 1
  Backoffs = {1}
SPECIFICATION TranscriptionFairSpec
PROPERTIES
  EveryOwnerIsSettled
  ProcessIsBounded
