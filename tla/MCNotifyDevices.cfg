CONSTANTS
  c1 = c1
  c2 = c2
  u1 = u1
  u2 = u2
  e1 = e1
  e2 = e2
  k1 = k1
  k2 = k2
  None = None
  Callers = {c1, c2}
  Users = {u1, u2}
  Endpoints = {e1, e2}
  Keys = {k1}
  Ids = {1, 2, 3}
SPECIFICATION DevicesSpec
INVARIANTS
  OneActivePerEndpoint
  SuccessionIsALine
  DeadlocksAreCrossings
PROPERTIES
  RevokedIsFinal
  RegistrySpec
SYMMETRY DeviceSymmetry
