CONSTANTS
  s1 = s1
  s2 = s2
  b1 = b1
  c1 = c1
  c2 = c2
  None = None
  Sessions = {s1, s2}
  Bridges = {b1}
  Calls = {c1, c2}
  IdleTimeout = 2
  AbsoluteLifetime = 3
  CeremonyTTL = 1
  BridgeTTL = 2
  Capacity = 1
  MaxClock = 3
  MaxChallenges = 2
SPECIFICATION GateSpec
INVARIANTS
  ChallengesHaveOneHolder
PROPERTIES
  RevokedIsShut
  IdleIsMeasuredFromUse
  CompletionsWereBegun
CONSTRAINT TokensInBudget
SYMMETRY GateSymmetry
