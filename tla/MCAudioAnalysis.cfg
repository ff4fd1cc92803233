CONSTANTS
  p1 = p1
  p2 = p2
  r1 = r1
  r2 = r2
  c1 = c1
  c2 = c2
  None = None
  Recordings = {r1, r2}
  Processors = {p1, p2}
  Contents = {c1, c2}
  MaxAttempts = 2
  Budget = 2
SPECIFICATION AnalysisSpec
INVARIANTS
  OneOwnerPerContent
  AnalysisIsExclusive
PROPERTIES
  FinalAnalysisStays
CONSTRAINT AttemptsInBudget
SYMMETRY AnalysisSymmetry
