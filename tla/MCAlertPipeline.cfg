CONSTANTS
  c1 = c1
  c2 = c2
  r1 = r1
  r2 = r2
  None = None
  Callers = {c1, c2}
  Recordings = {r1, r2}
  Batches <- SomeBatches
  Cooldown = 3
  Second = 2
  MaxBatchSize = 2
  Unlabeled = "none"
  Times = {0, 2}
  MaxAudits = 3
SPECIFICATION AlertSpec
INVARIANTS
  OneVisiblePerCooldown
  AuditIsExplained
  OutcomesAreTrue
CHECK_DEADLOCK FALSE
SYMMETRY CallerSymmetry
