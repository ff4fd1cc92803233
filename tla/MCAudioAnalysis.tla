--------------------------- MODULE MCAudioAnalysis ---------------------------
(* AudioAnalysis on small instances.                                       *)
EXTENDS AudioAnalysis, FiniteSetsExt, TLC

CONSTANTS p1, p2, r1, r2, c1, c2, Budget

AnalysisSymmetry == Permutations({p1, p2}) \cup Permutations({r1, r2})

\* At most Budget attempts in all: one recording claimed twice, or two once.
AttemptsInBudget ==
  FoldSet(LAMBDA r, sum : rows[r].attempts + sum, 0, Recordings) <= Budget
=============================================================================
