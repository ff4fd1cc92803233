--------------------------- MODULE MCNotifyWorker ---------------------------
(* NotifyWorker on small instances: two workers, one row.                  *)
EXTENDS NotifyWorker, TLC

CONSTANTS w1, w2, x1, d1

OneRow == x1 :> d1
WorkerSymmetry == Permutations({w1, w2})

\* A hint longer than the schedule, and none.
SomeHeaders ==
  {[form |-> "seconds", value |-> 2], [form |-> "seconds", value |-> -1]}
=============================================================================
