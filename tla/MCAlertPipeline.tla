--------------------------- MODULE MCAlertPipeline ---------------------------
(* AlertPipeline on a small instance.                                      *)
EXTENDS AlertPipeline, TLC

CONSTANTS c1, c2, r1, r2

Result(set, state, label) == [set |-> set, state |-> state, label |-> label]

\* Phrases of one keyword list: one that is ambiguous, one that is matched and
\* one without a label.
SomeBatches ==
  {<<Result("list", "ambiguous", "a"), Result("list", "matched", "b")>>,
   <<Result("list", "matched", "b"), Result("list", "matched", Unlabeled)>>}

CallerSymmetry == Permutations({c1, c2}) \cup Permutations({r1, r2})
=============================================================================
