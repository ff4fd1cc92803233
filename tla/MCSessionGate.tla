---------------------------- MODULE MCSessionGate ----------------------------
(* SessionGate on small instances.                                         *)
EXTENDS SessionGate, TLC

CONSTANTS s1, s2, b1, c1, c2

GateSymmetry == Permutations({s1, s2}) \cup Permutations({c1, c2})

\* The tokens there are.
Used == {s \in Sessions : rows[s] # None} \cup {b \in Bridges : bridges[b] # None}

\* Two tokens in all: two sessions, or a session and a bridging credential.  All
\* challenges made of two tokens leave no time for the last tick.
TokensInBudget ==
  /\ Cardinality(Used) <= 2
  /\ Cardinality(Used) = 2 /\ made = MaxChallenges => clock < MaxClock
=============================================================================
