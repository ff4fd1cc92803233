--------------------------- MODULE DeliveryLedger ---------------------------
(***************************************************************************)
(* What notification delivery promises about each target, said without     *)
(* claims, leases, clocks or workers: a target is opened once, collects    *)
(* "failed" entries numbered from 1 while attempts remain, and is closed   *)
(* once -- by one last entry that says how, or by lapsing unattempted,     *)
(* which leaves no entry.  A closed ledger is never written again.         *)
(***************************************************************************)
EXTENDS Naturals, Sequences

CONSTANTS
  Targets,        \* the (event_id, device_id) pairs
  AttemptLimits   \* values max_attempts may be enqueued with

VARIABLES
  phase,    \* phase[x]: "none", "open" or "closed"
  limit,    \* limit[x]: the attempts x may use
  ledger    \* ledger[x]: the numbered outcomes recorded for x

ledgerVars == <<phase, limit, ledger>>

Closing == {"sent", "expired", "canceled", "dead_letter", "unauthorized"}

Write(x, outcome) ==
  ledger' = [ledger EXCEPT ![x] =
               Append(@, [number |-> Len(@) + 1, outcome |-> outcome])]

Open(x) ==
  /\ phase[x] = "none"
  /\ phase' = [phase EXCEPT ![x] = "open"]
  /\ \E max \in AttemptLimits : limit' = [limit EXCEPT ![x] = max]
  /\ UNCHANGED ledger

Retry(x) ==
  /\ phase[x] = "open"
  /\ Len(ledger[x]) + 1 < limit[x]
  /\ Write(x, "failed")
  /\ UNCHANGED <<phase, limit>>

Conclude(x) ==
  /\ phase[x] = "open"
  /\ phase' = [phase EXCEPT ![x] = "closed"]
  /\ \E outcome \in Closing : Write(x, outcome)
  /\ UNCHANGED limit

Lapse(x) ==
  /\ phase[x] = "open"
  /\ phase' = [phase EXCEPT ![x] = "closed"]
  /\ UNCHANGED <<limit, ledger>>

Init ==
  /\ phase  = [x \in Targets |-> "none"]
  /\ limit  = [x \in Targets |-> 0]
  /\ ledger = [x \in Targets |-> <<>>]

Next == \E x \in Targets : Open(x) \/ Retry(x) \/ Conclude(x) \/ Lapse(x)

Spec == Init /\ [][Next]_ledgerVars
=============================================================================
