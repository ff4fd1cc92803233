------------------------------ MODULE PushRelay ------------------------------
(***************************************************************************)
(* What one call of the push provider comes to: notifywebpush.Sender.Send  *)
(* makes one of four verdicts of the push service's answer, with the delay *)
(* its Retry-After header asks for, and notifyworker.BackoffDelay makes of *)
(* that hint the delay before the next attempt.                            *)
(*                                                                         *)
(* Encryption, VAPID signing and the codes kept for an administrator are   *)
(* left out.  Durations are in units of the clock.  The int64 of the       *)
(* schedule is doubled 20 times at most and does not wrap for a            *)
(* BaseRetryDelay below two hours; the default is 30 seconds.              *)
(***************************************************************************)
EXTENDS Integers

CONSTANTS
  Statuses,    \* the HTTP statuses a push service answers with
  Headers,     \* the Retry-After headers it sends along
  SenderEnv,   \* Options.Env of the Sender
  BaseDelay,   \* BaseRetryDelay
  MaxDelay     \* MaxRetryDelay

\* A header as parseRetryAfter tells them apart: seconds, the distance of an
\* HTTP date, or nothing it can read.
Header == [form : {"none", "seconds", "date"}, value : Int]

ASSUME RelayAssumption ==
  /\ Statuses \subseteq Nat
  /\ Headers \subseteq Header
  /\ BaseDelay \in Nat \ {0}
  /\ MaxDelay \in Nat \ {0}

Outcome  == {"accepted", "temporary", "permanent", "unauthorized"}
NoHint   == -1   \* RetryAfter is nil
Result   == [outcome : Outcome, retryAfter : Nat \cup {NoHint}]

-----------------------------------------------------------------------------
\* dev and preview address test devices only, production the others only.
Paired(env, testMode) == testMode <=> env \in {"dev", "preview"}

\* Negative seconds are unreadable; a date that has passed is no delay.
RetryAfter(h) ==
  CASE h.form = "seconds" /\ h.value >= 0 -> h.value
    [] h.form = "date" /\ h.value >= 0    -> h.value
    [] h.form = "date" /\ h.value < 0     -> 0
    [] OTHER                              -> NoHint

Without(outcome) == [outcome |-> outcome, retryAfter |-> NoHint]

\* Every status has a verdict, and an unknown one is tried again.
Classify(status, h) ==
  CASE status \in 200 .. 299 -> Without("accepted")
    [] status \in {404, 410} -> Without("unauthorized")
    [] status \in 300 .. 499 \ {404, 410, 429} -> Without("permanent")
    [] status \in {429} \cup 500 .. 599 ->
         [outcome |-> "temporary", retryAfter |-> RetryAfter(h)]
    [] OTHER -> Without("temporary")

\* A call that fails on the way may or may not have reached the service.
NetworkError == Without("temporary")

\* What Send may return.
Results == {Classify(s, h) : s \in Statuses, h \in Headers} \cup {NetworkError}

-----------------------------------------------------------------------------
\* base, 2 * base, 4 * base, ..., at most MaxDelay.
Schedule(attempt) ==
  LET shift == CASE attempt < 1 -> 0 [] attempt > 21 -> 20 [] OTHER -> attempt - 1
      delay == BaseDelay * 2 ^ shift
  IN  IF delay <= 0 \/ delay > MaxDelay THEN MaxDelay ELSE delay

\* A hint lengthens the delay and never shortens it.
BackoffDelay(attempt, hint) ==
  IF hint > Schedule(attempt) THEN hint ELSE Schedule(attempt)

=============================================================================
