---------------------------- MODULE NotifyWorker ----------------------------
(***************************************************************************)
(* The notification workers of backend/internal/notifyworker over the      *)
(* outbox: each claims one due row, decides what to do with it from fresh  *)
(* reads (notifyattempt, notifypreferences), perhaps calls the push        *)
(* provider, and records the outcome in one transaction (notifyoutcome).   *)
(*                                                                         *)
(* A worker's cycle is cut at every point where it leaves the process:     *)
(* each database statement or transaction and the provider call is one     *)
(* step.  The cycle reads the clock once, before its claim, and uses that  *)
(* reading to the end.                                                     *)
(***************************************************************************)
EXTENDS NotifyOutbox, PushRelay, Sequences

CONSTANTS
  Workers,       \* the worker processes
  Devices,       \* the rows of notification_devices
  DeviceOf,      \* the device of each target
  Deferral,      \* DeferralRecheckInterval
  CrashHorizon   \* bound: a worker abandons a cycle only before this time

ASSUME WorkerAssumption ==
  /\ DeviceOf \in [Targets -> Devices]
  /\ Deferral \in Nat \ {0}
  /\ CrashHorizon \in Nat

VARIABLES
  pc,        \* pc[w]: the step worker w takes next
  now,       \* now[w]: the clock reading of w's cycle
  entry,     \* entry[w]: the row as ClaimNextDue returned it to w
  verdict,   \* verdict[w]: what Send returned to w
  testMode,  \* testMode[d]: d was registered with test_mode = true; never changes
  standing,  \* standing[d]: what account, consent and preferences say of d
  retired,   \* retired[d]: the claims issued before d's revoked_at was set
  audit,     \* audit[x]: the notification_deliveries rows of target x
  pushes     \* the provider calls made: target, claim and outcome

cycleVars  == <<pc, now, entry, verdict>>
deviceVars == <<testMode, standing, retired>>
logVars    == <<audit, pushes>>
workerVars == <<vars, cycleVars, deviceVars, logVars>>

Active == -1                 \* revoked_at IS NULL
Standings == {"eligible", "quiet_hours", "ineligible"}
Outcomes  == {"sent", "failed", "expired", "canceled", "dead_letter", "unauthorized"}
Steps     == {"idle", "claim", "device", "plan", "defer", "expire", "cancel",
              "send", "record"}

Delivery == [number : Nat, outcome : Outcomes]
Push     == [target : Targets, tok : Nat, outcome : Outcome]
Entry    == [target : Targets, tok : Nat, attempts : Nat, maxAttempts : Nat,
             expiresAt : Nat]
NoEntry  == [tok |-> NoToken]
NoResult == [outcome |-> "none"]

Min2(a, b) == IF a <= b THEN a ELSE b

IsActive(d) == retired[d] = Active

-----------------------------------------------------------------------------
(* Moves of a worker's cycle.                                              *)

Goto(w, step) == pc' = [pc EXCEPT ![w] = step]

\* The cycle is over, whatever came of it: RunOnce returned, or the process
\* is gone and a new one takes its place.
EndCycle(w) ==
  /\ Goto(w, "idle")
  /\ now'     = [now EXCEPT ![w] = 0]
  /\ entry'   = [entry EXCEPT ![w] = NoEntry]
  /\ verdict' = [verdict EXCEPT ![w] = NoResult]

\* A step that only chooses what comes next.
Decide(w, step) ==
  /\ Goto(w, step)
  /\ UNCHANGED <<vars, now, entry, verdict, deviceVars, logVars>>

\* Faulty variant: the attempts made, not the attempt being made.
AttemptNumber_OffByOne(e) == e.attempts

\* notifyattempt.DeriveAttemptNumber.
AttemptNumber(e) == e.attempts + 1

\* notifydeliverystore.Record, inside the transaction that moves the row.
Audit(e, outcome) ==
  audit' = [audit EXCEPT ![e.target] =
              Append(@, [number |-> AttemptNumber(e), outcome |-> outcome])]

-----------------------------------------------------------------------------
(* The steps of RunOnce and handleClaimed.                                 *)

ReadClock(w) ==
  /\ pc[w] = "idle"
  /\ Goto(w, "claim")
  /\ now' = [now EXCEPT ![w] = clock]
  /\ UNCHANGED <<vars, entry, verdict, deviceVars, logVars>>

\* Faulty variant: a claim made with a reading ahead of the clock.
Claim_SkewedClock(w) ==
  /\ pc[w] = "claim"
  /\ \E x \in Targets, locked \in SUBSET Targets :
       /\ ClaimNextDue(x, now[w] + 1, locked)
       /\ entry' = [entry EXCEPT ![w] =
            [target |-> x, tok |-> issued', attempts |-> outbox[x].attempts,
             maxAttempts |-> outbox[x].maxAttempts, expiresAt |-> outbox[x].expiresAt]]
  /\ Goto(w, "device")
  /\ UNCHANGED <<now, verdict, deviceVars, logVars>>

Claim(w) ==
  /\ pc[w] = "claim"
  /\ \E x \in Targets, locked \in SUBSET Targets :
       /\ ClaimNextDue(x, now[w], locked)
       /\ entry' = [entry EXCEPT ![w] =
            [target |-> x, tok |-> issued', attempts |-> outbox[x].attempts,
             maxAttempts |-> outbox[x].maxAttempts, expiresAt |-> outbox[x].expiresAt]]
  /\ Goto(w, "device")
  /\ UNCHANGED <<now, verdict, deviceVars, logVars>>

NothingDue(w) ==
  /\ pc[w] = "claim"
  /\ \A x \in Targets : ~ IsDue(outbox[x], now[w])
  /\ EndCycle(w)
  /\ UNCHANGED <<vars, deviceVars, logVars>>

\* Devices.Get: a device that is not test_mode is deferred, never planned.
GetDevice(w) ==
  /\ pc[w] = "device"
  /\ Decide(w, IF testMode[DeviceOf[entry[w].target]] THEN "plan" ELSE "defer")

\* notifyattempt.validateEntry, on the row as claimed.
Plannable(e, t) == e.expiresAt > t /\ e.attempts < e.maxAttempts

\* Faulty variant: the device is not read again.
Planned_DeviceNotRead(d) ==
  CASE standing[d] = "ineligible"  -> "cancel"
    [] standing[d] = "quiet_hours" -> "defer"
    [] standing[d] = "eligible"    -> "send"

\* Evaluate and actionFor: an inactive device counts among the reasons to
\* cancel; quiet hours is no action at all.
Planned(d) ==
  CASE ~ IsActive(d) \/ standing[d] = "ineligible"   -> "cancel"
    [] IsActive(d) /\ standing[d] = "quiet_hours"    -> "defer"
    [] IsActive(d) /\ standing[d] = "eligible"       -> "send"

PlanAttempt(w) ==
  /\ pc[w] = "plan"
  /\ Decide(w, IF Plannable(entry[w], now[w])
                 THEN Planned(DeviceOf[entry[w].target]) ELSE "expire")

\* Sender.Send refuses what it is not paired with, before any call: an error.
Sendable(w) == Paired(SenderEnv, testMode[DeviceOf[entry[w].target]])

\* The provider answers, or the call fails on the way, and counts as a
\* temporary failure whether or not the push went out.
Send(w) ==
  /\ pc[w] = "send" /\ Sendable(w)
  /\ \E result \in Results :
       /\ verdict' = [verdict EXCEPT ![w] = result]
       /\ pushes' = pushes \cup {[target |-> entry[w].target, tok |-> entry[w].tok,
                                  outcome |-> result.outcome]}
  /\ Goto(w, "record")
  /\ UNCHANGED <<vars, now, entry, deviceVars, audit>>

-----------------------------------------------------------------------------
(* notifyoutcome.Store: the row, its audit and the device in one           *)
(* transaction, or none of them.                                           *)

SentTx(e) ==
  MarkSent(e.target, e.tok) /\ Audit(e, "sent") /\ UNCHANGED deviceVars

CanceledTx(e) ==
  CancelClaimed(e.target, e.tok) /\ Audit(e, "canceled") /\ UNCHANGED deviceVars

\* Faulty variant: the outcome the caller expects.
OutcomeForState_Assumed(state) == "failed"

\* deliveryOutcomeForState: the audit says what the row's CASE decided.
OutcomeForState(state) == IF state = "pending" THEN "failed" ELSE state

FailedAttemptTx(e, t, retryAt) ==
  /\ RecordFailedAttempt(e.target, t, retryAt, e.tok)
  /\ Audit(e, OutcomeForState(outbox'[e.target].state))
  /\ UNCHANGED deviceVars

DeadLetterTx(e) ==
  DeadLetterClaimed(e.target, e.tok) /\ Audit(e, "dead_letter") /\ UNCHANGED deviceVars

\* notifydevicestore.Revoke: a revoked device stays revoked as it was.
Revoke(d) ==
  retired' = [retired EXCEPT ![d] = IF @ = Active THEN issued ELSE @]

UnauthorizedTx(e) ==
  /\ DeadLetterClaimed(e.target, e.tok)
  /\ Audit(e, "unauthorized")
  /\ Revoke(DeviceOf[e.target])
  /\ UNCHANGED <<testMode, standing>>

-----------------------------------------------------------------------------
(* The ways a cycle resolves its row.                                      *)

RequeueAt(w) == Min2(now[w] + Deferral, entry[w].expiresAt)

\* rescheduleDeferred, while the row's expiry is still ahead of the reading.
Defer(w) ==
  /\ pc[w] = "defer"
  /\ RescheduleClaim(entry[w].target, now[w], entry[w].tok, RequeueAt(w))
  /\ EndCycle(w)
  /\ UNCHANGED <<deviceVars, logVars>>

\* handleNotPlannable, reached from the plan or from rescheduleDeferred.
Expire(w) ==
  /\ \/ pc[w] = "expire"
     \/ pc[w] = "defer" /\ RequeueAt(w) <= now[w]
  /\ MarkExpiredClaimed(entry[w].target, now[w], entry[w].tok)
  /\ EndCycle(w)
  /\ UNCHANGED <<deviceVars, logVars>>

RecordCanceled(w) ==
  /\ pc[w] = "cancel"
  /\ CanceledTx(entry[w])
  /\ EndCycle(w)
  /\ UNCHANGED pushes

\* send dispatches on the outcome.
Returned(w, outcome) == pc[w] = "record" /\ verdict[w].outcome = outcome

RecordSent(w) ==
  /\ Returned(w, "accepted")
  /\ SentTx(entry[w])
  /\ EndCycle(w)
  /\ UNCHANGED pushes

Delay(w) == BackoffDelay(AttemptNumber(entry[w]), verdict[w].retryAfter)

\* Faulty variant: the retry time is not capped.
RetryAt_Uncapped(w) == now[w] + Delay(w)

\* The retry time never lies beyond the row's expiry.
RetryAt(w) == Min2(now[w] + Delay(w), entry[w].expiresAt)

RecordTemporaryFailure(w) ==
  /\ Returned(w, "temporary")
  /\ FailedAttemptTx(entry[w], now[w], RetryAt(w))
  /\ EndCycle(w)
  /\ UNCHANGED pushes

\* recordPermanentFailure: it would fail the same way again.
RecordDeadLetter(w) ==
  /\ Returned(w, "permanent")
  /\ DeadLetterTx(entry[w])
  /\ EndCycle(w)
  /\ UNCHANGED pushes

RecordUnauthorized(w) ==
  /\ Returned(w, "unauthorized")
  /\ UnauthorizedTx(entry[w])
  /\ EndCycle(w)
  /\ UNCHANGED pushes

\* ErrConflict: the row moved on under another token.  The worker does nothing.
Conflict(w) ==
  /\ pc[w] \in {"defer", "expire", "cancel", "record"}
  /\ \/ ~ Fenced(entry[w].target, entry[w].tok)
     \/ pc[w] = "expire" /\ entry[w].expiresAt > now[w]
  /\ EndCycle(w)
  /\ UNCHANGED <<vars, deviceVars, logVars>>

\* Any error RunOnce returns (a failed read, alert lookup, send or commit) and
\* any crash: the cycle ends where it stands and the lease is left to lapse.
\* From "claim" it is also the claim that found every due row locked.
Abandon(w) ==
  /\ clock < CrashHorizon
  /\ pc[w] # "idle"
  /\ EndCycle(w)
  /\ UNCHANGED <<vars, deviceVars, logVars>>

-----------------------------------------------------------------------------
(* The rest of the system, as the workers meet it.                         *)

\* One Enqueue of alertnotify.EnqueueMatchedEvent: due at once, expiring with
\* its event.
FanOut(x) ==
  /\ \E max \in AttemptLimits, exp \in Times : Enqueue(x, clock, max, clock, exp)
  /\ UNCHANGED <<cycleVars, deviceVars, logVars>>

\* The user revokes the device.
RevokeDevice(d) ==
  /\ Revoke(d)
  /\ UNCHANGED <<vars, cycleVars, testMode, standing, logVars>>

\* The user's account, consent or preferences change, or quiet hours begin.
ChangeStanding(d) ==
  /\ \E s \in Standings : standing' = [standing EXCEPT ![d] = s]
  /\ UNCHANGED <<vars, cycleVars, testMode, retired, logVars>>

TimePasses == Tick /\ UNCHANGED <<cycleVars, deviceVars, logVars>>

-----------------------------------------------------------------------------
WorkerInit ==
  /\ Init
  /\ pc       = [w \in Workers |-> "idle"]
  /\ now      = [w \in Workers |-> 0]
  /\ entry    = [w \in Workers |-> NoEntry]
  /\ verdict  = [w \in Workers |-> NoResult]
  /\ testMode \in [Devices -> BOOLEAN]
  /\ standing \in [Devices -> Standings]
  /\ retired  = [d \in Devices |-> Active]
  /\ audit    = [x \in Targets |-> <<>>]
  /\ pushes   = {}

\* One turn of Run's loop: what a live worker keeps doing.
Proceed(w) ==
  \/ ReadClock(w) \/ Claim(w) \/ NothingDue(w) \/ GetDevice(w) \/ PlanAttempt(w)
  \/ Send(w)
  \/ Defer(w) \/ Expire(w) \/ RecordCanceled(w)
  \/ RecordSent(w) \/ RecordTemporaryFailure(w)
  \/ RecordDeadLetter(w) \/ RecordUnauthorized(w)
  \/ Conflict(w)

WorkerNext ==
  \/ \E w \in Workers : Proceed(w) \/ Abandon(w)
  \/ \E x \in Targets : FanOut(x)
  \/ \E d \in Devices : RevokeDevice(d) \/ ChangeStanding(d)
  \/ TimePasses

WorkerSpec == WorkerInit /\ [][WorkerNext]_workerVars

\* Run ticks forever, time passes, and after CrashHorizon no cycle is
\* abandoned: nothing else is assumed, and no user ever has to act.
FairSpec ==
  /\ WorkerSpec
  /\ \A w \in Workers : WF_workerVars(Proceed(w))
  /\ WF_workerVars(TimePasses)

-----------------------------------------------------------------------------
(* Properties.                                                             *)

\* The cycles, the logs and the devices keep their types.
WorkerTypeOK ==
  /\ TypeOK
  /\ pc \in [Workers -> Steps]
  /\ now \in [Workers -> Nat]
  /\ entry \in [Workers -> Entry \cup {NoEntry}]
  /\ verdict \in [Workers -> Result \cup {NoResult}]
  /\ testMode \in [Devices -> BOOLEAN]
  /\ standing \in [Devices -> Standings]
  /\ retired \in [Devices -> Nat \cup {Active}]
  /\ audit \in [Targets -> Seq(Delivery)]
  /\ pushes \subseteq Push

Last(log) == log[Len(log)]

\* notification_deliveries and notification_outbox tell one story: a pending
\* row has one "failed" row for each counted attempt; a row closed by a cycle
\* has exactly one more, and that one names how it closed.  Only a row expired
\* without an attempt (handleNotPlannable) closes with nothing to audit.  The
\* provider tells it too: a sent row was accepted in some call, and attempts
\* were made under different claims; and so does the device, which is revoked
\* where the log says "unauthorized".
AuditMatchesState ==
  \A x \in Targets :
    LET row   == outbox[x]
        log   == audit[x]
        heard == {p \in pushes : p.target = x}
    IN  /\ \A i \in 1 .. Len(log) : log[i].number = i
        /\ \A i \in 1 .. Len(log) - 1 : log[i].outcome = "failed"
        /\ row.state \in {"absent", "pending"} =>
             /\ Len(log) = row.attempts
             /\ log # <<>> => Last(log).outcome = "failed"
        /\ row.state \in {"sent", "canceled"} =>
             Len(log) = row.attempts + 1 /\ Last(log).outcome = row.state
        /\ row.state = "dead_letter" =>
             /\ Len(log) = row.attempts /\ log # <<>>
             /\ Last(log).outcome \in {"dead_letter", "unauthorized"}
        /\ row.state = "expired" =>
             /\ Len(log) = row.attempts
             /\ log # <<>> => Last(log).outcome \in {"failed", "expired"}
        /\ row.state = "sent" => \E p \in heard : p.outcome = "accepted"
        /\ Cardinality({p.tok : p \in heard}) >= row.attempts
        /\ log # <<>> /\ Last(log).outcome = "unauthorized" => ~ IsActive(DeviceOf[x])

\* A retry or a deferral never lies beyond the row's expiry, so every pending
\* row is looked at again no later than when it must be closed.  The store
\* does not enforce this for a retry; the worker's cap does.
RetryWithinExpiry ==
  \A x \in Targets :
    Unclaimed(x) => outbox[x].nextAt <= outbox[x].expiresAt

\* A claim taken after its device was revoked never reaches the provider, for
\* whichever row of that device: evaluation is fresh in every cycle.  (A claim
\* taken before may: its evaluation may have come first.)
RevokedIsNotPushed ==
  \A p \in pushes :
    LET d == DeviceOf[p.target] IN ~ IsActive(d) => p.tok <= retired[d]

\* A worker whose claim was taken over changes nothing any more: the step that
\* ends its cycle leaves row, audit and device alone.
StaleWorkerIsInert ==
  [][\A w \in Workers :
       (/\ pc[w] # "idle" /\ pc'[w] = "idle"
        /\ entry[w] # NoEntry
        /\ outbox[entry[w].target].token # entry[w].tok)
       => UNCHANGED <<outbox, audit, retired>>]_workerVars

\* The outbox under the workers is the outbox of NotifyOutbox: no cycle calls a
\* method with a token it was not given or a time it did not read.
OutboxSpec == Spec

Phase(row) ==
  CASE row.state = "absent"    -> "none"
    [] row.state = "pending"   -> "open"
    [] row.state \in Terminal  -> "closed"

Ledger == INSTANCE DeliveryLedger
  WITH phase  <- [x \in Targets |-> Phase(outbox[x])],
       limit  <- [x \in Targets |-> outbox[x].maxAttempts],
       ledger <- audit

\* Workers, crashes, lapsed leases and stale answers keep the promise of
\* DeliveryLedger: each target closes once, with its outcomes numbered in
\* order, none lost and none recorded twice.
LedgerSpec == Ledger!Spec

\* Every enqueued row is concluded, however the provider answers, whatever the
\* user does and wherever cycles were abandoned: an abandoned lease lapses, a
\* deferral ends at the latest with the row's expiry.
EveryRowConcludes ==
  \A x \in Targets : outbox[x].state = "pending" ~> outbox[x].state \in Terminal

\* Comment of Entry.ExpiresAt (notifyoutbox.go): "An entry that reaches this
\* time without a successful send is marked expired, never sent late."
NeverSentLate ==
  [][\A p \in pushes' \ pushes : clock < outbox[p.target].expiresAt]_workerVars

=============================================================================
