------------------------- MODULE NotifyWorkerProofs -------------------------
(***************************************************************************)
(* What holds of notification_outbox for any number of targets and         *)
(* callers, any attempt limits, any lease and any clock; then that the     *)
(* workers are such callers, and what holds of them on top.                *)
(***************************************************************************)
EXTENDS NotifyWorker, FiniteSetTheorems, TLAPS

(***************************************************************************)
(* The outbox.  Every method writes one row, so the argument is made once  *)
(* per kind of write: a write that keeps or clears the row's token         *)
(* (KeepsInv) and a claim, which puts a fresh token in (ClaimKeepsInv).    *)
(* Each action is then a matter of its row being well typed and passing    *)
(* the CHECKs.                                                             *)
(***************************************************************************)

\* The inductive invariant: the three state invariants need one another.
\* ChecksHold is what tells that a fresh token leaves the others distinct.
OutboxInv == TypeOK /\ ChecksHold /\ TokensNameClaims

-----------------------------------------------------------------------------
(* The SET clauses: each yields a well-formed row from a well-formed one.  *)

\* A row that is well typed and passes the CHECKs.
Sound(row) == row \in Row /\ RowChecks(row)

\* A claim of a due row.
LEMMA ClaimedSound ==
  ASSUME NEW r, Sound(r), NEW t \in Nat, NEW tok \in Nat, IsDue(r, t)
  PROVE  Sound(Claimed(r, t, tok)) /\ Claimed(r, t, tok).token = tok
<1>1. r \in Row /\ RowChecks(r) /\ t + Lease \in Nat
  BY OutboxAssumption DEF Sound
<1>2. Claimed(r, t, tok) \in Row
  BY <1>1 DEF Row, Claimed
<1>3. RowChecks(Claimed(r, t, tok)) /\ Claimed(r, t, tok).token = tok
  BY <1>1 DEF Row, RowChecks, Claimed, IsDue, NoTime, NoToken
<1> QED BY <1>2, <1>3 DEF Sound

\* A release or a deferral of a pending row.
LEMMA RequeuedSound ==
  ASSUME NEW r, Sound(r), NEW next \in Nat, r.state = "pending"
  PROVE  Sound(Requeued(r, next)) /\ Requeued(r, next).token = NoToken
<1>1. r \in Row /\ RowChecks(r)
  BY DEF Sound
<1>2. Requeued(r, next) \in Row
  BY <1>1 DEF Row, Requeued, NoToken
<1>3. RowChecks(Requeued(r, next)) /\ Requeued(r, next).token = NoToken
  BY <1>1 DEF Row, RowChecks, Requeued, NoTime, NoToken
<1> QED BY <1>2, <1>3 DEF Sound

\* A terminal outcome that makes no attempt, on a claimed row.
LEMMA ClosedSound ==
  ASSUME NEW r, Sound(r), NEW s \in Terminal
  PROVE  Sound(Closed(r, s)) /\ Closed(r, s).token = NoToken
  BY DEF Sound, Row, RowChecks, Closed, Terminal, States, NoTime, NoToken

\* A terminal outcome of a row nobody holds.
LEMMA ClosedUnclaimedSound ==
  ASSUME NEW r, Sound(r), NEW s \in Terminal, r.token = NoToken
  PROVE  Sound(ClosedUnclaimed(r, s)) /\ ClosedUnclaimed(r, s).token = NoToken
  BY DEF Sound, Row, RowChecks, ClosedUnclaimed, Terminal, States, NoTime, NoToken

\* The dead-lettering attempt of a pending row.
LEMMA DeadLetteredSound ==
  ASSUME NEW r, Sound(r), r.state = "pending"
  PROVE  Sound(DeadLettered(r)) /\ DeadLettered(r).token = NoToken
<1>1. r \in Row /\ RowChecks(r)
  BY DEF Sound
<1>2. DeadLettered(r) \in Row
  <2>1. Closed(r, "dead_letter") \in Row
    BY <1>1 DEF Row, Closed, States, Terminal, NoToken
  <2>2. \A c \in Row : [c EXCEPT !.attempts = @ + 1] \in Row
    BY DEF Row
  <2> QED BY <2>1, <2>2 DEF DeadLettered
<1>3. RowChecks(DeadLettered(r)) /\ DeadLettered(r).token = NoToken
  BY <1>1 DEF Row, RowChecks, DeadLettered, Closed, NoTime, NoToken
<1> QED BY <1>2, <1>3 DEF Sound

\* A failed attempt on a pending row: the row is retried only with an attempt
\* left, so its CASE and the CHECK on attempt_count agree.
LEMMA FailedSound ==
  ASSUME NEW r, Sound(r), NEW t \in Nat, NEW next \in Nat, r.state = "pending"
  PROVE  Sound(FailedRow(r, t, next)) /\ FailedRow(r, t, next).token = NoToken
<1>1. /\ FailedState(r, t) \in {"expired", "dead_letter", "pending"}
      /\ FailedState(r, t) = "pending" => r.attempts + 1 < r.maxAttempts
  BY DEF FailedState, Sound, Row
<1>2. r \in Row /\ RowChecks(r) /\ r.attempts + 1 <= r.maxAttempts
  BY DEF Sound, Row, RowChecks
<1>3. /\ FailedState(r, t) \in States
      /\ (IF FailedState(r, t) = "pending" THEN next ELSE NoTime) \in Nat \cup {NoTime}
      /\ r.attempts + 1 \in Nat /\ NoToken \in Nat
  BY <1>1, <1>2 DEF Row, States, Terminal, NoToken
<1>4. FailedRow(r, t, next) \in Row
  BY <1>3, <1>2 DEF Row, FailedRow
<1>5. RowChecks(FailedRow(r, t, next)) /\ FailedRow(r, t, next).token = NoToken
  BY <1>1, <1>2 DEF Row, RowChecks, FailedRow, NoTime, NoToken
<1> QED BY <1>4, <1>5 DEF Sound

-----------------------------------------------------------------------------
\* A write of a well-formed row that carries no new token preserves OutboxInv.
LEMMA KeepsInv ==
  ASSUME OutboxInv, NEW x \in Targets, NEW row, Sound(row),
         row.token \in {NoToken, outbox[x].token},
         Put(x, row), clock' \in Nat, issued' = issued
  PROVE  OutboxInv'
<1>1. TypeOK'
  BY DEF OutboxInv, TypeOK, Put, Sound
<1>2. ChecksHold'
  BY DEF OutboxInv, TypeOK, ChecksHold, Put, Sound
<1>3. TokensNameClaims'
  BY DEF OutboxInv, TypeOK, TokensNameClaims, Put, Sound, Row, NoToken
<1> QED BY <1>1, <1>2, <1>3 DEF OutboxInv

\* Claiming a due row preserves OutboxInv: the token is one above every other.
LEMMA ClaimKeepsInv ==
  ASSUME OutboxInv, NEW x \in Targets, NEW t \in Nat,
         IsDue(outbox[x], t), TakeClaim(x, t)
  PROVE  OutboxInv'
<1> DEFINE row == Claimed(outbox[x], t, issued')
<1>1. /\ Sound(outbox[x])
      /\ issued' \in Nat /\ issued' = issued + 1
      /\ clock' = clock
      /\ outbox' = [outbox EXCEPT ![x] = row]
  BY DEF OutboxInv, TypeOK, ChecksHold, Sound, TakeClaim, Put
<1>2. Sound(row) /\ row.token = issued'
  BY <1>1, ClaimedSound
<1>3. TypeOK'
  BY <1>1, <1>2 DEF OutboxInv, TypeOK, Sound
<1>4. ChecksHold'
  BY <1>1, <1>2 DEF OutboxInv, TypeOK, ChecksHold, Sound
<1>5. TokensNameClaims'
  BY <1>1, <1>2 DEF OutboxInv, TypeOK, TokensNameClaims, Sound, Row, NoToken
<1> QED BY <1>3, <1>4, <1>5 DEF OutboxInv

\* The empty table satisfies OutboxInv.
LEMMA InitInv == Init => OutboxInv
  BY DEF Init, OutboxInv, TypeOK, ChecksHold, RowChecks, TokensNameClaims,
         NoRow, Row, States, Terminal, NoTime, NoToken

\* Every method preserves OutboxInv.
LEMMA NextInv == OutboxInv /\ [Next]_vars => OutboxInv'
<1> SUFFICES ASSUME OutboxInv, [Next]_vars PROVE OutboxInv'
  OBVIOUS
<1>0. /\ clock \in Nat /\ issued \in Nat /\ 0 .. clock \subseteq Nat /\ Times \subseteq Nat
      /\ \A x \in Targets : Sound(outbox[x])
  BY OutboxAssumption DEF OutboxInv, TypeOK, ChecksHold, Sound, Times
<1>1. CASE Tick
  BY <1>1 DEF Tick, OutboxInv, TypeOK, ChecksHold, TokensNameClaims
<1>2. ASSUME NEW x \in Targets, NEW t \in 0 .. clock, NEW max \in AttemptLimits,
             NEW exp \in Times, NEW first \in 0 .. exp,
             Enqueue(x, t, max, first, exp)
      PROVE  OutboxInv'
  <2> DEFINE row == IF outbox[x].state = "absent" THEN NewRow(max, first, exp)
                                                  ELSE outbox[x]
  <2>1. max \in Nat \ {0} /\ exp \in Nat /\ first \in Nat
    BY OutboxAssumption DEF Times
  <2>2. Sound(NewRow(max, first, exp)) /\ NewRow(max, first, exp).token = NoToken
    BY <2>1 DEF NewRow, Sound, Row, RowChecks, States, Terminal, NoTime, NoToken
  <2>3. Sound(row) /\ row.token \in {NoToken, outbox[x].token}
    BY <1>0, <2>2
  <2> QED BY <1>0, <1>2, <2>3, KeepsInv DEF Enqueue
<1>3. ASSUME NEW x \in Targets, NEW t \in 0 .. clock, NEW locked \in SUBSET Targets,
             ClaimNextDue(x, t, locked)
      PROVE  OutboxInv'
  BY <1>0, <1>3, ClaimKeepsInv DEF ClaimNextDue
<1>4. ASSUME NEW x \in Targets, NEW t \in 0 .. clock, ClaimSpecific(x, t)
      PROVE  OutboxInv'
  BY <1>0, <1>4, ClaimKeepsInv DEF ClaimSpecific
<1>5. ASSUME NEW x \in Targets, NEW t \in 0 .. clock, MarkExpired(x, t)
      PROVE  OutboxInv'
  BY <1>0, <1>5, ClosedUnclaimedSound, KeepsInv DEF MarkExpired, Unclaimed, Terminal
<1>6. ASSUME NEW x \in Targets, NEW t \in 0 .. clock, NEW tok \in Tokens,
             ReleaseClaim(x, t, tok)
      PROVE  OutboxInv'
  BY <1>0, <1>6, RequeuedSound, KeepsInv DEF ReleaseClaim, Fenced
<1>7. ASSUME NEW x \in Targets, NEW t \in 0 .. clock, NEW tok \in Tokens,
             NEW next \in Times, RescheduleClaim(x, t, tok, next)
      PROVE  OutboxInv'
  BY <1>0, <1>7, RequeuedSound, KeepsInv DEF RescheduleClaim, Fenced
<1>8. ASSUME NEW x \in Targets, NEW t \in 0 .. clock, NEW tok \in Tokens,
             NEW next \in Times, RecordFailedAttempt(x, t, next, tok)
      PROVE  OutboxInv'
  BY <1>0, <1>8, FailedSound, KeepsInv DEF RecordFailedAttempt, Fenced
<1>9. ASSUME NEW x \in Targets, NEW t \in 0 .. clock, NEW tok \in Tokens,
             MarkExpiredClaimed(x, t, tok)
      PROVE  OutboxInv'
  BY <1>0, <1>9, ClosedSound, KeepsInv DEF MarkExpiredClaimed, Terminal
<1>10. ASSUME NEW x \in Targets, Cancel(x) PROVE OutboxInv'
  BY <1>0, <1>10, ClosedUnclaimedSound, KeepsInv DEF Cancel, Unclaimed, Terminal
<1>11. ASSUME NEW x \in Targets, NEW tok \in Tokens, MarkSent(x, tok)
       PROVE  OutboxInv'
  BY <1>0, <1>11, ClosedSound, KeepsInv DEF MarkSent, Terminal
<1>12. ASSUME NEW x \in Targets, NEW tok \in Tokens, CancelClaimed(x, tok)
       PROVE  OutboxInv'
  BY <1>0, <1>12, ClosedSound, KeepsInv DEF CancelClaimed, Terminal
<1>13. ASSUME NEW x \in Targets, NEW tok \in Tokens, DeadLetterClaimed(x, tok)
       PROVE  OutboxInv'
  BY <1>0, <1>13, DeadLetteredSound, KeepsInv DEF DeadLetterClaimed, Fenced
<1>14. CASE UNCHANGED vars
  BY <1>14 DEF vars, OutboxInv, TypeOK, ChecksHold, TokensNameClaims
<1> QED
  BY <1>1, <1>2, <1>3, <1>4, <1>5, <1>6, <1>7, <1>8, <1>9, <1>10, <1>11, <1>12,
     <1>13, <1>14 DEF Next

-----------------------------------------------------------------------------
(* The invariants of every behaviour.                                      *)

\* OutboxInv holds in every reachable state.
THEOREM OutboxInvariant == Spec => []OutboxInv
<1>1. Init => OutboxInv
  BY InitInv
<1>2. OutboxInv /\ [Next]_vars => OutboxInv'
  BY NextInv
<1> QED BY <1>1, <1>2, PTL DEF Spec

\* The columns of notification_outbox keep their types.
THEOREM TypeCorrect == Spec => []TypeOK
<1>1. OutboxInv => TypeOK
  BY DEF OutboxInv
<1> QED BY <1>1, OutboxInvariant, PTL

\* No method of notifyoutboxstore ever trips a CHECK of migrations 000010 and
\* 000011, however calls with stale clocks and stale tokens interleave.
THEOREM ChecksNeverTrip == Spec => []ChecksHold
<1>1. OutboxInv => ChecksHold
  BY DEF OutboxInv
<1> QED BY <1>1, OutboxInvariant, PTL

\* A claim token held by a row names one row and was issued: comparing tokens
\* is a fence.
THEOREM TokensAreUnique == Spec => []TokensNameClaims
<1>1. OutboxInv => TokensNameClaims
  BY DEF OutboxInv
<1> QED BY <1>1, OutboxInvariant, PTL

-----------------------------------------------------------------------------
(* What no step may do.                                                    *)

\* A terminal row is written by no method, not even by one that holds a token
\* from before the row was closed.
THEOREM TerminalStaysPut == Spec => TerminalIsFinal
<1>1. OutboxInv /\ [Next]_vars =>
        [\A x \in Targets : outbox[x].state \in Terminal => outbox'[x] = outbox[x]]_vars
  <2> SUFFICES ASSUME OutboxInv, Next, NEW x \in Targets, outbox[x].state \in Terminal
               PROVE  outbox'[x] = outbox[x]
    OBVIOUS
  <2>1. outbox \in [Targets -> Row] /\ outbox[x].state \notin {"pending", "absent"}
    BY DEF OutboxInv, TypeOK, Terminal
  <2> QED
    BY <2>1 DEF Next, Tick, Enqueue, ClaimNextDue, ClaimSpecific, TakeClaim, IsDue,
      MarkExpired, Cancel, Unclaimed, ReleaseClaim, RescheduleClaim,
      RecordFailedAttempt, MarkExpiredClaimed, MarkSent, CancelClaimed,
      DeadLetterClaimed, Fenced, Put
<1> QED BY <1>1, OutboxInvariant, PTL DEF Spec, TerminalIsFinal

\* A claim displaces another claim only once that one's lease has run out on
\* the real clock: a stale reading can only make a claimant later.
THEOREM LeaseIsExclusive == Spec => LeaseExcludes
<1> DEFINE Displaced(x) == /\ outbox[x].token # NoToken
                           /\ outbox'[x].token \notin {NoToken, outbox[x].token}
<1>1. OutboxInv /\ [Next]_vars =>
        [\A x \in Targets : Displaced(x) => outbox[x].nextAt <= clock]_vars
  <2> SUFFICES ASSUME OutboxInv, Next, NEW y \in Targets, Displaced(y)
               PROVE  outbox[y].nextAt <= clock
    OBVIOUS
  <2>1. /\ outbox \in [Targets -> Row] /\ clock \in Nat
        /\ \A x \in Targets : Sound(outbox[x])
    BY DEF OutboxInv, TypeOK, ChecksHold, Sound
  <2>2. ASSUME NEW t \in 0 .. clock, IsDue(outbox[y], t)
        PROVE  outbox[y].nextAt <= clock
    BY <2>1, <2>2 DEF IsDue, Row, NoTime
  <2>3. ASSUME NEW x \in Targets, NEW row, Put(x, row),
               row.token \in {NoToken, outbox[x].token}
        PROVE  FALSE
    BY <2>1, <2>3 DEF Put
  <2>4. CASE Tick
    BY <2>4 DEF Tick
  <2>5. ASSUME NEW x \in Targets, NEW t \in 0 .. clock, NEW max \in AttemptLimits,
               NEW exp \in Times, NEW first \in 0 .. exp,
               Enqueue(x, t, max, first, exp)
        PROVE  FALSE
    BY <2>3, <2>5 DEF Enqueue, NewRow
  <2>6. ASSUME NEW x \in Targets, NEW t \in 0 .. clock, IsDue(outbox[x], t), TakeClaim(x, t)
        PROVE  outbox[y].nextAt <= clock
    BY <2>1, <2>2, <2>6 DEF TakeClaim, Put
  <2>7. ASSUME NEW x \in Targets, NEW s \in Terminal, Unclaimed(x),
               Put(x, ClosedUnclaimed(outbox[x], s))
        PROVE  FALSE
    BY <2>1, <2>3, <2>7, ClosedUnclaimedSound DEF Unclaimed
  <2>8. ASSUME NEW x \in Targets, NEW s \in Terminal, Put(x, Closed(outbox[x], s))
        PROVE  FALSE
    BY <2>1, <2>3, <2>8, ClosedSound
  <2>9. ASSUME NEW x \in Targets, NEW tok \in Tokens, DeadLetterClaimed(x, tok)
        PROVE  FALSE
    BY <2>1, <2>3, <2>9, DeadLetteredSound DEF DeadLetterClaimed, Fenced
  <2>10. ASSUME NEW x \in Targets, NEW tok \in Tokens, NEW next \in Nat, Fenced(x, tok),
                Put(x, Requeued(outbox[x], next))
         PROVE  FALSE
    BY <2>1, <2>3, <2>10, RequeuedSound DEF Fenced
  <2>11. ASSUME NEW x \in Targets, NEW t \in 0 .. clock, NEW tok \in Tokens,
                NEW next \in Times, RecordFailedAttempt(x, t, next, tok)
         PROVE  FALSE
    <3>1. t \in Nat /\ next \in Nat
      BY <2>1, OutboxAssumption DEF Times
    <3> QED BY <2>1, <2>3, <2>11, <3>1, FailedSound DEF RecordFailedAttempt, Fenced
  <2>12. 0 .. clock \subseteq Nat /\ Times \subseteq Nat
    BY <2>1, OutboxAssumption DEF Times
  <2>13. ASSUME NEW x \in Targets,
                \/ Cancel(x)
                \/ \E tok \in Tokens : \/ MarkSent(x, tok) \/ CancelClaimed(x, tok)
                                      \/ DeadLetterClaimed(x, tok)
         PROVE  FALSE
    BY <2>7, <2>8, <2>9, <2>13 DEF Cancel, MarkSent, CancelClaimed, Terminal
  <2>14. ASSUME NEW x \in Targets, NEW t \in 0 .. clock, NEW tok \in Tokens,
                \/ ReleaseClaim(x, t, tok) \/ MarkExpiredClaimed(x, t, tok)
                \/ \E next \in Times : \/ RescheduleClaim(x, t, tok, next)
                                      \/ RecordFailedAttempt(x, t, next, tok)
         PROVE  FALSE
    BY <2>8, <2>10, <2>11, <2>12, <2>14
    DEF ReleaseClaim, RescheduleClaim, MarkExpiredClaimed, Terminal
  <2> QED
    BY <2>4, <2>5, <2>6, <2>7, <2>13, <2>14
    DEF Next, ClaimNextDue, ClaimSpecific, MarkExpired, Terminal
<1> QED BY <1>1, OutboxInvariant, PTL DEF Spec, LeaseExcludes

-----------------------------------------------------------------------------
(***************************************************************************)
(* The workers implement NotifyOutbox: every step of a worker, a crash, a  *)
(* user or the clock is a step of the outbox or leaves it alone.  With it  *)
(* what was shown of any callers holds of the workers.                     *)
(*                                                                         *)
(* What has to be known of a cycle is CycleInv: its reading is a past one, *)
(* its token was issued, and its row's expiry is a time.  LogInv adds what *)
(* relates rows, audit log and provider calls; with it the workers         *)
(* implement DeliveryLedger as well.                                       *)
(***************************************************************************)

\* A cycle past its claim holds an entry, an issued token and a past reading.
CycleInv ==
  /\ clock \in Times
  /\ issued \in Nat
  /\ \A x \in Targets : outbox[x].expiresAt \in Times
  /\ outbox \in [Targets -> Row]
  /\ DOMAIN pc = Workers
  /\ now \in [Workers -> 0 .. clock]
  /\ DOMAIN entry = Workers
  /\ \A w \in Workers : pc[w] \notin {"idle", "claim"} =>
       /\ entry[w].target \in Targets
       /\ entry[w].tok \in Tokens
       /\ entry[w].expiresAt \in Times
       /\ entry[w].attempts \in Nat
  /\ verdict \in [Workers -> Result \cup {NoResult}]

\* Send returns one of the four outcomes, whatever the provider answers.
LEMMA SendReturnsResults == Results \subseteq Result
<1>1. ASSUME NEW h \in Header PROVE RetryAfter(h) \in Nat \cup {NoHint}
  BY <1>1 DEF Header, RetryAfter, NoHint
<1>2. \A o \in Outcome : Without(o) \in Result
  BY DEF Without, Result
<1>3. ASSUME NEW s \in Nat, NEW h \in Header PROVE Classify(s, h) \in Result
  <2>1. [outcome |-> "temporary", retryAfter |-> RetryAfter(h)] \in Result
    BY <1>1 DEF Result, Outcome
  <2>2. /\ Without("accepted") \in Result /\ Without("unauthorized") \in Result
        /\ Without("permanent") \in Result /\ Without("temporary") \in Result
    BY <1>2 DEF Outcome
  <2> QED BY <2>1, <2>2 DEF Classify
<1> QED BY <1>2, <1>3, RelayAssumption DEF Results, NetworkError, Outcome

\* Every attempt is followed by a delay of at least one unit.
LEMMA DelayIsPositive ==
  ASSUME NEW attempt \in Nat, NEW hint \in Nat \cup {NoHint}
  PROVE  BackoffDelay(attempt, hint) \in Nat \ {0}
<1>1. \A k \in 0 .. 20 : 2 ^ k \in Int
  OBVIOUS
<1>2. Schedule(attempt) \in Nat \ {0}
  BY <1>1, RelayAssumption DEF Schedule
<1> QED BY <1>2, RelayAssumption DEF BackoffDelay, NoHint

\* The earlier of a time after t and a row's expiry is a time.
LEMMA CappedTime ==
  ASSUME NEW t \in Nat, NEW d \in Nat, NEW exp \in Times
  PROVE  Min2(t + d, exp) \in Times
  BY OutboxAssumption DEF Min2, Times

\* Each step of the composed system is a step of the outbox, or a stutter.
LEMMA StepImplements ==
  ASSUME CycleInv, [WorkerNext]_workerVars PROVE [Next]_vars
<1> USE OutboxAssumption, WorkerAssumption
<1>0. /\ clock \in 0 .. clock /\ clock \in Times
      /\ \A w \in Workers : now[w] \in 0 .. clock /\ now[w] \in Nat
  BY DEF CycleInv, Times
<1>1. ASSUME NEW w \in Workers, Proceed(w) PROVE [Next]_vars
  <2>1. CASE Claim(w)
    BY <1>0, <2>1 DEF Claim, Next
  <2>2. CASE pc[w] \notin {"idle", "claim"}
    <3> DEFINE x == entry[w].target
               tok == entry[w].tok
    <3>0. x \in Targets /\ tok \in Tokens /\ entry[w].expiresAt \in Times
      BY <2>2 DEF CycleInv
    <3>1. CASE Defer(w)
      <4>1. RequeueAt(w) \in Times
        BY <1>0, <3>0, CappedTime DEF RequeueAt
      <4> QED BY <1>0, <3>0, <3>1, <4>1 DEF Defer, Next
    <3>2. CASE Expire(w)
      BY <1>0, <3>0, <3>2 DEF Expire, Next
    <3>3. CASE RecordCanceled(w)
      BY <3>0, <3>3 DEF RecordCanceled, CanceledTx, Next
    <3>4. CASE RecordSent(w)
      BY <3>0, <3>4 DEF RecordSent, SentTx, Next
    <3>5. CASE RecordTemporaryFailure(w)
      <4>1. RecordFailedAttempt(x, now[w], RetryAt(w), tok)
        BY <3>5 DEF RecordTemporaryFailure, FailedAttemptTx
      <4>2. AttemptNumber(entry[w]) \in Nat
        BY <2>2 DEF CycleInv, AttemptNumber
      <4>3. verdict[w].retryAfter \in Nat \cup {NoHint}
        BY <3>5 DEF CycleInv, RecordTemporaryFailure, Returned, Result, NoResult
      <4>4. Delay(w) \in Nat
        BY <4>2, <4>3, DelayIsPositive DEF Delay
      <4>5. RetryAt(w) \in Times
        BY <1>0, <3>0, <4>4, CappedTime DEF RetryAt
      <4> QED BY <1>0, <3>0, <4>1, <4>5 DEF Next
    <3>6. CASE RecordDeadLetter(w) \/ RecordUnauthorized(w)
      BY <3>0, <3>6
      DEF RecordDeadLetter, DeadLetterTx, RecordUnauthorized, UnauthorizedTx, Next
    <3>7. CASE GetDevice(w) \/ PlanAttempt(w) \/ Send(w) \/ Conflict(w)
      BY <3>7 DEF GetDevice, PlanAttempt, Send, Conflict, Decide
    <3> QED
      BY <1>1, <2>2, <3>1, <3>2, <3>3, <3>4, <3>5, <3>6, <3>7
      DEF Proceed, ReadClock, Claim, NothingDue
  <2>3. CASE ReadClock(w) \/ NothingDue(w)
    BY <2>3 DEF ReadClock, NothingDue
  <2> QED
    BY <1>1, <2>1, <2>2, <2>3
    DEF Proceed, GetDevice, PlanAttempt, Send, Defer, Expire, RecordCanceled, RecordSent,
        RecordTemporaryFailure, RecordDeadLetter, RecordUnauthorized, Conflict, Returned
<1>2. ASSUME NEW w \in Workers, Abandon(w) PROVE [Next]_vars
  BY <1>2 DEF Abandon
<1>3. ASSUME NEW x \in Targets, FanOut(x) PROVE [Next]_vars
  <2>1. PICK max \in AttemptLimits, exp \in Times : Enqueue(x, clock, max, clock, exp)
    BY <1>3 DEF FanOut
  <2>2. clock \in 0 .. exp
    BY <1>0, <2>1 DEF Enqueue, Times
  <2> QED BY <1>0, <2>1, <2>2 DEF Next
<1>4. ASSUME NEW d \in Devices, RevokeDevice(d) \/ ChangeStanding(d) PROVE [Next]_vars
  BY <1>4 DEF RevokeDevice, ChangeStanding
<1>5. CASE TimePasses
  BY <1>5 DEF TimePasses, Next
<1>6. CASE UNCHANGED workerVars
  BY <1>6 DEF workerVars
<1> QED BY <1>1, <1>2, <1>3, <1>4, <1>5, <1>6 DEF WorkerNext

-----------------------------------------------------------------------------
(* CycleInv is inductive beside OutboxInv.                                 *)

\* No method of the outbox moves a row's expiry, the clock never goes back and
\* no token is taken back.
LEMMA OutboxFrame ==
  ASSUME OutboxInv, clock \in Times, [Next]_vars,
         \A x \in Targets : outbox[x].expiresAt \in Times
  PROVE  /\ clock' \in Times /\ clock <= clock'
         /\ issued \in Nat /\ issued' \in Nat /\ issued <= issued'
         /\ \A x \in Targets : outbox'[x].expiresAt \in Times
<1> USE OutboxAssumption
<1>0. /\ clock \in Nat /\ issued \in Nat /\ outbox \in [Targets -> Row]
      /\ 0 \in Times
  BY DEF OutboxInv, TypeOK, Times
<1>1. ASSUME NEW x \in Targets, NEW row, Put(x, row), row.expiresAt \in Times
      PROVE  \A y \in Targets : outbox'[y].expiresAt \in Times
  BY <1>0, <1>1 DEF Put
<1>2. \A x \in Targets : outbox[x] \in Row
  BY <1>0
<1>3. \A r \in Row : \A t, tok, next \in Nat : \A s :
        /\ Claimed(r, t, tok).expiresAt = r.expiresAt
        /\ Requeued(r, next).expiresAt = r.expiresAt
        /\ Closed(r, s).expiresAt = r.expiresAt
        /\ ClosedUnclaimed(r, s).expiresAt = r.expiresAt
        /\ DeadLettered(r).expiresAt = r.expiresAt
        /\ FailedRow(r, t, next).expiresAt = r.expiresAt
  BY DEF Row, Claimed, Requeued, Closed, ClosedUnclaimed, DeadLettered, FailedRow
<1>4. 0 .. clock \subseteq Nat /\ Times \subseteq Nat /\ Tokens \subseteq Nat
  BY <1>0 DEF Times, Tokens
<1>5. CASE UNCHANGED vars
  BY <1>0, <1>5 DEF vars
<1>6. CASE Tick
  BY <1>0, <1>6 DEF Tick, Times
<1>7. ASSUME NEW x \in Targets, NEW t \in 0 .. clock, TakeClaim(x, t)
      PROVE  /\ clock' = clock /\ issued' = issued + 1
             /\ \A y \in Targets : outbox'[y].expiresAt \in Times
  <2>1. Claimed(outbox[x], t, issued').expiresAt = outbox[x].expiresAt
    BY <1>0, <1>2, <1>3, <1>4, <1>7 DEF TakeClaim
  <2>2. Claimed(outbox[x], t, issued').expiresAt \in Times
    BY <2>1
  <2> QED BY <1>1, <1>7, <2>2 DEF TakeClaim
<1>8. ASSUME NEW x \in Targets, NEW t \in 0 .. clock, NEW max \in AttemptLimits,
             NEW exp \in Times, NEW first \in 0 .. exp,
             Enqueue(x, t, max, first, exp)
      PROVE  /\ UNCHANGED <<clock, issued>>
             /\ \A y \in Targets : outbox'[y].expiresAt \in Times
  BY <1>1, <1>8 DEF Enqueue, NewRow
<1>9. ASSUME NEW x \in Targets, NEW s \in Terminal, UNCHANGED <<clock, issued>>,
             \/ Put(x, Closed(outbox[x], s))
             \/ Put(x, ClosedUnclaimed(outbox[x], s))
             \/ Put(x, DeadLettered(outbox[x]))
             \/ \E next \in Nat : Put(x, Requeued(outbox[x], next))
             \/ \E t \in Nat, next \in Nat : Put(x, FailedRow(outbox[x], t, next))
      PROVE  \A y \in Targets : outbox'[y].expiresAt \in Times
  BY <1>1, <1>2, <1>3, <1>9
<1>10. CASE Next /\ ~ Tick /\ UNCHANGED <<clock, issued>>
  <2> SUFFICES \A y \in Targets : outbox'[y].expiresAt \in Times
    BY <1>0, <1>10
  <2>1. issued' # issued + 1
    BY <1>0, <1>10
  <2> QED
    BY <1>4, <1>7, <1>8, <1>9, <1>10, <2>1
    DEF Next, ClaimNextDue, ClaimSpecific, MarkExpired, Cancel, ReleaseClaim,
        RescheduleClaim, RecordFailedAttempt, MarkSent, MarkExpiredClaimed,
        CancelClaimed, DeadLetterClaimed, Terminal
<1>11. CASE Next /\ ~ Tick /\ ~ UNCHANGED <<clock, issued>>
  <2>1. PICK x \in Targets, t \in 0 .. clock : TakeClaim(x, t)
    BY <1>11
    DEF Next, Enqueue, ClaimNextDue, ClaimSpecific, MarkExpired, Cancel, ReleaseClaim,
        RescheduleClaim, RecordFailedAttempt, MarkSent, MarkExpiredClaimed,
        CancelClaimed, DeadLetterClaimed
  <2> QED BY <1>0, <1>7, <2>1
<1> QED BY <1>5, <1>6, <1>10, <1>11

WorkerInv == OutboxInv /\ CycleInv

\* No cycle is under way at the start.
LEMMA WorkerInitInv == WorkerInit => WorkerInv
<1> SUFFICES ASSUME WorkerInit PROVE WorkerInv
  OBVIOUS
<1>1. OutboxInv
  BY InitInv DEF WorkerInit
<1>2. CycleInv
  BY <1>1, OutboxAssumption
  DEF WorkerInit, Init, CycleInv, OutboxInv, TypeOK, Times, NoRow
<1> QED BY <1>1, <1>2 DEF WorkerInv

\* Every step of the composed system keeps WorkerInv.
LEMMA WorkerNextInv == WorkerInv /\ [WorkerNext]_workerVars => WorkerInv'
<1> SUFFICES ASSUME WorkerInv, [WorkerNext]_workerVars PROVE WorkerInv'
  OBVIOUS
<1>0. OutboxInv /\ CycleInv /\ [Next]_vars
  BY StepImplements DEF WorkerInv
<1>1. OutboxInv'
  BY <1>0, NextInv
<1>2. /\ clock' \in Times /\ clock <= clock' /\ clock \in Nat /\ clock' \in Nat
      /\ issued \in Nat /\ issued' \in Nat /\ issued <= issued'
      /\ \A x \in Targets : outbox'[x].expiresAt \in Times
      /\ outbox' \in [Targets -> Row]
  BY <1>0, <1>1, OutboxFrame DEF CycleInv, OutboxInv, TypeOK
<1>3. 0 .. clock \subseteq 0 .. clock' /\ Tokens \subseteq Tokens'
  BY <1>2 DEF Tokens
<1> DEFINE HoldsClaim(w) == /\ entry[w].target \in Targets
                            /\ entry[w].tok \in Tokens
                            /\ entry[w].expiresAt \in Times
                            /\ entry[w].attempts \in Nat
<1>4. /\ DOMAIN pc = Workers /\ now \in [Workers -> 0 .. clock]
      /\ DOMAIN entry = Workers
      /\ \A w \in Workers : pc[w] \notin {"idle", "claim"} => HoldsClaim(w)
      /\ \A x \in Targets : outbox[x].expiresAt \in Times
      /\ 0 \in 0 .. clock
  BY <1>0, <1>2 DEF CycleInv
<1>12. verdict' \in [Workers -> Result \cup {NoResult}]
  <2>1. ASSUME NEW w \in Workers, Proceed(w) \/ Abandon(w) PROVE <1>12
    <3>1. CASE Send(w)
      <4>1. PICK result \in Results : verdict' = [verdict EXCEPT ![w] = result]
        BY <3>1 DEF Send
      <4> QED BY <1>0, <4>1, SendReturnsResults DEF CycleInv
    <3>2. CASE EndCycle(w)
      BY <1>0, <3>2 DEF CycleInv, EndCycle
    <3>3. CASE UNCHANGED verdict
      BY <1>0, <3>3 DEF CycleInv
    <3> QED
      BY <2>1, <3>1, <3>2, <3>3
      DEF Proceed, Abandon, ReadClock, Claim, NothingDue, GetDevice, PlanAttempt, Decide,
          Defer, Expire, RecordCanceled, RecordSent, RecordTemporaryFailure,
          RecordDeadLetter, RecordUnauthorized, Conflict
  <2> QED
    BY <1>0, <2>1
    DEF WorkerNext, FanOut, RevokeDevice, ChangeStanding, TimePasses, CycleInv,
        workerVars, cycleVars
<1>5. SUFFICES /\ DOMAIN pc' = Workers
               /\ now' \in [Workers -> 0 .. clock']
               /\ DOMAIN entry' = Workers
               /\ \A w \in Workers : pc'[w] \notin {"idle", "claim"} => HoldsClaim(w)'
  BY <1>1, <1>2, <1>12 DEF WorkerInv, CycleInv
<1>6. CASE UNCHANGED <<pc, now, entry>>
  BY <1>3, <1>4, <1>6
<1>7. ASSUME NEW w \in Workers, EndCycle(w) PROVE <1>5!1
  BY <1>3, <1>4, <1>7 DEF EndCycle, Goto
<1>8. ASSUME NEW w \in Workers, NEW step, Goto(w, step),
             pc[w] \notin {"idle", "claim"}, UNCHANGED <<now, entry>>
      PROVE <1>5!1
  BY <1>3, <1>4, <1>8 DEF Goto
<1>9. ASSUME NEW w \in Workers, ReadClock(w) PROVE <1>5!1
  BY <1>2, <1>3, <1>4, <1>9 DEF ReadClock, Goto
<1>10. ASSUME NEW w \in Workers, Claim(w) PROVE <1>5!1
  <2>1. PICK x \in Targets :
          /\ issued' = issued + 1
          /\ entry' = [entry EXCEPT ![w] =
               [target |-> x, tok |-> issued', attempts |-> outbox[x].attempts,
                maxAttempts |-> outbox[x].maxAttempts, expiresAt |-> outbox[x].expiresAt]]
    BY <1>10 DEF Claim, ClaimNextDue, TakeClaim
  <2>2. issued' \in Tokens'
    BY <1>2, <2>1 DEF Tokens
  <2>3. pc' = [pc EXCEPT ![w] = "device"] /\ UNCHANGED now
    BY <1>10 DEF Claim, Goto
  <2>4. HoldsClaim(w)'
    <3>1. outbox[x].attempts \in Nat
      BY <1>0 DEF CycleInv, Row
    <3> QED BY <1>4, <2>1, <2>2, <3>1 DEF Times
  <2>5. \A v \in Workers : v # w => pc'[v] = pc[v] /\ entry'[v] = entry[v]
    BY <1>4, <2>1, <2>3
  <2> QED
    BY <1>3, <1>4, <2>1, <2>3, <2>4, <2>5 DEF Times
<1>11. ASSUME NEW w \in Workers, Proceed(w) \/ Abandon(w) PROVE <1>5!1
  <2>1. CASE GetDevice(w) \/ PlanAttempt(w) \/ Send(w)
    BY <1>8, <2>1 DEF GetDevice, PlanAttempt, Send, Decide
  <2>2. CASE \/ NothingDue(w) \/ Defer(w) \/ Expire(w) \/ RecordCanceled(w)
             \/ RecordSent(w) \/ RecordTemporaryFailure(w) \/ RecordDeadLetter(w)
             \/ RecordUnauthorized(w) \/ Conflict(w) \/ Abandon(w)
    BY <1>7, <2>2
    DEF NothingDue, Defer, Expire, RecordCanceled, RecordSent, RecordTemporaryFailure,
        RecordDeadLetter, RecordUnauthorized, Conflict, Abandon
  <2> QED BY <1>9, <1>10, <1>11, <2>1, <2>2 DEF Proceed
<1> QED
  BY <1>0, <1>6, <1>11
  DEF WorkerNext, FanOut, RevokeDevice, ChangeStanding, TimePasses, workerVars, cycleVars

\* The composed system keeps WorkerInv.
THEOREM WorkerInvariant == WorkerSpec => []WorkerInv
  BY WorkerInitInv, WorkerNextInv, PTL DEF WorkerSpec

\* The workers implement the outbox: whatever NotifyOutboxProofs shows of any
\* callers holds of them.
THEOREM WorkersImplementOutbox == WorkerSpec => OutboxSpec
<1>1. WorkerInit => Init
  BY DEF WorkerInit
<1>2. WorkerInv /\ [WorkerNext]_workerVars => [Next]_vars
  BY StepImplements DEF WorkerInv
<1> QED BY <1>1, <1>2, WorkerInvariant, PTL DEF WorkerSpec, Spec, OutboxSpec

-----------------------------------------------------------------------------
(* Retries end with the row.                                               *)

\* No method of the outbox moves the expiry of a row it has, or removes it.
LEMMA ExpiryFixed ==
  ASSUME OutboxInv, clock \in Times, [Next]_vars, NEW x \in Targets,
         outbox[x].state # "absent"
  PROVE  outbox'[x].state # "absent" /\ outbox'[x].expiresAt = outbox[x].expiresAt
<1> USE OutboxAssumption
<1>0. /\ clock \in Nat /\ issued \in Nat /\ outbox \in [Targets -> Row]
      /\ 0 .. clock \subseteq Nat /\ Times \subseteq Nat
  BY DEF OutboxInv, TypeOK, Times
<1> DEFINE Kept(r) == r.state # "absent" /\ r.expiresAt = outbox[x].expiresAt
<1>1. outbox[x] \in Row
  BY <1>0
<1>2. ASSUME NEW t \in Nat, NEW tok \in Nat, NEW next \in Nat, NEW s \in Terminal,
             outbox[x].state = "pending"
      PROVE  /\ Kept(Claimed(outbox[x], t, tok)) /\ Kept(Requeued(outbox[x], next))
             /\ Kept(Closed(outbox[x], s)) /\ Kept(ClosedUnclaimed(outbox[x], s))
             /\ Kept(DeadLettered(outbox[x])) /\ Kept(FailedRow(outbox[x], t, next))
  BY <1>1, <1>2
  DEF Row, Claimed, Requeued, Closed, ClosedUnclaimed, DeadLettered, FailedRow, FailedState,
      Terminal
<1>3. ASSUME NEW y \in Targets, NEW row, Put(y, row), y = x => Kept(row)
      PROVE  Kept(outbox'[x])
  BY <1>0, <1>3 DEF Put
<1>4. ASSUME NEW y \in Targets, NEW t \in 0 .. clock, IsDue(outbox[y], t), TakeClaim(y, t)
      PROVE  Kept(outbox'[x])
  <2>1. y = x => Kept(Claimed(outbox[y], t, issued'))
    BY <1>0, <1>2, <1>4 DEF IsDue, TakeClaim, Terminal
  <2> QED BY <1>3, <1>4, <2>1 DEF TakeClaim
<1>5. ASSUME NEW y \in Targets, NEW t \in 0 .. clock, NEW max \in AttemptLimits,
             NEW exp \in Times, NEW first \in 0 .. exp, Enqueue(y, t, max, first, exp)
      PROVE  Kept(outbox'[x])
  BY <1>3, <1>5 DEF Enqueue
<1>6. ASSUME NEW y \in Targets, outbox[y].state = "pending", NEW s \in Terminal,
             \/ Put(y, Closed(outbox[y], s))
             \/ Put(y, ClosedUnclaimed(outbox[y], s))
             \/ Put(y, DeadLettered(outbox[y]))
             \/ \E next \in Nat : Put(y, Requeued(outbox[y], next))
             \/ \E t \in Nat, next \in Nat : Put(y, FailedRow(outbox[y], t, next))
      PROVE  Kept(outbox'[x])
  BY <1>2, <1>3, <1>6
<1>7. CASE UNCHANGED outbox
  BY <1>7
<1> QED
  BY <1>0, <1>4, <1>5, <1>6, <1>7
  DEF Next, vars, Tick, ClaimNextDue, ClaimSpecific, MarkExpired, Cancel, ReleaseClaim,
      RescheduleClaim, RecordFailedAttempt, MarkSent, MarkExpiredClaimed, CancelClaimed,
      DeadLetterClaimed, Terminal, Fenced, Unclaimed

\* A cycle's copy of the expiry is the row's, and every retry respects it.
RetryInv ==
  /\ RetryWithinExpiry
  /\ \A w \in Workers : pc[w] \notin {"idle", "claim"} =>
       /\ outbox[entry[w].target].state # "absent"
       /\ outbox[entry[w].target].expiresAt = entry[w].expiresAt

\* A step that writes one row in bounds keeps every row in bounds.
LEMMA PutWithinExpiry ==
  ASSUME RetryWithinExpiry, outbox \in [Targets -> Row], NEW y \in Targets, NEW row,
         Put(y, row),
         row.state = "pending" /\ row.token = NoToken => row.nextAt <= row.expiresAt
  PROVE  RetryWithinExpiry'
  BY DEF RetryWithinExpiry, Put, Unclaimed

\* A row that is closed, or claimed, awaits no retry.
LEMMA ClosedAwaitsNothing ==
  ASSUME RetryWithinExpiry, outbox \in [Targets -> Row], NEW y \in Targets,
         \/ \E s \in Terminal : Put(y, Closed(outbox[y], s))
         \/ Put(y, DeadLettered(outbox[y]))
         \/ \E t, tok \in Nat : tok # NoToken /\ Put(y, Claimed(outbox[y], t, tok))
  PROVE  RetryWithinExpiry'
<1>1. outbox[y] \in Row
  OBVIOUS
<1>2. \A s \in Terminal : Closed(outbox[y], s).state = s
  BY <1>1 DEF Closed, Row
<1>3. DeadLettered(outbox[y]).state = "dead_letter"
  BY <1>1 DEF DeadLettered, Closed, Row
<1>4. \A t, tok \in Nat : Claimed(outbox[y], t, tok).token = tok
  BY <1>1 DEF Claimed, Row
<1> QED BY <1>2, <1>3, <1>4, PutWithinExpiry DEF Terminal

\* RetryInv is inductive beside WorkerInv.
LEMMA RetryStep ==
  ASSUME WorkerInv, RetryInv, [WorkerNext]_workerVars PROVE RetryInv'
<1> USE OutboxAssumption, WorkerAssumption
<1>0. /\ OutboxInv /\ CycleInv /\ [Next]_vars /\ RetryWithinExpiry
      /\ clock \in Times /\ clock \in Nat /\ issued \in Nat
      /\ outbox \in [Targets -> Row]
      /\ \A w \in Workers : now[w] \in Nat
  BY StepImplements DEF WorkerInv, CycleInv, RetryInv, OutboxInv, TypeOK, Times
<1>1. ASSUME NEW w \in Workers, pc[w] \notin {"idle", "claim"}
      PROVE  /\ entry[w].target \in Targets /\ entry[w].tok \in Nat \ {NoToken}
             /\ entry[w].expiresAt \in Times /\ entry[w].expiresAt \in Nat
             /\ outbox[entry[w].target].expiresAt = entry[w].expiresAt
  BY <1>0, <1>1 DEF CycleInv, RetryInv, Tokens, Times, NoToken
<1>2. ASSUME NEW a \in Nat, NEW b \in Nat PROVE Min2(a, b) \in Nat /\ Min2(a, b) <= b
  BY <1>2 DEF Min2
<1>3. RetryWithinExpiry'
  <2>1. CASE UNCHANGED outbox
    BY <1>0, <2>1 DEF RetryWithinExpiry, Unclaimed
  <2>2. ASSUME NEW w \in Workers, Claim(w) PROVE RetryWithinExpiry'
    <3>1. PICK x \in Targets : Put(x, Claimed(outbox[x], now[w], issued')) /\ issued' = issued + 1
      BY <2>2 DEF Claim, ClaimNextDue, TakeClaim
    <3>2. issued' \in Nat /\ issued' # NoToken
      BY <1>0, <3>1 DEF NoToken
    <3> QED BY <1>0, <3>1, <3>2, ClosedAwaitsNothing
  <2>3. ASSUME NEW w \in Workers, Defer(w) PROVE RetryWithinExpiry'
    <3>1. pc[w] = "defer" /\ RescheduleClaim(entry[w].target, now[w], entry[w].tok, RequeueAt(w))
      BY <2>3 DEF Defer
    <3>2. /\ Put(entry[w].target, Requeued(outbox[entry[w].target], RequeueAt(w)))
          /\ RequeueAt(w) <= outbox[entry[w].target].expiresAt
      BY <3>1 DEF RescheduleClaim
    <3>3. /\ outbox[entry[w].target] \in Row /\ entry[w].target \in Targets
      BY <1>0, <1>1, <3>1
    <3>4. LET row == Requeued(outbox[entry[w].target], RequeueAt(w)) IN
            row.nextAt = RequeueAt(w) /\ row.expiresAt = outbox[entry[w].target].expiresAt
      BY <3>3 DEF Requeued, Row
    <3> QED BY <1>0, <3>2, <3>3, <3>4, PutWithinExpiry
  <2>4. ASSUME NEW w \in Workers, RecordTemporaryFailure(w) PROVE RetryWithinExpiry'
    <3> DEFINE row == FailedRow(outbox[entry[w].target], now[w], RetryAt(w))
    <3>1. /\ pc[w] = "record" /\ verdict[w].outcome = "temporary"
          /\ Put(entry[w].target, row)
      BY <2>4 DEF RecordTemporaryFailure, Returned, FailedAttemptTx, RecordFailedAttempt
    <3>2. outbox[entry[w].target] \in Row /\ entry[w].target \in Targets
      BY <1>0, <1>1, <3>1
    <3>3. RetryAt(w) <= entry[w].expiresAt
      <4>1. AttemptNumber(entry[w]) \in Nat
        BY <1>0, <3>1 DEF CycleInv, AttemptNumber
      <4>2. verdict[w].retryAfter \in Nat \cup {NoHint}
        BY <1>0, <3>1 DEF CycleInv, Result, NoResult
      <4>3. now[w] + Delay(w) \in Nat
        BY <1>0, <4>1, <4>2, DelayIsPositive DEF Delay
      <4> QED BY <1>1, <1>2, <3>1, <4>3 DEF RetryAt
    <3>4. /\ row.expiresAt = outbox[entry[w].target].expiresAt
          /\ row.state = "pending" => row.nextAt = RetryAt(w)
      BY <3>2 DEF FailedRow, Row
    <3>5. outbox[entry[w].target].expiresAt = entry[w].expiresAt
      BY <1>1, <3>1
    <3> QED BY <1>0, <3>1, <3>2, <3>3, <3>4, <3>5, PutWithinExpiry
  <2>5. ASSUME NEW w \in Workers,
               \/ Expire(w) \/ RecordCanceled(w) \/ RecordSent(w)
               \/ RecordDeadLetter(w) \/ RecordUnauthorized(w)
        PROVE  RetryWithinExpiry'
    <3>1. entry[w].target \in Targets
      BY <1>1, <2>5
      DEF Expire, RecordCanceled, RecordSent, RecordDeadLetter, RecordUnauthorized, Returned
    <3> QED
      BY <1>0, <2>5, <3>1, ClosedAwaitsNothing
      DEF Expire, RecordCanceled, RecordSent, RecordDeadLetter, RecordUnauthorized,
          SentTx, CanceledTx, DeadLetterTx, UnauthorizedTx,
          MarkExpiredClaimed, CancelClaimed, MarkSent, DeadLetterClaimed, Terminal
  <2>6. ASSUME NEW x \in Targets, FanOut(x) PROVE RetryWithinExpiry'
    <3>1. PICK max \in AttemptLimits, exp \in Times : Enqueue(x, clock, max, clock, exp)
      BY <2>6 DEF FanOut
    <3>2. NewRow(max, clock, exp).nextAt <= NewRow(max, clock, exp).expiresAt
      BY <1>0, <3>1 DEF NewRow, Enqueue, Times
    <3>3. Unclaimed(x) => outbox[x].nextAt <= outbox[x].expiresAt
      BY <1>0 DEF RetryWithinExpiry
    <3> QED BY <1>0, <3>1, <3>2, <3>3, PutWithinExpiry DEF Enqueue, Unclaimed
  <2>7. ASSUME NEW w \in Workers, Proceed(w) \/ Abandon(w) PROVE RetryWithinExpiry'
    BY <2>1, <2>2, <2>3, <2>4, <2>5, <2>7
    DEF Proceed, Abandon, ReadClock, NothingDue, GetDevice, PlanAttempt, Send, Conflict,
        Decide, vars
  <2> QED
    BY <2>1, <2>6, <2>7
    DEF WorkerNext, RevokeDevice, ChangeStanding, TimePasses, Tick, vars, workerVars
<1>4. ASSUME NEW w \in Workers, pc'[w] \notin {"idle", "claim"}
      PROVE  /\ outbox'[entry'[w].target].state # "absent"
             /\ outbox'[entry'[w].target].expiresAt = entry'[w].expiresAt
  <2>1. CASE pc[w] \notin {"idle", "claim"} /\ entry'[w] = entry[w]
    BY <1>0, <1>1, <2>1, ExpiryFixed DEF RetryInv
  <2>2. CASE Claim(w)
    <3>1. PICK x \in Targets :
            /\ IsDue(outbox[x], now[w])
            /\ entry' = [entry EXCEPT ![w] =
                 [target |-> x, tok |-> issued', attempts |-> outbox[x].attempts,
                  maxAttempts |-> outbox[x].maxAttempts, expiresAt |-> outbox[x].expiresAt]]
      BY <2>2 DEF Claim, ClaimNextDue
    <3>2. entry'[w].target = x /\ entry'[w].expiresAt = outbox[x].expiresAt
      BY <1>0, <3>1 DEF CycleInv
    <3> QED BY <1>0, <3>1, <3>2, ExpiryFixed DEF IsDue
  <2>3. (pc[w] \notin {"idle", "claim"} /\ entry'[w] = entry[w]) \/ Claim(w)
    <3>0. DOMAIN pc = Workers /\ DOMAIN entry = Workers
      BY <1>0 DEF CycleInv
    <3>1. ASSUME NEW v \in Workers, v # w, Proceed(v) \/ Abandon(v)
          PROVE  pc'[w] = pc[w] /\ entry'[w] = entry[w]
      BY <3>0, <3>1
      DEF Proceed, Abandon, ReadClock, Claim, NothingDue, GetDevice, PlanAttempt, Decide, Send,
          Defer, Expire, RecordCanceled, RecordSent, RecordTemporaryFailure,
          RecordDeadLetter, RecordUnauthorized, Conflict, EndCycle, Goto
    <3>2. CASE EndCycle(w)
      BY <1>4, <3>0, <3>2 DEF EndCycle, Goto
    <3>3. CASE Proceed(w) \/ Abandon(w)
      BY <1>4, <3>0, <3>2, <3>3
      DEF Proceed, Abandon, ReadClock, NothingDue, GetDevice, PlanAttempt, Decide, Send,
          Defer, Expire, RecordCanceled, RecordSent, RecordTemporaryFailure,
          RecordDeadLetter, RecordUnauthorized, Conflict, Goto
    <3>4. CASE UNCHANGED <<pc, entry>>
      BY <1>4, <3>4
    <3> QED
      BY <1>4, <3>1, <3>3, <3>4
      DEF WorkerNext, FanOut, RevokeDevice, ChangeStanding, TimePasses, workerVars, cycleVars
  <2> QED BY <2>1, <2>2, <2>3
<1> QED BY <1>3, <1>4 DEF RetryInv

\* A retry or a deferral never lies beyond its row's expiry, for any provider
\* hints, schedule and lease.
THEOREM RetriesEndWithTheRow == WorkerSpec => []RetryWithinExpiry
<1>1. WorkerInit => RetryInv
  BY DEF WorkerInit, Init, RetryInv, RetryWithinExpiry, Unclaimed, NoRow
<1>2. WorkerInv /\ RetryInv /\ [WorkerNext]_workerVars => RetryInv'
  BY RetryStep
<1>3. RetryInv => RetryWithinExpiry
  BY DEF RetryInv
<1> QED BY <1>1, <1>2, <1>3, WorkerInvariant, PTL DEF WorkerSpec

-----------------------------------------------------------------------------
(* Revocation and staleness.                                               *)

\* Nobody but w and a crash of w moves w's cycle.
LEMMA OthersDoNotMove ==
  ASSUME CycleInv, [WorkerNext]_workerVars, NEW w \in Workers,
         ~ Proceed(w), ~ Abandon(w)
  PROVE  pc'[w] = pc[w] /\ entry'[w] = entry[w]
<1>0. DOMAIN pc = Workers /\ DOMAIN entry = Workers
  BY DEF CycleInv
<1>1. ASSUME NEW v \in Workers, v # w, Proceed(v) \/ Abandon(v)
      PROVE  pc'[w] = pc[w] /\ entry'[w] = entry[w]
  BY <1>0, <1>1
  DEF Proceed, Abandon, ReadClock, Claim, NothingDue, GetDevice, PlanAttempt, Decide, Send,
      Defer, Expire, RecordCanceled, RecordSent, RecordTemporaryFailure,
      RecordDeadLetter, RecordUnauthorized, Conflict, EndCycle, Goto
<1> QED
  BY <1>1
  DEF WorkerNext, FanOut, RevokeDevice, ChangeStanding, TimePasses, workerVars, cycleVars

\* A cycle that ends on a row that moved on under another token leaves the
\* row, the audit and the devices as they are.
THEOREM StaleWorkersAreInert == WorkerSpec => StaleWorkerIsInert
<1> DEFINE Ended(w) == /\ pc[w] # "idle" /\ pc'[w] = "idle"
                       /\ entry[w] # NoEntry
                       /\ outbox[entry[w].target].token # entry[w].tok
<1>1. ASSUME CycleInv, [WorkerNext]_workerVars, NEW w \in Workers, Ended(w)
      PROVE  UNCHANGED <<outbox, audit, retired>>
  <2>0. DOMAIN pc = Workers
    BY <1>1 DEF CycleInv
  <2>1. Proceed(w) \/ Abandon(w)
    BY <1>1, OthersDoNotMove
  <2>2. ~ Fenced(entry[w].target, entry[w].tok)
    BY <1>1 DEF Fenced
  <2>3. /\ ~ Defer(w) /\ ~ Expire(w) /\ ~ RecordCanceled(w) /\ ~ RecordSent(w)
        /\ ~ RecordTemporaryFailure(w) /\ ~ RecordDeadLetter(w) /\ ~ RecordUnauthorized(w)
    BY <2>2
    DEF Defer, RescheduleClaim, Expire, MarkExpiredClaimed, RecordCanceled, CanceledTx,
        CancelClaimed, RecordSent, SentTx, MarkSent, RecordTemporaryFailure, FailedAttemptTx,
        RecordFailedAttempt, RecordDeadLetter, DeadLetterTx, RecordUnauthorized,
        UnauthorizedTx, DeadLetterClaimed
  <2>4. ~ Claim(w)
    BY <1>1, <2>0 DEF Claim, Goto
  <2> QED
    BY <1>1, <2>1, <2>3, <2>4
    DEF Proceed, Abandon, ReadClock, NothingDue, GetDevice, PlanAttempt, Decide, Send,
        Conflict, vars, deviceVars, logVars
<1>2. WorkerInv /\ [WorkerNext]_workerVars =>
        [\A w \in Workers : Ended(w) => UNCHANGED <<outbox, audit, retired>>]_workerVars
  BY <1>1 DEF WorkerInv
<1> QED BY <1>2, WorkerInvariant, PTL DEF WorkerSpec, StaleWorkerIsInert

\* A push was made under a claim taken before the device's revocation, and so
\* will be the one a cycle is about to make.
RevokedInv ==
  /\ RevokedIsNotPushed
  /\ \A p \in pushes : p.target \in Targets /\ p.tok \in Tokens
  /\ retired \in [Devices -> {Active} \cup (0 .. issued)]
  /\ \A w \in Workers, d \in Devices :
       pc[w] = "send" /\ DeviceOf[entry[w].target] = d /\ ~ IsActive(d) =>
         entry[w].tok <= retired[d]

\* RevokedInv is inductive beside WorkerInv.
LEMMA RevokedStep ==
  ASSUME WorkerInv, RevokedInv, [WorkerNext]_workerVars PROVE RevokedInv'
<1> USE WorkerAssumption
<1>0. /\ CycleInv /\ DOMAIN pc = Workers /\ DOMAIN entry = Workers
      /\ issued \in Nat /\ issued' \in Nat /\ issued <= issued'
      /\ retired \in [Devices -> {Active} \cup (0 .. issued)]
  BY StepImplements, OutboxFrame DEF WorkerInv, CycleInv, RevokedInv
<1>1. Tokens \subseteq Tokens' /\ Tokens \subseteq 1 .. issued
  BY <1>0 DEF Tokens
<1>2. \A w \in Workers : pc[w] \notin {"idle", "claim"} =>
        entry[w].target \in Targets /\ entry[w].tok \in 1 .. issued /\ entry[w].tok \in Tokens
  BY <1>0, <1>1 DEF CycleInv
<1> DEFINE OnlyRevoked == \A d \in Devices :
             \/ retired'[d] = retired[d]
             \/ retired[d] = Active /\ retired'[d] = issued /\ issued' = issued
<1>3. /\ retired' \in [Devices -> {Active} \cup (0 .. issued')]
      /\ OnlyRevoked
  <2>1. CASE UNCHANGED retired
    BY <1>0, <2>1
  <2>2. ASSUME NEW d \in Devices, Revoke(d), issued' = issued PROVE <1>3
    BY <1>0, <2>2 DEF Revoke, Active
  <2>3. ASSUME NEW w \in Workers, RecordUnauthorized(w) PROVE <1>3
    <3>1. DeviceOf[entry[w].target] \in Devices
      BY <1>2, <2>3 DEF RecordUnauthorized, Returned
    <3> QED BY <2>2, <2>3, <3>1
            DEF RecordUnauthorized, UnauthorizedTx, DeadLetterClaimed
  <2>4. ASSUME NEW w \in Workers, Proceed(w) \/ Abandon(w) PROVE <1>3
    BY <2>1, <2>3, <2>4
    DEF Proceed, Abandon, ReadClock, Claim, NothingDue, GetDevice, PlanAttempt, Decide, Send,
        Defer, Expire, RecordCanceled, CanceledTx, RecordSent, SentTx,
        RecordTemporaryFailure, FailedAttemptTx, RecordDeadLetter, DeadLetterTx, Conflict,
        deviceVars
  <2>5. ASSUME NEW d \in Devices, RevokeDevice(d) PROVE <1>3
    BY <2>2, <2>5 DEF RevokeDevice, vars
  <2> QED
    BY <2>1, <2>4, <2>5
    DEF WorkerNext, FanOut, ChangeStanding, TimePasses, deviceVars, workerVars
<1>4. ASSUME NEW d \in Devices, NEW tok \in 1 .. issued,
             ~ IsActive(d) => tok <= retired[d]
      PROVE  ~ IsActive(d)' => tok <= retired'[d]
  BY <1>0, <1>3, <1>4 DEF IsActive, Active
<1>5. \/ UNCHANGED pushes
      \/ \E w \in Workers, result \in Results :
           /\ pc[w] = "send"
           /\ pushes' = pushes \cup {[target |-> entry[w].target, tok |-> entry[w].tok,
                                      outcome |-> result.outcome]}
  BY DEF WorkerNext, Proceed, Abandon, ReadClock, Claim, NothingDue, GetDevice, PlanAttempt,
         Decide, Send, Defer, Expire, RecordCanceled, RecordSent, RecordTemporaryFailure,
         RecordDeadLetter, RecordUnauthorized, Conflict, FanOut, RevokeDevice,
         ChangeStanding, TimePasses, logVars, workerVars
<1>6. \A p \in pushes' :
        /\ p.target \in Targets /\ p.tok \in Tokens
        /\ ~ IsActive(DeviceOf[p.target]) => p.tok <= retired[DeviceOf[p.target]]
  BY <1>2, <1>5 DEF RevokedInv, RevokedIsNotPushed
<1>7. RevokedIsNotPushed'
  BY <1>1, <1>4, <1>6 DEF RevokedIsNotPushed
<1>8. ASSUME NEW w \in Workers, NEW d \in Devices,
             pc'[w] = "send", DeviceOf[entry'[w].target] = d, ~ IsActive(d)'
      PROVE  entry'[w].tok <= retired'[d]
  <2>1. CASE PlanAttempt(w)
    <3>1. /\ pc[w] = "plan" /\ UNCHANGED <<entry, retired>>
          /\ Plannable(entry[w], now[w])
          /\ Planned(DeviceOf[entry[w].target]) = "send"
      BY <1>0, <1>8, <2>1 DEF PlanAttempt, Decide, Goto, deviceVars
    <3>2. IsActive(d)
      BY <1>8, <3>1 DEF Planned
    <3> QED BY <1>8, <3>1, <3>2 DEF IsActive
  <2>2. CASE pc[w] = "send" /\ entry'[w] = entry[w]
    BY <1>2, <1>4, <1>8, <2>2 DEF RevokedInv
  <2>3. CASE Proceed(w) \/ Abandon(w)
    BY <1>0, <1>8, <2>1, <2>3
    DEF Proceed, Abandon, ReadClock, Claim, NothingDue, GetDevice, Decide, Send, Defer,
        Expire, RecordCanceled, RecordSent, RecordTemporaryFailure, RecordDeadLetter,
        RecordUnauthorized, Conflict, EndCycle, Goto
  <2> QED BY <1>0, <1>8, <2>2, <2>3, OthersDoNotMove
<1> QED BY <1>1, <1>3, <1>6, <1>7, <1>8 DEF RevokedInv

\* No claim taken after a device's revocation reaches the provider.
THEOREM RevocationStopsPushes == WorkerSpec => []RevokedIsNotPushed
<1>1. WorkerInit => RevokedInv
  BY DEF WorkerInit, Init, RevokedInv, RevokedIsNotPushed, IsActive, Active
<1>2. WorkerInv /\ RevokedInv /\ [WorkerNext]_workerVars => RevokedInv'
  BY RevokedStep
<1>3. RevokedInv => RevokedIsNotPushed
  BY DEF RevokedInv
<1> QED BY <1>1, <1>2, <1>3, WorkerInvariant, PTL DEF WorkerSpec

-----------------------------------------------------------------------------
(* The log.  A step of the system is a turn of at most one row; what a     *)
(* turn does to row and log together is said once, and both the agreement  *)
(* of the two and the promise of DeliveryLedger follow from it.            *)

\* The claims of x under which the provider was called.
Told(x) == {p.tok : p \in {q \in pushes : q.target = x}}

\* The provider was called under the claim that holds x, and said so.
Heard(x, outcomes) ==
  \E p \in pushes : p.target = x /\ p.tok = outbox[x].token /\ p.outcome \in outcomes

Logged(x, outcome) ==
  audit'[x] = Append(audit[x], [number |-> outbox[x].attempts + 1, outcome |-> outcome])

\* A row as it was, but for its claim and its next attempt.
Rests(x) ==
  /\ outbox'[x].state = outbox[x].state
  /\ outbox'[x].attempts = outbox[x].attempts
  /\ outbox'[x].token \in {outbox[x].token, NoToken, issued + 1}
  /\ audit'[x] = audit[x]

Opens(x) ==
  /\ outbox[x].state = "absent"
  /\ outbox'[x].state = "pending"
  /\ outbox'[x].attempts = 0 /\ outbox'[x].token = NoToken
  /\ audit'[x] = audit[x]

Lapses(x) ==
  /\ outbox'[x].state = "expired"
  /\ outbox'[x].attempts = outbox[x].attempts
  /\ audit'[x] = audit[x]

Fails(x) ==
  /\ outbox'[x].state \in {"pending", "expired", "dead_letter"}
  /\ outbox'[x].state = "pending" => outbox[x].attempts + 1 < outbox[x].maxAttempts
  /\ outbox'[x].attempts = outbox[x].attempts + 1
  /\ Logged(x, OutcomeForState(outbox'[x].state))
  /\ Heard(x, Outcome)

Settles(x) ==
  /\ outbox'[x].state \in {"sent", "canceled"}
  /\ outbox'[x].attempts = outbox[x].attempts
  /\ Logged(x, outbox'[x].state)
  /\ outbox'[x].state = "sent" => Heard(x, {"accepted"})

Dies(x) ==
  /\ outbox'[x].state = "dead_letter"
  /\ outbox'[x].attempts = outbox[x].attempts + 1
  /\ Heard(x, Outcome)
  /\ \/ Logged(x, "dead_letter")
     \/ Logged(x, "unauthorized") /\ retired'[DeviceOf[x]] # Active

\* What becomes of a pending row once its claim is answered.
Answered(x) ==
  /\ outbox[x].state = "pending"
  /\ outbox'[x].token = NoToken
  /\ Lapses(x) \/ Fails(x) \/ Settles(x) \/ Dies(x)

Turn(x) ==
  /\ \/ outbox'[x].maxAttempts = outbox[x].maxAttempts /\ (Rests(x) \/ Answered(x))
     \/ outbox'[x].maxAttempts \in AttemptLimits /\ Opens(x)
  /\ \A y \in Targets \ {x} : outbox'[y] = outbox[y] /\ audit'[y] = audit[y]
  /\ audit' \in [Targets -> Seq(Delivery)]

\* A cycle whose claim still holds its row knows the attempts made, and its
\* verdict is one the provider gave under that claim.
CopyInv ==
  \A w \in Workers : pc[w] \notin {"idle", "claim"} =>
    /\ outbox[entry[w].target].token = entry[w].tok =>
         outbox[entry[w].target].attempts = entry[w].attempts
    /\ pc[w] = "record" =>
         [target |-> entry[w].target, tok |-> entry[w].tok,
          outcome |-> verdict[w].outcome] \in pushes

\* The SET clauses, as a turn tells them apart.
LEMMA SetClauses ==
  /\ \A r \in Row : \A t, tok \in Nat :
       /\ Claimed(r, t, tok).state = r.state /\ Claimed(r, t, tok).token = tok
       /\ Claimed(r, t, tok).attempts = r.attempts
       /\ Claimed(r, t, tok).maxAttempts = r.maxAttempts
  /\ \A r \in Row : \A next \in Nat :
       /\ Requeued(r, next).state = r.state /\ Requeued(r, next).token = NoToken
       /\ Requeued(r, next).attempts = r.attempts
       /\ Requeued(r, next).maxAttempts = r.maxAttempts
  /\ \A r \in Row : \A s \in Terminal :
       /\ Closed(r, s).state = s /\ Closed(r, s).token = NoToken
       /\ Closed(r, s).attempts = r.attempts
       /\ Closed(r, s).maxAttempts = r.maxAttempts
  /\ \A r \in Row :
       /\ DeadLettered(r).state = "dead_letter" /\ DeadLettered(r).token = NoToken
       /\ DeadLettered(r).attempts = r.attempts + 1
       /\ DeadLettered(r).maxAttempts = r.maxAttempts
  /\ \A r \in Row : \A t, next \in Nat :
       LET failed == FailedRow(r, t, next) IN
       /\ failed.state \in {"pending", "expired", "dead_letter"}
       /\ failed.state = "pending" => r.attempts + 1 < r.maxAttempts
       /\ failed.attempts = r.attempts + 1 /\ failed.token = NoToken
       /\ failed.maxAttempts = r.maxAttempts
<1>1. \A r \in Row : \A t, tok, next \in Nat : \A s \in Terminal :
        /\ Claimed(r, t, tok).state = r.state /\ Claimed(r, t, tok).token = tok
        /\ Claimed(r, t, tok).attempts = r.attempts
        /\ Claimed(r, t, tok).maxAttempts = r.maxAttempts
        /\ Requeued(r, next).state = r.state /\ Requeued(r, next).token = NoToken
        /\ Requeued(r, next).attempts = r.attempts
        /\ Requeued(r, next).maxAttempts = r.maxAttempts
        /\ Closed(r, s).state = s /\ Closed(r, s).token = NoToken
        /\ Closed(r, s).attempts = r.attempts
        /\ Closed(r, s).maxAttempts = r.maxAttempts
  BY DEF Row, Claimed, Requeued, Closed
<1>2. \A r \in Row :
        /\ DeadLettered(r).state = "dead_letter" /\ DeadLettered(r).token = NoToken
        /\ DeadLettered(r).attempts = r.attempts + 1
        /\ DeadLettered(r).maxAttempts = r.maxAttempts
  BY DEF Row, Closed, DeadLettered
<1>3. \A r \in Row : \A t, next \in Nat :
        /\ FailedRow(r, t, next).state = FailedState(r, t)
        /\ FailedRow(r, t, next).attempts = r.attempts + 1
        /\ FailedRow(r, t, next).token = NoToken
        /\ FailedRow(r, t, next).maxAttempts = r.maxAttempts
  BY DEF Row, FailedRow
<1>4. \A r \in Row : \A t \in Nat :
        /\ FailedState(r, t) \in {"pending", "expired", "dead_letter"}
        /\ FailedState(r, t) = "pending" => r.attempts + 1 < r.maxAttempts
  BY DEF Row, FailedState
<1>5. "sent" \in Terminal /\ 0 \in Nat
  BY DEF Terminal
<1> QED BY <1>1, <1>2, <1>3, <1>4, <1>5

\* Every step is a turn of one row, or leaves rows and log alone.
LEMMA StepTurns ==
  ASSUME WorkerInv, CopyInv, [WorkerNext]_workerVars,
         audit \in [Targets -> Seq(Delivery)],
         retired \in [Devices -> {Active} \cup (0 .. issued)]
  PROVE  UNCHANGED <<outbox, audit>> \/ \E x \in Targets : Turn(x)
<1> USE WorkerAssumption
<1>0. /\ OutboxInv /\ CycleInv /\ outbox \in [Targets -> Row] /\ issued \in Nat /\ clock \in Nat
      /\ \A w \in Workers : now[w] \in Nat
      /\ Times \subseteq Nat /\ {"expired", "sent", "canceled"} \subseteq Terminal
  BY OutboxAssumption DEF WorkerInv, OutboxInv, TypeOK, CycleInv, Times, Terminal
<1>1. ASSUME NEW w \in Workers, pc[w] \notin {"idle", "claim"}
      PROVE  /\ entry[w].target \in Targets /\ entry[w].tok \in Nat
             /\ outbox[entry[w].target] \in Row
             /\ entry[w].expiresAt \in Nat /\ entry[w].attempts \in Nat
  <2>1. /\ entry[w].target \in Targets /\ entry[w].tok \in Tokens
        /\ entry[w].expiresAt \in Times /\ entry[w].attempts \in Nat
    BY <1>0, <1>1 DEF CycleInv
  <2>2. Tokens \subseteq Nat
    BY <1>0 DEF Tokens
  <2> QED BY <1>0, <2>1, <2>2
<1>2. ASSUME NEW x \in Targets, NEW row, Put(x, row)
      PROVE  outbox'[x] = row /\ \A y \in Targets \ {x} : outbox'[y] = outbox[y]
  BY <1>0, <1>2 DEF Put
<1>3. ASSUME NEW w \in Workers, NEW outcome \in Outcomes, Audit(entry[w], outcome),
             pc[w] \notin {"idle", "claim"},
             Fenced(entry[w].target, entry[w].tok)
      PROVE  /\ Logged(entry[w].target, outcome)
             /\ \A y \in Targets \ {entry[w].target} : audit'[y] = audit[y]
             /\ pc[w] = "record" => Heard(entry[w].target, {verdict[w].outcome})
             /\ audit' \in [Targets -> Seq(Delivery)]
  <2>3. audit' \in [Targets -> Seq(Delivery)]
    <3>1. AttemptNumber(entry[w]) \in Nat
      BY <1>1, <1>3 DEF AttemptNumber
    <3>2. [number |-> AttemptNumber(entry[w]), outcome |-> outcome] \in Delivery
      BY <3>1 DEF Delivery
    <3>3. Append(audit[entry[w].target], [number |-> AttemptNumber(entry[w]), outcome |-> outcome])
            \in Seq(Delivery)
      BY <1>1, <1>3, <3>2
    <3> QED BY <1>3, <3>3 DEF Audit
  <2>1. outbox[entry[w].target].attempts = entry[w].attempts
    BY <1>3 DEF CopyInv, Fenced
  <2>2. pc[w] = "record" => Heard(entry[w].target, {verdict[w].outcome})
    <3> SUFFICES ASSUME pc[w] = "record" PROVE Heard(entry[w].target, {verdict[w].outcome})
      OBVIOUS
    <3> DEFINE p == [target |-> entry[w].target, tok |-> entry[w].tok,
                     outcome |-> verdict[w].outcome]
    <3>1. p \in pushes
      BY <1>3 DEF CopyInv
    <3>2. p.target = entry[w].target /\ p.tok = entry[w].tok /\ p.outcome = verdict[w].outcome
      OBVIOUS
    <3> HIDE DEF p
    <3> QED BY <1>3, <3>1, <3>2 DEF Heard, Fenced
  <2> QED BY <1>1, <1>3, <2>1, <2>2, <2>3 DEF Audit, Logged, AttemptNumber
<1>4. ASSUME NEW w \in Workers, Claim(w) PROVE \E x \in Targets : Turn(x)
  <2>1. PICK x \in Targets : /\ Put(x, Claimed(outbox[x], now[w], issued'))
                             /\ issued' = issued + 1
    BY <1>4 DEF Claim, ClaimNextDue, TakeClaim
  <2>2. audit' = audit
    BY <1>4 DEF Claim, logVars
  <2>3. outbox[x] \in Row /\ issued' \in Nat /\ now[w] \in Nat
    BY <1>0, <2>1
  <2>4. Rests(x) /\ outbox'[x].maxAttempts = outbox[x].maxAttempts
    BY <1>2, <2>1, <2>2, <2>3, SetClauses DEF Rests
  <2> QED BY <1>2, <2>1, <2>2, <2>4 DEF Turn
<1>5. ASSUME NEW w \in Workers, Defer(w) PROVE \E x \in Targets : Turn(x)
  <2> DEFINE x == entry[w].target
  <2>1. /\ pc[w] = "defer" /\ audit' = audit
        /\ Put(x, Requeued(outbox[x], RequeueAt(w)))
    BY <1>5 DEF Defer, RescheduleClaim, logVars
  <2>2. /\ x \in Targets /\ outbox[x] \in Row
        /\ RequeueAt(w) \in Nat
    BY <1>0, <1>1, <2>1 DEF RequeueAt, Min2
  <2>3. /\ outbox'[x] = Requeued(outbox[x], RequeueAt(w))
        /\ \A y \in Targets \ {x} : outbox'[y] = outbox[y]
    BY <1>2, <2>1, <2>2
  <2>4. Rests(x) /\ outbox'[x].maxAttempts = outbox[x].maxAttempts
    BY <2>1, <2>2, <2>3, SetClauses DEF Rests
  <2> QED BY <2>1, <2>2, <2>3, <2>4 DEF Turn
<1>6. ASSUME NEW w \in Workers, Expire(w) PROVE \E x \in Targets : Turn(x)
  <2> DEFINE x == entry[w].target
  <2>1. /\ pc[w] \in {"expire", "defer"} /\ audit' = audit
        /\ outbox[x].state = "pending"
        /\ Put(x, Closed(outbox[x], "expired"))
    BY <1>6 DEF Expire, MarkExpiredClaimed, logVars, Fenced
  <2>2. x \in Targets /\ outbox[x] \in Row
    BY <1>1, <2>1
  <2>3. /\ outbox'[x] = Closed(outbox[x], "expired")
        /\ \A y \in Targets \ {x} : outbox'[y] = outbox[y]
    BY <1>2, <2>1, <2>2
  <2>4. Answered(x) /\ outbox'[x].maxAttempts = outbox[x].maxAttempts
    BY <1>0, <2>1, <2>2, <2>3, SetClauses DEF Answered, Lapses
  <2> QED BY <2>1, <2>2, <2>3, <2>4 DEF Turn
<1>7. ASSUME NEW w \in Workers, RecordCanceled(w) \/ RecordSent(w)
      PROVE  \E x \in Targets : Turn(x)
  <2> DEFINE x == entry[w].target
  <2>1. PICK s \in {"sent", "canceled"} :
          /\ Fenced(x, entry[w].tok)
          /\ Put(x, Closed(outbox[x], s))
          /\ Audit(entry[w], s)
          /\ pc[w] \in {"cancel", "record"}
          /\ s = "sent" => pc[w] = "record" /\ verdict[w].outcome = "accepted"
    BY <1>7
    DEF RecordCanceled, RecordSent, Returned, CanceledTx, SentTx, CancelClaimed, MarkSent
  <2>2. x \in Targets /\ outbox[x] \in Row /\ outbox[x].state = "pending"
    BY <1>1, <2>1 DEF Fenced
  <2>3. /\ outbox'[x] = Closed(outbox[x], s)
        /\ \A y \in Targets \ {x} : outbox'[y] = outbox[y]
    BY <1>2, <2>1, <2>2
  <2>4. /\ Logged(x, s) /\ \A y \in Targets \ {x} : audit'[y] = audit[y]
        /\ s = "sent" => Heard(x, {"accepted"})
        /\ audit' \in [Targets -> Seq(Delivery)]
    BY <1>3, <2>1 DEF Outcomes
  <2>5. /\ outbox'[x].state = s /\ outbox'[x].attempts = outbox[x].attempts
        /\ outbox'[x].token = NoToken
        /\ outbox'[x].maxAttempts = outbox[x].maxAttempts
    BY <1>0, <2>2, <2>3, SetClauses
  <2>6. Settles(x)
    BY <2>4, <2>5 DEF Settles
  <2> QED BY <2>2, <2>3, <2>4, <2>5, <2>6 DEF Turn, Answered
<1>8. ASSUME NEW w \in Workers, RecordTemporaryFailure(w)
      PROVE  \E x \in Targets : Turn(x)
  <2> DEFINE x == entry[w].target
             row == FailedRow(outbox[x], now[w], RetryAt(w))
  <2>1. /\ pc[w] = "record" /\ verdict[w].outcome = "temporary"
        /\ Fenced(x, entry[w].tok) /\ Put(x, row)
        /\ Audit(entry[w], OutcomeForState(outbox'[x].state))
    BY <1>8 DEF RecordTemporaryFailure, Returned, FailedAttemptTx, RecordFailedAttempt
  <2>2. RetryAt(w) \in Nat
    <3>1. AttemptNumber(entry[w]) \in Nat
      BY <1>1, <2>1 DEF AttemptNumber
    <3>2. verdict[w].retryAfter \in Nat \cup {NoHint}
      BY <1>0, <2>1 DEF CycleInv, Result, NoResult
    <3>3. now[w] + Delay(w) \in Nat
      <4>1. Delay(w) \in Nat
        BY <3>1, <3>2, DelayIsPositive DEF Delay
      <4> QED BY <1>0, <4>1
    <3> QED BY <1>1, <2>1, <3>3 DEF RetryAt, Min2
  <2>3. outbox'[x] = row /\ \A y \in Targets \ {x} : outbox'[y] = outbox[y]
    BY <1>1, <1>2, <2>1
  <2>4. /\ row.state \in {"pending", "expired", "dead_letter"}
        /\ row.state = "pending" => outbox[x].attempts + 1 < outbox[x].maxAttempts
        /\ row.attempts = outbox[x].attempts + 1
        /\ row.token = NoToken /\ row.maxAttempts = outbox[x].maxAttempts
    <3>1. outbox[x] \in Row /\ now[w] \in Nat
      BY <1>0, <1>1, <2>1
    <3> QED BY <2>2, <3>1, SetClauses
  <2>5. /\ Heard(x, Outcome)
        /\ Logged(x, OutcomeForState(outbox'[x].state))
        /\ \A y \in Targets \ {x} : audit'[y] = audit[y]
        /\ audit' \in [Targets -> Seq(Delivery)]
    <3>1. OutcomeForState(outbox'[x].state) \in Outcomes
      BY <2>3, <2>4 DEF OutcomeForState, Outcomes
    <3> QED BY <1>3, <2>1, <3>1 DEF Heard, Outcome
  <2>6. Fails(x)
    BY <2>3, <2>4, <2>5 DEF Fails
  <2>7. x \in Targets /\ outbox[x].state = "pending"
    BY <1>1, <2>1 DEF Fenced
  <2> QED BY <2>3, <2>4, <2>5, <2>6, <2>7 DEF Turn, Answered
<1>9. ASSUME NEW w \in Workers, RecordDeadLetter(w) \/ RecordUnauthorized(w)
      PROVE  \E x \in Targets : Turn(x)
  <2> DEFINE x == entry[w].target
  <2>1. /\ pc[w] = "record" /\ verdict[w].outcome \in {"permanent", "unauthorized"}
        /\ Fenced(x, entry[w].tok) /\ Put(x, DeadLettered(outbox[x]))
        /\ \/ Audit(entry[w], "dead_letter")
           \/ Audit(entry[w], "unauthorized") /\ Revoke(DeviceOf[x])
    BY <1>9
    DEF RecordDeadLetter, RecordUnauthorized, Returned, DeadLetterTx, UnauthorizedTx,
        DeadLetterClaimed
  <2>2. x \in Targets /\ outbox[x] \in Row /\ outbox[x].state = "pending"
    BY <1>1, <2>1 DEF Fenced
  <2>3. Revoke(DeviceOf[x]) => retired'[DeviceOf[x]] # Active
    <3>1. DeviceOf[x] \in Devices
      BY <2>2
    <3>2. issued # Active
      BY <1>0 DEF Active
    <3> QED BY <3>1, <3>2 DEF Revoke
  <2>4. /\ outbox'[x] = DeadLettered(outbox[x])
        /\ \A y \in Targets \ {x} : outbox'[y] = outbox[y]
    BY <1>2, <2>1, <2>2
  <2>5. /\ Heard(x, Outcome)
        /\ \A y \in Targets \ {x} : audit'[y] = audit[y]
        /\ audit' \in [Targets -> Seq(Delivery)]
        /\ \/ Logged(x, "dead_letter")
           \/ Logged(x, "unauthorized") /\ retired'[DeviceOf[x]] # Active
    <3>1. /\ Heard(x, {verdict[w].outcome})
          /\ \A y \in Targets \ {x} : audit'[y] = audit[y]
          /\ audit' \in [Targets -> Seq(Delivery)]
          /\ \/ Logged(x, "dead_letter")
             \/ Logged(x, "unauthorized") /\ Revoke(DeviceOf[x])
      BY <1>3, <2>1 DEF Outcomes
    <3>2. Heard(x, Outcome)
      BY <2>1, <3>1 DEF Heard, Outcome
    <3> QED BY <2>3, <3>1, <3>2
  <2>6. /\ outbox'[x].state = "dead_letter" /\ outbox'[x].token = NoToken
        /\ outbox'[x].attempts = outbox[x].attempts + 1
        /\ outbox'[x].maxAttempts = outbox[x].maxAttempts
    BY <2>2, <2>4, SetClauses
  <2>7. Dies(x)
    BY <2>5, <2>6 DEF Dies
  <2> QED BY <2>2, <2>4, <2>5, <2>6, <2>7 DEF Turn, Answered
<1>10. ASSUME NEW w \in Workers, Proceed(w) \/ Abandon(w)
       PROVE  UNCHANGED <<outbox, audit>> \/ \E x \in Targets : Turn(x)
  BY <1>4, <1>5, <1>6, <1>7, <1>8, <1>9, <1>10
  DEF Proceed, Abandon, ReadClock, NothingDue, GetDevice, PlanAttempt, Decide, Send,
      Conflict, vars, logVars
<1>11. ASSUME NEW x \in Targets, FanOut(x)
       PROVE  UNCHANGED <<outbox, audit>> \/ Turn(x)
  <2>1. PICK max \in AttemptLimits, exp \in Times :
          Put(x, IF outbox[x].state = "absent" THEN NewRow(max, clock, exp) ELSE outbox[x])
    BY <1>11 DEF FanOut, Enqueue
  <2>2. audit' = audit
    BY <1>11 DEF FanOut, logVars
  <2>3. CASE outbox[x].state = "absent"
    <3>1. outbox'[x] = NewRow(max, clock, exp)
      BY <1>2, <2>1, <2>3
    <3> QED BY <1>2, <2>1, <2>2, <2>3, <3>1 DEF Turn, Opens, NewRow
  <2>4. CASE outbox[x].state # "absent"
    BY <1>0, <2>1, <2>2, <2>4 DEF Put
  <2> QED BY <2>3, <2>4
<1> QED
  BY <1>10, <1>11
  DEF WorkerNext, RevokeDevice, ChangeStanding, TimePasses, Tick, vars, logVars, workerVars

-----------------------------------------------------------------------------
\* The provider's calls are never forgotten.
LEMMA PushesStay ==
  ASSUME [WorkerNext]_workerVars PROVE pushes \subseteq pushes'
BY DEF WorkerNext, Proceed, Abandon, ReadClock, Claim, NothingDue, GetDevice, PlanAttempt,
       Decide, Send, Defer, Expire, RecordCanceled, RecordSent, RecordTemporaryFailure,
       RecordDeadLetter, RecordUnauthorized, Conflict, FanOut, RevokeDevice,
       ChangeStanding, TimePasses, logVars, workerVars

\* CopyInv is inductive: a row whose claim is the cycle's own has rested.
LEMMA CopyStep ==
  ASSUME WorkerInv, CopyInv, [WorkerNext]_workerVars,
         audit \in [Targets -> Seq(Delivery)],
         retired \in [Devices -> {Active} \cup (0 .. issued)],
         standing \in [Devices -> Standings]
  PROVE  CopyInv'
<1>0. /\ CycleInv /\ DOMAIN pc = Workers /\ DOMAIN entry = Workers
      /\ outbox \in [Targets -> Row] /\ issued \in Nat
  BY DEF WorkerInv, CycleInv
<1>1. SUFFICES ASSUME NEW w \in Workers, pc'[w] \notin {"idle", "claim"}
               PROVE  /\ outbox'[entry'[w].target].token = entry'[w].tok =>
                           outbox'[entry'[w].target].attempts = entry'[w].attempts
                      /\ pc'[w] = "record" =>
                           [target |-> entry'[w].target, tok |-> entry'[w].tok,
                            outcome |-> verdict'[w].outcome] \in pushes'
  BY DEF CopyInv
<1>2. CASE Claim(w)
  <2>1. PICK x \in Targets :
          /\ Put(x, Claimed(outbox[x], now[w], issued'))
          /\ entry' = [entry EXCEPT ![w] =
               [target |-> x, tok |-> issued', attempts |-> outbox[x].attempts,
                maxAttempts |-> outbox[x].maxAttempts, expiresAt |-> outbox[x].expiresAt]]
    BY <1>2 DEF Claim, ClaimNextDue, TakeClaim
  <2>2. entry'[w].target = x /\ entry'[w].attempts = outbox[x].attempts
    BY <1>0, <2>1
  <2>3. outbox'[x].attempts = outbox[x].attempts
    <3>1. outbox'[x] = Claimed(outbox[x], now[w], issued') /\ outbox[x] \in Row
      BY <1>0, <2>1 DEF Put
    <3> QED BY <3>1 DEF Claimed, Row
  <2>4. pc'[w] = "device"
    BY <1>0, <1>2 DEF Claim, Goto
  <2> QED BY <2>2, <2>3, <2>4
<1>3. CASE pc[w] \notin {"idle", "claim"} /\ entry'[w] = entry[w]
  <2> DEFINE e == entry[w]
  <2>1. /\ e.target \in Targets /\ e.tok \in 1 .. issued
        /\ outbox[e.target].token = e.tok => outbox[e.target].attempts = e.attempts
    BY <1>0, <1>3 DEF CycleInv, CopyInv, Tokens
  <2>2. outbox'[e.target].token = e.tok => outbox'[e.target].attempts = e.attempts
    <3>1. CASE UNCHANGED outbox
      BY <2>1, <3>1
    <3>2. ASSUME NEW x \in Targets, Turn(x) PROVE <2>2
      <4>1. e.tok # NoToken /\ e.tok # issued + 1
        BY <1>0, <2>1 DEF NoToken
      <4>2. outbox'[e.target].token = e.tok =>
              /\ outbox[e.target].token = e.tok
              /\ outbox'[e.target].attempts = outbox[e.target].attempts
        BY <2>1, <3>2, <4>1 DEF Turn, Rests, Answered, Opens
      <4> QED BY <2>1, <4>2
    <3> QED BY <3>1, <3>2, StepTurns
  <2>3. pc'[w] = "record" =>
          [target |-> e.target, tok |-> e.tok, outcome |-> verdict'[w].outcome] \in pushes'
    <3>1. CASE Send(w)
      <4>1. PICK result \in Results :
              /\ verdict' = [verdict EXCEPT ![w] = result]
              /\ pushes' = pushes \cup {[target |-> e.target, tok |-> e.tok,
                                         outcome |-> result.outcome]}
        BY <3>1 DEF Send
      <4>2. verdict'[w] = result
        BY <1>0, <4>1 DEF CycleInv
      <4> QED BY <4>1, <4>2
    <3>2. CASE pc[w] = "record" /\ verdict'[w] = verdict[w]
      BY <1>3, <3>2, PushesStay DEF CopyInv
    <3>3. ASSUME NEW v \in Workers, v # w, Proceed(v) \/ Abandon(v)
          PROVE  pc'[w] = pc[w] /\ verdict'[w] = verdict[w]
      BY <1>0, <3>3
      DEF Proceed, Abandon, ReadClock, Claim, NothingDue, GetDevice, PlanAttempt, Decide, Send,
          Defer, Expire, RecordCanceled, RecordSent, RecordTemporaryFailure,
          RecordDeadLetter, RecordUnauthorized, Conflict, EndCycle, Goto, CycleInv
    <3>4. ASSUME Proceed(w) \/ Abandon(w), ~ Send(w), pc'[w] = "record"
          PROVE  pc[w] = "record" /\ verdict'[w] = verdict[w]
      <4>1. ~ EndCycle(w)
        BY <1>0, <3>4 DEF EndCycle, Goto
      <4>2. Planned(DeviceOf[e.target]) # "record"
        <5>1. standing[DeviceOf[e.target]] \in Standings
          BY <2>1, WorkerAssumption
        <5> QED BY <5>1 DEF Planned, Standings
      <4>3. ~ PlanAttempt(w)
        BY <1>0, <3>4, <4>2 DEF PlanAttempt, Decide, Goto
      <4> QED
        BY <1>0, <3>4, <4>1, <4>3
        DEF Proceed, Abandon, ReadClock, Claim, NothingDue, GetDevice,
            Decide, Defer, Expire, RecordCanceled, RecordSent, RecordTemporaryFailure,
            RecordDeadLetter, RecordUnauthorized, Conflict, Goto
    <3>5. CASE UNCHANGED <<pc, verdict>>
      BY <3>2, <3>5
    <3> QED
      BY <3>1, <3>2, <3>3, <3>4, <3>5
      DEF WorkerNext, FanOut, RevokeDevice, ChangeStanding, TimePasses, workerVars, cycleVars
  <2> QED BY <1>3, <2>2, <2>3
<1>4. Claim(w) \/ (pc[w] \notin {"idle", "claim"} /\ entry'[w] = entry[w])
  <2>1. CASE EndCycle(w)
    BY <1>0, <1>1, <2>1 DEF EndCycle, Goto
  <2>2. CASE Proceed(w) \/ Abandon(w)
    BY <1>0, <1>1, <2>1, <2>2
    DEF Proceed, Abandon, ReadClock, NothingDue, GetDevice, PlanAttempt, Decide, Send,
        Defer, Expire, RecordCanceled, RecordSent, RecordTemporaryFailure,
        RecordDeadLetter, RecordUnauthorized, Conflict, Goto
  <2> QED BY <1>0, <1>1, <2>2, OthersDoNotMove
<1> QED BY <1>2, <1>3, <1>4

-----------------------------------------------------------------------------
(* Row and log agree.                                                      *)

\* What AuditMatchesState says of a row and its log alone.
Agrees(row, log) ==
  /\ \A i \in 1 .. Len(log) : log[i].number = i
  /\ \A i \in 1 .. Len(log) - 1 : log[i].outcome = "failed"
  /\ row.state \in {"absent", "pending"} =>
       /\ Len(log) = row.attempts
       /\ log # <<>> => Last(log).outcome = "failed"
  /\ row.state \in {"sent", "canceled"} =>
       Len(log) = row.attempts + 1 /\ Last(log).outcome = row.state
  /\ row.state = "dead_letter" =>
       /\ Len(log) = row.attempts /\ log # <<>>
       /\ Last(log).outcome \in {"dead_letter", "unauthorized"}
  /\ row.state = "expired" =>
       /\ Len(log) = row.attempts
       /\ log # <<>> => Last(log).outcome \in {"failed", "expired"}

\* What it says of a row and its log beside the calls made and the device.
Vouched(x) ==
  /\ outbox[x].state = "sent" =>
       \E p \in pushes : p.target = x /\ p.outcome = "accepted"
  /\ outbox[x].attempts <= Cardinality(Told(x))
  /\ audit[x] # <<>> /\ Last(audit[x]).outcome = "unauthorized" => ~ IsActive(DeviceOf[x])

\* The claim a pending row is under has paid for none of its attempts yet.
LogInv ==
  /\ audit \in [Targets -> Seq(Delivery)]
  /\ standing \in [Devices -> Standings]
  /\ CopyInv
  /\ \A x \in Targets :
       /\ outbox[x].state = "absent" => outbox[x].attempts = 0
       /\ Agrees(outbox[x], audit[x])
       /\ Vouched(x)
       /\ outbox[x].state = "pending" =>
            outbox[x].attempts <= Cardinality(Told(x) \ {outbox[x].token})

\* A log with one entry more.
LEMMA AppendedLog ==
  ASSUME NEW log \in Seq(Delivery), NEW d \in Delivery
  PROVE  /\ Len(Append(log, d)) = Len(log) + 1 /\ Len(log) \in Nat
         /\ \A i \in 1 .. Len(log) : Append(log, d)[i] = log[i]
         /\ Append(log, d)[Len(log) + 1] = d
         /\ Append(log, d) # <<>>
         /\ Last(Append(log, d)) = d
BY DEF Last

\* The answer to a pending row's claim is numbered after the failures before it.
LEMMA LoggedAnswer ==
  ASSUME NEW x \in Targets, outbox[x] \in Row, audit[x] \in Seq(Delivery),
         outbox[x].state = "pending", Agrees(outbox[x], audit[x]),
         NEW o \in Outcomes, Logged(x, o)
  PROVE  /\ \A i \in 1 .. Len(audit'[x]) : audit'[x][i].number = i
         /\ \A i \in 1 .. Len(audit'[x]) - 1 : audit'[x][i].outcome = "failed"
         /\ Len(audit'[x]) = outbox[x].attempts + 1
         /\ audit'[x] # <<>> /\ Last(audit'[x]).outcome = o
<1> DEFINE log == audit[x]
           d == [number |-> outbox[x].attempts + 1, outcome |-> o]
<1>1. d \in Delivery /\ d.number = outbox[x].attempts + 1 /\ d.outcome = o
  BY DEF Delivery, Row
<1>2. /\ Len(log) = outbox[x].attempts /\ Len(log) \in Nat
      /\ \A i \in 1 .. Len(log) : log[i].number = i
      /\ \A i \in 1 .. Len(log) : log[i].outcome = "failed"
  <2>1. Len(log) \in Nat
    OBVIOUS
  <2>2. /\ Len(log) = outbox[x].attempts
        /\ log # <<>> => log[Len(log)].outcome = "failed"
        /\ \A i \in 1 .. Len(log) : log[i].number = i
        /\ \A i \in 1 .. Len(log) - 1 : log[i].outcome = "failed"
    BY DEF Agrees, Last
  <2>3. ASSUME NEW i \in 1 .. Len(log) PROVE log[i].outcome = "failed"
    BY <2>1, <2>2
  <2> QED BY <2>1, <2>2, <2>3
<1>3. audit'[x] = Append(log, d)
  BY DEF Logged
<1> HIDE DEF log, d
<1>4. log \in Seq(Delivery)
  BY DEF log
<1>5. /\ Len(audit'[x]) = Len(log) + 1
      /\ \A i \in 1 .. Len(log) : audit'[x][i] = log[i]
      /\ audit'[x][Len(log) + 1] = d
      /\ audit'[x] # <<>> /\ Last(audit'[x]) = d
  BY <1>1, <1>3, <1>4, AppendedLog
<1> HIDE <1>3
<1>6. ASSUME NEW i \in 1 .. Len(log) + 1 PROVE audit'[x][i].number = i
  <2>1. CASE i \in 1 .. Len(log)
    BY <1>2, <1>5, <2>1
  <2>2. CASE i = Len(log) + 1
    BY <1>1, <1>2, <1>5, <2>2
  <2> QED BY <1>2, <2>1, <2>2
<1>7. ASSUME NEW i \in 1 .. Len(log) PROVE audit'[x][i].outcome = "failed"
  BY <1>2, <1>5
<1>8. Len(audit'[x]) - 1 = Len(log)
  BY <1>2, <1>5
<1> QED BY <1>1, <1>2, <1>5, <1>6, <1>7, <1>8

\* A row and its log agree after its turn.
LEMMA TurnAgrees ==
  ASSUME NEW x \in Targets, outbox[x] \in Row, outbox'[x] \in Row,
         audit[x] \in Seq(Delivery), Agrees(outbox[x], audit[x]),
         outbox[x].state = "absent" => outbox[x].attempts = 0,
         Turn(x)
  PROVE  Agrees(outbox'[x], audit'[x])
<1>1. CASE Rests(x)
  BY <1>1 DEF Rests, Agrees
<1>2. CASE Opens(x)
  BY <1>2 DEF Opens, Agrees
<1>3. CASE Answered(x)
  <2>1. CASE Lapses(x)
    BY <1>3, <2>1 DEF Answered, Lapses, Agrees
  <2>2. CASE Fails(x)
    <3>1. /\ outbox'[x].state \in {"pending", "expired", "dead_letter"}
          /\ OutcomeForState(outbox'[x].state) \in Outcomes
          /\ Logged(x, OutcomeForState(outbox'[x].state))
          /\ outbox'[x].attempts = outbox[x].attempts + 1
          /\ outbox[x].state = "pending"
      BY <1>3, <2>2 DEF Answered, Fails, OutcomeForState, Outcomes
    <3>2. /\ \A i \in 1 .. Len(audit'[x]) : audit'[x][i].number = i
          /\ \A i \in 1 .. Len(audit'[x]) - 1 : audit'[x][i].outcome = "failed"
          /\ Len(audit'[x]) = outbox'[x].attempts
          /\ audit'[x] # <<>>
          /\ Last(audit'[x]).outcome = OutcomeForState(outbox'[x].state)
      BY <3>1, LoggedAnswer
    <3> QED BY <3>1, <3>2 DEF Agrees, OutcomeForState
  <2>3. CASE Settles(x)
    <3>1. /\ outbox'[x].state \in {"sent", "canceled"} /\ outbox'[x].state \in Outcomes
          /\ Logged(x, outbox'[x].state)
          /\ outbox'[x].attempts = outbox[x].attempts
          /\ outbox[x].state = "pending"
      BY <1>3, <2>3 DEF Answered, Settles, Outcomes
    <3>2. /\ \A i \in 1 .. Len(audit'[x]) : audit'[x][i].number = i
          /\ \A i \in 1 .. Len(audit'[x]) - 1 : audit'[x][i].outcome = "failed"
          /\ Len(audit'[x]) = outbox'[x].attempts + 1
          /\ Last(audit'[x]).outcome = outbox'[x].state
      BY <3>1, LoggedAnswer
    <3> QED BY <3>1, <3>2 DEF Agrees
  <2>4. CASE Dies(x)
    <3>1. PICK o \in {"dead_letter", "unauthorized"} :
            /\ outbox'[x].state = "dead_letter"
            /\ Logged(x, o)
            /\ outbox'[x].attempts = outbox[x].attempts + 1
            /\ outbox[x].state = "pending"
      BY <1>3, <2>4 DEF Answered, Dies
    <3>2. o \in Outcomes
      BY DEF Outcomes
    <3>3. /\ \A i \in 1 .. Len(audit'[x]) : audit'[x][i].number = i
          /\ \A i \in 1 .. Len(audit'[x]) - 1 : audit'[x][i].outcome = "failed"
          /\ Len(audit'[x]) = outbox'[x].attempts
          /\ audit'[x] # <<>> /\ Last(audit'[x]).outcome = o
      BY <3>1, <3>2, LoggedAnswer
    <3> QED BY <3>1, <3>3 DEF Agrees
  <2> QED BY <1>3, <2>1, <2>2, <2>3, <2>4 DEF Answered
<1> QED BY <1>1, <1>2, <1>3 DEF Turn

-----------------------------------------------------------------------------
\* A revoked device stays revoked.
LEMMA RetiredStays ==
  ASSUME retired \in [Devices -> {Active} \cup (0 .. issued)],
         [WorkerNext]_workerVars, NEW d \in Devices, retired[d] # Active
  PROVE  retired'[d] # Active
<1>1. ASSUME NEW e, Revoke(e) PROVE retired'[d] # Active
  BY <1>1 DEF Revoke
<1>2. CASE UNCHANGED retired
  BY <1>2
<1> QED
  BY <1>1, <1>2
  DEF WorkerNext, Proceed, Abandon, ReadClock, Claim, NothingDue, GetDevice, PlanAttempt,
      Decide, Send, Defer, Expire, RecordCanceled, CanceledTx, RecordSent, SentTx,
      RecordTemporaryFailure, FailedAttemptTx, RecordDeadLetter, DeadLetterTx,
      RecordUnauthorized, UnauthorizedTx, Conflict, FanOut, RevokeDevice,
      ChangeStanding, TimePasses, deviceVars, workerVars

\* The claims under which the provider was called are issued ones, and finite.
LEMMA ToldFinite ==
  ASSUME NEW x \in Targets, RevokedInv, issued \in Nat
  PROVE  Told(x) \subseteq 1 .. issued /\ IsFiniteSet(Told(x))
<1>1. Told(x) \subseteq 1 .. issued
  BY DEF Told, RevokedInv, Tokens
<1>2. IsFiniteSet(1 .. issued)
  BY FS_Interval
<1> QED BY <1>1, <1>2, FS_Subset

\* What vouches for a row vouches for it after its turn, and an attempt more is
\* vouched for by the claim it was made under.
LEMMA TurnVouched ==
  ASSUME WorkerInv, RevokedInv, RevokedInv', [WorkerNext]_workerVars, issued' \in Nat,
         NEW x \in Targets,
         audit[x] \in Seq(Delivery), Agrees(outbox[x], audit[x]), Vouched(x),
         outbox[x].state = "pending" =>
           outbox[x].attempts <= Cardinality(Told(x) \ {outbox[x].token}),
         Rests(x) \/ Opens(x) \/ Answered(x)
  PROVE  /\ Vouched(x)'
         /\ outbox'[x].state = "pending" =>
              outbox'[x].attempts <= Cardinality(Told(x)' \ {outbox'[x].token})
<1> DEFINE r == outbox[x]
           s == outbox'[x]
           old == Told(x)
           new == Told(x)'
<1>0. /\ issued \in Nat /\ r \in Row /\ r.attempts \in Nat /\ s \in Row /\ s.attempts \in Nat
      /\ r.token <= issued
  <2>1. OutboxInv /\ OutboxInv'
    BY WorkerNextInv DEF WorkerInv
  <2> QED BY <2>1 DEF OutboxInv, TypeOK, TokensNameClaims, Row
<1>1. /\ old \subseteq 1 .. issued /\ IsFiniteSet(old) /\ IsFiniteSet(new)
      /\ old \subseteq new /\ new \subseteq 1 .. issued'
  <2>1. old \subseteq 1 .. issued /\ IsFiniteSet(old)
    BY <1>0, ToldFinite
  <2>2. new \subseteq 1 .. issued'
    <3>1. \A p \in pushes' : p.tok \in 1 .. issued'
      BY DEF RevokedInv, Tokens
    <3> QED BY <3>1 DEF Told
  <2>3. IsFiniteSet(new)
    <3>1. IsFiniteSet(1 .. issued')
      BY FS_Interval
    <3> QED BY <2>2, <3>1, FS_Subset
  <2> QED BY <2>1, <2>2, <2>3, PushesStay DEF Told
<1>2. \A S, T : IsFiniteSet(T) /\ S \subseteq T =>
        /\ Cardinality(S) <= Cardinality(T)
        /\ Cardinality(S) \in Nat /\ Cardinality(T) \in Nat
  BY FS_Subset, FS_CardinalityType
<1>3. \A a : IsFiniteSet(old \ {a}) /\ IsFiniteSet(new \ {a})
  BY <1>1, FS_RemoveElement
<1>4. ~ IsActive(DeviceOf[x]) => retired'[DeviceOf[x]] # Active
  BY RetiredStays, WorkerAssumption DEF RevokedInv, IsActive
<1>5. CASE Rests(x)
  <2>1. s.attempts <= Cardinality(new)
    <3>1. r.attempts <= Cardinality(old)
      BY DEF Vouched
    <3>2. Cardinality(old) <= Cardinality(new) /\ Cardinality(old) \in Nat /\ Cardinality(new) \in Nat
      BY <1>1, <1>2
    <3> QED BY <1>0, <1>5, <3>1, <3>2 DEF Rests
  <2>2. s.state = "pending" => s.attempts <= Cardinality(new \ {s.token})
    <3>1. old \ {r.token} \subseteq new \ {s.token}
      BY <1>0, <1>1, <1>5 DEF Rests, NoToken
    <3>2. /\ Cardinality(old \ {r.token}) <= Cardinality(new \ {s.token})
          /\ Cardinality(old \ {r.token}) \in Nat /\ Cardinality(new \ {s.token}) \in Nat
      BY <1>2, <1>3, <3>1
    <3> QED BY <1>0, <1>5, <3>2 DEF Rests
  <2>3. s.state = "sent" => \E p \in pushes' : p.target = x /\ p.outcome = "accepted"
    BY <1>5, PushesStay DEF Rests, Vouched
  <2>4. audit'[x] # <<>> /\ Last(audit'[x]).outcome = "unauthorized" =>
          retired'[DeviceOf[x]] # Active
    BY <1>4, <1>5 DEF Rests, Vouched
  <2> QED BY <2>1, <2>2, <2>3, <2>4 DEF Vouched, IsActive
<1>6. CASE Opens(x)
  <2>1. \A T : IsFiniteSet(T) => 0 <= Cardinality(T)
    BY FS_CardinalityType
  <2>2. audit'[x] # <<>> => Last(audit'[x]).outcome # "unauthorized"
    BY <1>6 DEF Opens, Agrees
  <2> QED BY <1>1, <1>3, <1>6, <2>1, <2>2 DEF Opens, Vouched
<1>7. CASE Answered(x)
  <2>1. /\ r.state = "pending" /\ s.token = NoToken
        /\ r.attempts <= Cardinality(old \ {r.token})
    BY <1>7 DEF Answered
  <2>2. /\ Cardinality(old \ {r.token}) <= Cardinality(new)
        /\ Cardinality(old \ {r.token}) \in Nat /\ Cardinality(new) \in Nat
    BY <1>1, <1>2
  <2>3. Heard(x, Outcome) => Cardinality(old \ {r.token}) + 1 <= Cardinality(new)
    <3> SUFFICES ASSUME Heard(x, Outcome)
                 PROVE  Cardinality(old \ {r.token}) + 1 <= Cardinality(new)
      OBVIOUS
    <3>1. r.token \in old
      BY DEF Heard, Told
    <3>2. Cardinality(old \ {r.token}) = Cardinality(old) - 1
      <4>1. IsFiniteSet(old)
        BY <1>1
      <4> QED BY <3>1, <4>1, FS_RemoveElement
    <3> QED BY <1>1, <1>2, <3>2
  <2>4. s.attempts <= Cardinality(new)
    <3>1. \/ s.attempts = r.attempts
          \/ s.attempts = r.attempts + 1 /\ Heard(x, Outcome)
      BY <1>7 DEF Answered, Lapses, Fails, Settles, Dies
    <3> QED BY <1>0, <2>1, <2>2, <2>3, <3>1
  <2>5. new \ {s.token} = new
    BY <1>1, <2>1 DEF NoToken
  <2>6. s.state = "sent" => \E p \in pushes' : p.target = x /\ p.outcome = "accepted"
    BY <1>7, PushesStay DEF Answered, Lapses, Fails, Settles, Dies, Heard
  <2>7. audit'[x] # <<>> /\ Last(audit'[x]).outcome = "unauthorized" =>
          retired'[DeviceOf[x]] # Active
    <3>1. CASE Lapses(x)
      BY <2>1, <3>1 DEF Lapses, Agrees
    <3>2. ASSUME NEW o \in Outcomes \ {"unauthorized"}, Logged(x, o) PROVE <2>7
      BY <1>0, <2>1, <3>2, LoggedAnswer
    <3>3. CASE Fails(x)
      BY <3>2, <3>3 DEF Fails, OutcomeForState, Outcomes
    <3>4. CASE Settles(x)
      BY <3>2, <3>4 DEF Settles, Outcomes
    <3>5. CASE Dies(x)
      BY <3>2, <3>5 DEF Dies, Outcomes
    <3> QED BY <1>7, <3>1, <3>3, <3>4, <3>5 DEF Answered
  <2> QED BY <2>4, <2>5, <2>6, <2>7 DEF Vouched, IsActive
<1> QED BY <1>5, <1>6, <1>7

\* Rows and logs agree, and keep doing so.
LEMMA LogStep ==
  ASSUME WorkerInv, RevokedInv, LogInv, [WorkerNext]_workerVars PROVE LogInv'
<1>0. /\ audit \in [Targets -> Seq(Delivery)] /\ standing \in [Devices -> Standings]
      /\ CopyInv
      /\ retired \in [Devices -> {Active} \cup (0 .. issued)]
  BY DEF LogInv, RevokedInv
<1>1. RevokedInv' /\ WorkerInv'
  BY RevokedStep, WorkerNextInv
<1>2. /\ \A x \in Targets : outbox[x] \in Row /\ outbox'[x] \in Row
      /\ issued' \in Nat
  BY <1>1 DEF WorkerInv, OutboxInv, TypeOK
<1>3. UNCHANGED <<outbox, audit>> \/ \E x \in Targets : Turn(x)
  BY <1>0, StepTurns
<1>4. audit' \in [Targets -> Seq(Delivery)]
  BY <1>0, <1>3 DEF Turn
<1>5. standing' \in [Devices -> Standings]
  <2>1. CASE UNCHANGED standing
    BY <1>0, <2>1
  <2>2. ASSUME NEW d \in Devices, ChangeStanding(d) PROVE <1>5
    BY <1>0, <2>2 DEF ChangeStanding
  <2> QED
    BY <2>1, <2>2
    DEF WorkerNext, Proceed, Abandon, ReadClock, Claim, NothingDue, GetDevice, PlanAttempt,
        Decide, Send, Defer, Expire, RecordCanceled, CanceledTx, RecordSent, SentTx,
        RecordTemporaryFailure, FailedAttemptTx, RecordDeadLetter, DeadLetterTx,
        RecordUnauthorized, UnauthorizedTx, Conflict, FanOut, RevokeDevice,
        TimePasses, deviceVars, workerVars
<1>6. CopyInv'
  BY <1>0, CopyStep
<1>7. ASSUME NEW x \in Targets
      PROVE  /\ outbox'[x].state = "absent" => outbox'[x].attempts = 0
             /\ Agrees(outbox'[x], audit'[x])
             /\ Vouched(x)'
             /\ outbox'[x].state = "pending" =>
                  outbox'[x].attempts <= Cardinality(Told(x)' \ {outbox'[x].token})
  <2>1. /\ audit[x] \in Seq(Delivery)
        /\ outbox[x].state = "absent" => outbox[x].attempts = 0
        /\ Agrees(outbox[x], audit[x]) /\ Vouched(x)
        /\ outbox[x].state = "pending" =>
             outbox[x].attempts <= Cardinality(Told(x) \ {outbox[x].token})
    BY DEF LogInv
  <2>2. \/ outbox'[x] = outbox[x] /\ audit'[x] = audit[x]
        \/ Turn(x)
    BY <1>3 DEF Turn
  <2>3. Agrees(outbox'[x], audit'[x])
    BY <1>2, <2>1, <2>2, TurnAgrees
  <2>4. Rests(x) \/ Opens(x) \/ Answered(x)
    BY <2>2 DEF Turn, Rests
  <2>5. /\ Vouched(x)'
        /\ outbox'[x].state = "pending" =>
             outbox'[x].attempts <= Cardinality(Told(x)' \ {outbox'[x].token})
    BY <1>1, <1>2, <2>1, <2>4, TurnVouched
  <2>6. outbox'[x].state = "absent" => outbox'[x].attempts = 0
    BY <2>1, <2>4 DEF Rests, Opens, Answered, Lapses, Fails, Settles, Dies
  <2> QED BY <2>3, <2>5, <2>6
<1> QED BY <1>4, <1>5, <1>6, <1>7 DEF LogInv

\* Nothing was logged before there were rows.
LEMMA LogInit == WorkerInit => LogInv
<1> SUFFICES ASSUME WorkerInit PROVE LogInv
  OBVIOUS
<1>1. /\ \A x \in Targets : outbox[x] = NoRow /\ audit[x] = <<>>
      /\ audit \in [Targets -> Seq(Delivery)] /\ standing \in [Devices -> Standings]
      /\ pushes = {} /\ \A w \in Workers : pc[w] = "idle"
  BY DEF WorkerInit, Init
<1>2. CopyInv
  BY <1>1 DEF CopyInv
<1>3. \A x \in Targets : Told(x) = {} /\ Told(x) \ {outbox[x].token} = {}
  BY <1>1 DEF Told
<1>4. ASSUME NEW x \in Targets
      PROVE  /\ outbox[x].state = "absent" /\ outbox[x].attempts = 0
             /\ Agrees(outbox[x], audit[x]) /\ Vouched(x)
  <2>1. outbox[x].state = "absent" /\ outbox[x].attempts = 0
    BY <1>1 DEF NoRow
  <2>2. Agrees(outbox[x], audit[x])
    BY <1>1, <2>1 DEF Agrees
  <2>3. Vouched(x)
    <3>1. Cardinality(Told(x)) = 0
      BY <1>3, FS_EmptySet
    <3> QED BY <1>1, <2>1, <3>1 DEF Vouched
  <2> QED BY <2>1, <2>2, <2>3
<1> QED BY <1>1, <1>2, <1>4 DEF LogInv

\* The joint invariant of the log.
LEMMA LogInvariant == WorkerSpec => [](WorkerInv /\ RevokedInv /\ LogInv)
<1>1. WorkerInit => RevokedInv
  BY DEF WorkerInit, Init, RevokedInv, RevokedIsNotPushed, IsActive, Active
<1>2. WorkerInv /\ RevokedInv /\ [WorkerNext]_workerVars => RevokedInv'
  BY RevokedStep
<1>3. WorkerInv /\ RevokedInv /\ LogInv /\ [WorkerNext]_workerVars => LogInv'
  BY LogStep
<1> QED BY <1>1, <1>2, <1>3, LogInit, WorkerInvariant, PTL DEF WorkerSpec

\* The audit log tells what became of each row, however many workers there are:
\* numbered failures while it is pending, one entry that says how it closed, and
\* a call of the provider for every attempt.
THEOREM AuditTellsTheRow == WorkerSpec => []AuditMatchesState
<1>1. WorkerInv /\ LogInv => AuditMatchesState
  <2> SUFFICES ASSUME WorkerInv, LogInv, NEW x \in Targets
               PROVE  Agrees(outbox[x], audit[x]) /\ Vouched(x)
    BY DEF AuditMatchesState, Agrees, Vouched, Told
  <2> QED BY DEF LogInv
<1> QED BY <1>1, LogInvariant, PTL

-----------------------------------------------------------------------------
(* The promise of DeliveryLedger.                                          *)

\* A turn of a row is a step of its ledger, or none.
LEMMA TurnImplements ==
  ASSUME LogInv, outbox \in [Targets -> Row], outbox' \in [Targets -> Row],
         NEW x \in Targets, Turn(x)
  PROVE  [Ledger!Next]_(Ledger!ledgerVars)
<1> DEFINE phase == [y \in Targets |-> Phase(outbox[y])]
           limit == [y \in Targets |-> outbox[y].maxAttempts]
<1>0. /\ audit \in [Targets -> Seq(Delivery)] /\ audit' \in [Targets -> Seq(Delivery)]
      /\ Agrees(outbox[x], audit[x])
      /\ outbox[x] \in Row /\ outbox'[x] \in Row
      /\ \A y \in Targets \ {x} : outbox'[y] = outbox[y] /\ audit'[y] = audit[y]
  BY DEF LogInv, Turn
<1>1. /\ phase' = [phase EXCEPT ![x] = Phase(outbox'[x])]
      /\ limit' = [limit EXCEPT ![x] = outbox'[x].maxAttempts]
      /\ audit' = [audit EXCEPT ![x] = audit'[x]]
  BY <1>0
<1>2. /\ phase[x] = Phase(outbox[x]) /\ limit[x] = outbox[x].maxAttempts
      /\ phase = [phase EXCEPT ![x] = Phase(outbox[x])]
      /\ limit = [limit EXCEPT ![x] = outbox[x].maxAttempts]
      /\ audit = [audit EXCEPT ![x] = audit[x]]
  BY <1>0
<1> HIDE DEF phase, limit
<1>3. CASE Rests(x) /\ outbox'[x].maxAttempts = outbox[x].maxAttempts
  <2>1. Phase(outbox'[x]) = Phase(outbox[x]) /\ audit'[x] = audit[x]
    BY <1>3 DEF Rests, Phase
  <2>2. UNCHANGED <<phase, limit, audit>>
    BY <1>1, <1>2, <1>3, <2>1
  <2> QED BY <2>2 DEF Ledger!ledgerVars, phase, limit
<1>4. CASE Opens(x) /\ outbox'[x].maxAttempts \in AttemptLimits
  <2>1. /\ Phase(outbox[x]) = "none" /\ Phase(outbox'[x]) = "open" /\ audit'[x] = audit[x]
    BY <1>4 DEF Opens, Phase, Terminal
  <2>2. Ledger!Open(x)
    BY <1>1, <1>2, <1>4, <2>1 DEF Ledger!Open, phase, limit
  <2> QED BY <2>2 DEF Ledger!Next
<1>5. CASE Answered(x) /\ outbox'[x].maxAttempts = outbox[x].maxAttempts
  <2>1. /\ Phase(outbox[x]) = "open" /\ limit' = limit
        /\ Len(audit[x]) = outbox[x].attempts
    BY <1>0, <1>1, <1>2, <1>5 DEF Answered, Phase, Agrees, Terminal
  <2>2. ASSUME NEW o, Logged(x, o)
        PROVE  audit' = [audit EXCEPT ![x] =
                           Append(@, [number |-> Len(@) + 1, outcome |-> o])]
    BY <1>1, <2>1, <2>2 DEF Logged
  <2>3. CASE outbox'[x].state = "pending"
    <3>1. /\ Logged(x, "failed") /\ outbox[x].attempts + 1 < outbox[x].maxAttempts
      BY <1>5, <2>3 DEF Answered, Lapses, Fails, Settles, Dies, OutcomeForState
    <3>2. phase' = phase
      BY <1>1, <1>2, <2>1, <2>3 DEF Phase, Terminal
    <3>3. Ledger!Retry(x)
      BY <1>2, <2>1, <2>2, <3>1, <3>2 DEF Ledger!Retry, Ledger!Write, phase, limit
    <3> QED BY <3>3 DEF Ledger!Next
  <2>4. CASE outbox'[x].state \in Terminal
    <3>1. phase' = [phase EXCEPT ![x] = "closed"]
      BY <1>1, <2>4 DEF Phase, Terminal
    <3>2. CASE audit'[x] = audit[x]
      <4>1. audit' = audit
        BY <1>1, <1>2, <3>2
      <4>2. Ledger!Lapse(x)
        BY <1>2, <2>1, <3>1, <4>1 DEF Ledger!Lapse, phase, limit
      <4> QED BY <4>2 DEF Ledger!Next
    <3>3. ASSUME NEW o \in Ledger!Closing, Logged(x, o)
          PROVE  Ledger!Next
      <4>1. Ledger!Conclude(x)
        BY <1>2, <2>1, <2>2, <3>1, <3>3 DEF Ledger!Conclude, Ledger!Write, phase, limit
      <4> QED BY <4>1 DEF Ledger!Next
    <3>4. audit'[x] = audit[x] \/ \E o \in Ledger!Closing : Logged(x, o)
      BY <1>5, <2>4
      DEF Answered, Lapses, Fails, Settles, Dies, OutcomeForState, Ledger!Closing, Terminal
    <3> QED BY <3>2, <3>3, <3>4
  <2>5. outbox'[x].state \in {"pending"} \cup Terminal
    BY <1>5 DEF Answered, Lapses, Fails, Settles, Dies, Terminal
  <2> QED BY <2>3, <2>4, <2>5
<1> QED BY <1>3, <1>4, <1>5 DEF Turn

\* Every step of the workers, the users and the clock is a step of the ledger of
\* one target or leaves all ledgers alone: each target closes once, its outcomes
\* are numbered in order, none is lost and none recorded twice.
THEOREM WorkersImplementLedger == WorkerSpec => LedgerSpec
<1>1. WorkerInit => Ledger!Init
  BY DEF WorkerInit, Init, Ledger!Init, Phase, Terminal, NoRow
<1>2. ASSUME WorkerInv, WorkerInv', RevokedInv, LogInv, [WorkerNext]_workerVars
      PROVE  [Ledger!Next]_(Ledger!ledgerVars)
  <2>1. outbox \in [Targets -> Row] /\ outbox' \in [Targets -> Row]
    BY <1>2 DEF WorkerInv, OutboxInv, TypeOK
  <2>2. UNCHANGED <<outbox, audit>> \/ \E x \in Targets : Turn(x)
    BY <1>2, StepTurns DEF LogInv, RevokedInv
  <2>3. CASE UNCHANGED <<outbox, audit>>
    BY <2>3 DEF Ledger!ledgerVars
  <2> QED BY <1>2, <2>1, <2>2, <2>3, TurnImplements
<1>3. WorkerInv /\ WorkerInv' /\ RevokedInv /\ LogInv /\ [WorkerNext]_workerVars
        => [Ledger!Next]_(Ledger!ledgerVars)
  BY <1>2
<1> QED BY <1>1, <1>3, LogInvariant, PTL DEF WorkerSpec, LedgerSpec, Ledger!Spec
=============================================================================
