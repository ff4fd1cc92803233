---------------------------- MODULE NotifyOutbox ----------------------------
(***************************************************************************)
(* The notification_outbox table and the methods of                        *)
(* backend/internal/notifyoutboxstore that change it.                      *)
(*                                                                         *)
(* Every method is one SQL statement, hence one action.  Its WHERE clause  *)
(* is the action's guard; a call whose WHERE clause matches no row returns *)
(* ErrConflict or ErrNotFound and changes nothing, so it is no step here.  *)
(* The CHECK constraints of migrations 000010 and 000011 are NOT guards:   *)
(* that no transition would ever trip one is a property (ChecksHold).      *)
(*                                                                         *)
(* The store never reads a clock.  Each method is handed a "now" its       *)
(* caller read at some earlier instant, so an action takes a time t that   *)
(* is any past reading of the one clock.                                   *)
(***************************************************************************)
EXTENDS Integers, FiniteSets

CONSTANTS
  Targets,        \* the (event_id, device_id) pairs: at most one row for each
  AttemptLimits,  \* values max_attempts may be enqueued with
  Lease,          \* the lease duration a claim is taken for
  MaxClock,       \* bound on the clock
  MaxTokens       \* bound on the number of claims ever taken

ASSUME OutboxAssumption ==
  /\ AttemptLimits \subseteq Nat \ {0}
  /\ Lease \in Nat \ {0}
  /\ MaxClock \in Nat
  /\ MaxTokens \in Nat

VARIABLES
  clock,   \* the present
  outbox,  \* outbox[x]: the row of target x
  issued   \* the last claim token newClaimToken returned

vars == <<clock, outbox, issued>>

Times   == 0 .. MaxClock
NoTime  == -1             \* next_attempt_at IS NULL
NoToken == 0              \* claim_token IS NULL
Tokens  == 1 .. issued    \* every token ever handed to a caller

Terminal == {"sent", "expired", "canceled", "dead_letter"}
States   == Terminal \cup {"pending"}

\* "absent" stands for a target that has no row yet.
Row == [state       : States \cup {"absent"},
        attempts    : Nat,
        maxAttempts : Nat,
        nextAt      : Nat \cup {NoTime},
        expiresAt   : Nat,
        token       : Nat]

NoRow == [state |-> "absent", attempts |-> 0, maxAttempts |-> 0,
          nextAt |-> NoTime, expiresAt |-> 0, token |-> NoToken]

NewRow(max, first, exp) ==
  [state |-> "pending", attempts |-> 0, maxAttempts |-> max,
   nextAt |-> first, expiresAt |-> exp, token |-> NoToken]

-----------------------------------------------------------------------------
(* WHERE clauses.                                                          *)

\* Faulty variants, each one slip away from the definition it precedes; the
\* properties are shown to tell them apart.

\* Any pending row, leased or not.
IsDue_LeaseIgnored(row, t) == row.state = "pending" /\ row.nextAt # NoTime

\* Only unclaimed rows: an abandoned claim is never recovered.
IsDue_UnclaimedOnly(row, t) ==
  row.state = "pending" /\ row.token = NoToken /\ row.nextAt # NoTime /\ row.nextAt <= t

\* state = 'pending' AND next_attempt_at <= now: a retry that is due, or a
\* claim whose lease has lapsed -- the one condition serves both.
IsDue(row, t) ==
  /\ row.state = "pending"
  /\ row.nextAt # NoTime
  /\ row.nextAt <= t

\* No comparison of tokens.
Fenced_TokenIgnored(x, tok) == outbox[x].state = "pending"

\* id = $1 AND state = 'pending' AND claim_token = $2: the fence.
Fenced(x, tok) ==
  /\ outbox[x].state = "pending"
  /\ outbox[x].token = tok

\* id = $1 AND state = 'pending' AND claim_token IS NULL.
Unclaimed(x) ==
  /\ outbox[x].state = "pending"
  /\ outbox[x].token = NoToken

-----------------------------------------------------------------------------
(* SET clauses.                                                            *)

Claimed(row, t, tok) == [row EXCEPT !.token = tok, !.nextAt = t + Lease]

Requeued(row, next) == [row EXCEPT !.token = NoToken, !.nextAt = next]

Closed(row, terminal) ==
  [row EXCEPT !.state = terminal, !.nextAt = NoTime, !.token = NoToken]

\* MarkExpired and Cancel leave claim_token alone: their guard says it is NULL.
ClosedUnclaimed(row, terminal) ==
  [row EXCEPT !.state = terminal, !.nextAt = NoTime]

DeadLettered(row) == [Closed(row, "dead_letter") EXCEPT !.attempts = @ + 1]

\* attempt_count >= max_attempts, read before the increment.
FailedState_OffByOne(row, t) ==
  CASE t >= row.expiresAt                                       -> "expired"
    [] t < row.expiresAt /\ row.attempts >= row.maxAttempts     -> "dead_letter"
    [] t < row.expiresAt /\ row.attempts < row.maxAttempts      -> "pending"

\* RecordFailedAttempt's CASE: expiry first, then exhaustion, else a retry.
FailedState(row, t) ==
  CASE t >= row.expiresAt                   -> "expired"
    [] /\ t < row.expiresAt
       /\ row.attempts + 1 >= row.maxAttempts -> "dead_letter"
    [] OTHER                                -> "pending"

FailedRow(row, t, next) ==
  [row EXCEPT !.state    = FailedState(row, t),
              !.attempts = @ + 1,
              !.nextAt   = IF FailedState(row, t) = "pending" THEN next ELSE NoTime,
              !.token    = NoToken]

Put(x, row) == outbox' = [outbox EXCEPT ![x] = row]

-----------------------------------------------------------------------------
(* The methods.                                                            *)

\* INSERT ... ON CONFLICT (event_id, device_id) DO NOTHING: a second enqueue
\* of the same target returns the row as it is.
Enqueue(x, t, max, first, exp) ==
  /\ exp > t
  /\ first < exp
  /\ Put(x, IF outbox[x].state = "absent" THEN NewRow(max, first, exp) ELSE outbox[x])
  /\ UNCHANGED <<clock, issued>>

\* The common effect of the two claiming methods: a fresh token, a lease.
TakeClaim(x, t) ==
  /\ issued < MaxTokens
  /\ issued' = issued + 1
  /\ Put(x, Claimed(outbox[x], t, issued'))
  /\ UNCHANGED clock

\* ORDER BY next_attempt_at FOR UPDATE SKIP LOCKED LIMIT 1: the earliest due
\* row, passing over the rows that other transactions hold locked.
ClaimNextDue(x, t, locked) ==
  /\ x \notin locked
  /\ IsDue(outbox[x], t)
  /\ \A y \in Targets \ locked :
       IsDue(outbox[y], t) => outbox[x].nextAt <= outbox[y].nextAt
  /\ TakeClaim(x, t)

ClaimSpecific(x, t) ==
  /\ IsDue(outbox[x], t)
  /\ TakeClaim(x, t)

ReleaseClaim(x, t, tok) ==
  /\ Fenced(x, tok)
  /\ Put(x, Requeued(outbox[x], t))
  /\ UNCHANGED <<clock, issued>>

RescheduleClaim(x, t, tok, next) ==
  /\ next > t
  /\ Fenced(x, tok)
  /\ next <= outbox[x].expiresAt
  /\ Put(x, Requeued(outbox[x], next))
  /\ UNCHANGED <<clock, issued>>

MarkSent(x, tok) ==
  /\ Fenced(x, tok)
  /\ Put(x, Closed(outbox[x], "sent"))
  /\ UNCHANGED <<clock, issued>>

RecordFailedAttempt(x, t, next, tok) ==
  /\ Fenced(x, tok)
  /\ Put(x, FailedRow(outbox[x], t, next))
  /\ UNCHANGED <<clock, issued>>

MarkExpired(x, t) ==
  /\ Unclaimed(x)
  /\ outbox[x].expiresAt <= t
  /\ Put(x, ClosedUnclaimed(outbox[x], "expired"))
  /\ UNCHANGED <<clock, issued>>

Cancel(x) ==
  /\ Unclaimed(x)
  /\ Put(x, ClosedUnclaimed(outbox[x], "canceled"))
  /\ UNCHANGED <<clock, issued>>

MarkExpiredClaimed(x, t, tok) ==
  /\ Fenced(x, tok)
  /\ outbox[x].expiresAt <= t
  /\ Put(x, Closed(outbox[x], "expired"))
  /\ UNCHANGED <<clock, issued>>

CancelClaimed(x, tok) ==
  /\ Fenced(x, tok)
  /\ Put(x, Closed(outbox[x], "canceled"))
  /\ UNCHANGED <<clock, issued>>

DeadLetterClaimed(x, tok) ==
  /\ Fenced(x, tok)
  /\ Put(x, DeadLettered(outbox[x]))
  /\ UNCHANGED <<clock, issued>>

Tick ==
  /\ clock < MaxClock
  /\ clock' = clock + 1
  /\ UNCHANGED <<outbox, issued>>

-----------------------------------------------------------------------------
(* Any number of callers, each presenting any token it was ever handed and *)
(* any clock reading it ever took.                                         *)

Init ==
  /\ clock = 0
  /\ outbox = [x \in Targets |-> NoRow]
  /\ issued = 0

Next ==
  \/ Tick
  \/ \E x \in Targets, t \in 0 .. clock :
       \/ \E max \in AttemptLimits, exp \in Times : \E first \in 0 .. exp :
            Enqueue(x, t, max, first, exp)
       \/ \E locked \in SUBSET Targets : ClaimNextDue(x, t, locked)
       \/ ClaimSpecific(x, t)
       \/ MarkExpired(x, t)
       \/ \E tok \in Tokens :
            \/ ReleaseClaim(x, t, tok)
            \/ \E next \in Times : RescheduleClaim(x, t, tok, next)
            \/ \E next \in Times : RecordFailedAttempt(x, t, next, tok)
            \/ MarkExpiredClaimed(x, t, tok)
  \/ \E x \in Targets :
       \/ Cancel(x)
       \/ \E tok \in Tokens :
            \/ MarkSent(x, tok)
            \/ CancelClaimed(x, tok)
            \/ DeadLetterClaimed(x, tok)

Spec == Init /\ [][Next]_vars

-----------------------------------------------------------------------------
(* Properties.                                                             *)

\* The columns keep their types and the last token issued is a count.
TypeOK ==
  /\ clock \in Nat
  /\ outbox \in [Targets -> Row]
  /\ issued \in Nat

\* The schema's CHECKs on one row, and the fact DeadLetterClaimed's unguarded
\* increment leans on: a pending row has an attempt left.
RowChecks(row) ==
  /\ row.token # NoToken => row.state = "pending"
  /\ row.state = "pending" => row.nextAt # NoTime
  /\ row.attempts <= row.maxAttempts
  /\ row.state = "pending" => row.attempts < row.maxAttempts

\* No transition of notifyoutboxstore ever trips a CHECK of the schema: a
\* claim implies pending, a pending row has a next attempt, and attempt_count
\* stays within max_attempts -- strictly below it while the row is pending.
ChecksHold == \A x \in Targets : RowChecks(outbox[x])

\* The fence compares a token with the row's own, so it only fences if a token
\* names one claim: no two rows ever carry the same one, and none is carried
\* that was not issued.
TokensNameClaims ==
  \A x \in Targets :
    /\ outbox[x].token <= issued
    /\ \A y \in Targets :
         (x # y /\ outbox[x].token # NoToken) => outbox[x].token # outbox[y].token

\* A terminal row is never touched again: no late completion, duplicate
\* enqueue, reaper or cancellation brings it back or rewrites its outcome.
TerminalIsFinal ==
  [][\A x \in Targets :
       outbox[x].state \in Terminal => outbox'[x] = outbox[x]]_vars

\* One claim never displaces another whose lease is still running, whatever
\* stale clock reading the second claimant came with.
LeaseExcludes ==
  [][\A x \in Targets :
       (/\ outbox[x].token # NoToken
        /\ outbox'[x].token \notin {NoToken, outbox[x].token})
       => outbox[x].nextAt <= clock]_vars

=============================================================================
