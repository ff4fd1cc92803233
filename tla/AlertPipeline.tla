---------------------------- MODULE AlertPipeline ----------------------------
(***************************************************************************)
(* From a detector's results to alert_events: Service.process              *)
(* (alertpipeline.go), the identities alerts.Builder derives (alerts.go)   *)
(* and record_alert_detection (migration 000007), which RecordDetection    *)
(* (alertstore/postgres.go) calls once for each result.                    *)
(*                                                                         *)
(* The function is one transaction of several statements, each of which    *)
(* sees what was committed before it began: its audit row, the advisory    *)
(* lock on the dedup_key, the look-up of the event_id, the cooldown check  *)
(* and the insertion are steps of their own.  A caller may give up at any  *)
(* of them, and the transaction may still be committed after that.         *)
(*                                                                         *)
(* All recordings are of one channel.  The states partial and              *)
(* low_confidence are treated by all of this code as "ambiguous" is.       *)
(***************************************************************************)
EXTENDS Naturals, Sequences

CONSTANTS
  Callers,       \* goroutines that call ProcessTone or ProcessKeyword
  Recordings,    \* Evidence: a fingerprint or a source identity
  Batches,       \* what a detector may return: sequences of results
  Cooldown,      \* Limits.Cooldown, in ticks
  Second,        \* the ticks of a second
  MaxBatchSize,  \* Limits.MaxBatchSize
  Unlabeled,     \* the label of a result alerts.Builder refuses
  None,
  Times,         \* bound: the times callers say it is
  MaxAudits      \* bound: audit rows begun in all

Results ==   \* of a detector: the configured set or list, what it says of it,
             \* and the label, which stands for all else event_id is made of
  [set : STRING, state : {"matched", "ambiguous"}, label : STRING]

ASSUME AlertAssumption ==
  /\ \A b \in Batches : b \in Seq(Results)
  /\ Cooldown \in Nat /\ Second \in Nat \ {0}
  /\ Unlabeled \in STRING
  /\ None \notin Callers
  /\ Times \subseteq Nat /\ MaxAudits \in Nat

VARIABLES
  audits,    \* detection_audit: the committed rows
  events,    \* alert_events: the committed rows
  txs,       \* the calls of record_alert_detection that are under way
  call,      \* call[c]: where caller c stands in process
  issued     \* the last value of detection_audit's identity column

alertVars == <<audits, events, txs, call, issued>>

\* cooldownSeconds: the database is given whole seconds; the rest of the
\* configured cooldown, or all of one below a second, is not enforced.
Enforced == (Cooldown \div Second) * Second

\* The identity of the recording and the set: not the label, not the time.
DedupKey(rec, res) == <<rec, res.set>>

\* The safe fields and the time: not the recording.
EventId(res, now) == [set |-> res.set, state |-> res.state, label |-> res.label, at |-> now]

Idle == [step |-> "idle"]
Here(c, place) == call' = [call EXCEPT ![c] = place]

\* The results that are still to be recorded.
Left(c) == Len(call[c].outcomes) < Len(call[c].batch)
Turn(c) == call[c].batch[Len(call[c].outcomes) + 1]

-----------------------------------------------------------------------------
(* Service.process.                                                        *)

\* Now is what the caller says: nothing here reads a clock.  A batch that is
\* too large is refused before anything is written.
Process(c) ==
  /\ call[c].step = "idle"
  /\ \E rec \in Recordings, batch \in Batches, now \in Times :
       /\ Len(batch) <= MaxBatchSize
       /\ Here(c, [step |-> "next", rec |-> rec, batch |-> batch, now |-> now,
                   outcomes |-> <<>>])
  /\ UNCHANGED <<audits, events, txs, issued>>

\* All is recorded, or the context was canceled between two results.
Return(c) ==
  /\ call[c].step = "next"
  /\ Here(c, Idle)
  /\ UNCHANGED <<audits, events, txs, issued>>

\* A refused result has neither a dedup_key nor an event, and takes no lock.
Rejected(tx) == tx.res.label = Unlabeled

\* The call of RecordDetection, up to the audit row and its number.
Record(c) ==
  /\ call[c].step = "next" /\ Left(c)
  /\ issued < MaxAudits
  /\ issued' = issued + 1
  /\ LET res == Turn(c) IN
       txs' = txs \cup
         {[audit |-> issued + 1, by |-> c, rec |-> call[c].rec, res |-> res,
           now |-> call[c].now, verdict |-> "neither",
           stage |-> IF res.label = Unlabeled THEN "commit" ELSE "lock"]}
  /\ Here(c, [call[c] EXCEPT !.step = "wait"])
  /\ UNCHANGED <<audits, events>>

\* The caller's context ends, its connection breaks, or its process does: it
\* is told of an error, and of the outcomes so far.
GiveUp(c) ==
  /\ call[c].step = "wait"
  /\ txs' = {IF tx.by = c THEN [tx EXCEPT !.by = None] ELSE tx : tx \in txs}
  /\ Here(c, Idle)
  /\ UNCHANGED <<audits, events, issued>>

-----------------------------------------------------------------------------
(* record_alert_detection.                                                 *)

Key(tx) == DedupKey(tx.rec, tx.res)
Id(tx)  == EventId(tx.res, tx.now)

\* The lock is held to the end of the transaction.
Locking(tx) == ~Rejected(tx) /\ tx.stage # "lock"

Advance(tx, stage, verdict) ==
  txs' = (txs \ {tx}) \cup {[tx EXCEPT !.stage = stage, !.verdict = verdict]}

\* Faulty variant: the lock is on the event_id.
LockFree_OfEvent(tx) == \A other \in txs : Locking(other) => Id(other) # Id(tx)

LockFree(tx) == \A other \in txs : Locking(other) => Key(other) # Key(tx)

TakeLock(tx) ==
  /\ tx.stage = "lock"
  /\ LockFree(tx)
  /\ Advance(tx, "exists", "neither")
  /\ UNCHANGED <<audits, events, call, issued>>

\* A retry of an event that is there is neither created nor suppressed.
LookUp(tx) ==
  /\ tx.stage = "exists"
  /\ Advance(tx, IF \E e \in events : e.id = Id(tx) THEN "commit" ELSE "cooldown", "neither")
  /\ UNCHANGED <<audits, events, call, issued>>

\* Faulty variant: the end of the cooldown is part of it.
Cooling_Inclusive(tx) ==
  \E e \in events : e.key = Key(tx) /\ tx.now <= e.at + Enforced

\* Earlier than max(created_at) of the key plus the cooldown: any event of the
\* key will do, whatever its state, and one created later than this detection.
Cooling(tx) ==
  \E e \in events : e.key = Key(tx) /\ tx.now < e.at + Enforced

CheckCooldown(tx) ==
  /\ tx.stage = "cooldown"
  /\ IF Cooling(tx) THEN Advance(tx, "commit", "suppressed")
                    ELSE Advance(tx, "insert", "neither")
  /\ UNCHANGED <<audits, events, call, issued>>

\* Inserted by a transaction that has yet to end: an insertion of the same
\* event_id waits for it.
Pending(tx) ==
  \E other \in txs : other.verdict = "created" /\ Id(other) = Id(tx)

\* ON CONFLICT (event_id) DO NOTHING, and ROW_COUNT.
Inserted(tx) == IF \E e \in events : e.id = Id(tx) THEN "neither" ELSE "created"

Insert(tx) ==
  /\ tx.stage = "insert"
  /\ ~Pending(tx)
  /\ Advance(tx, "commit", Inserted(tx))
  /\ UNCHANGED <<audits, events, call, issued>>

AuditRow(tx) ==
  [audit |-> tx.audit, rec |-> tx.rec, set |-> tx.res.set, at |-> tx.now,
   state |-> IF Rejected(tx) THEN "rejected" ELSE tx.res.state,
   label |-> tx.res.label]

EventRow(tx) == [id |-> Id(tx), key |-> Key(tx), at |-> tx.now, audit |-> tx.audit]

\* process takes the outcome, if it still waits for it, and goes on.
Answer(tx) ==
  call' = IF tx.by = None THEN call
          ELSE [call EXCEPT ![tx.by].step = "next",
                            ![tx.by].outcomes =
                              Append(@, [audit |-> tx.audit, verdict |-> tx.verdict])]

Commit(tx) ==
  /\ tx.stage = "commit"
  /\ txs' = txs \ {tx}
  /\ audits' = audits \cup {AuditRow(tx)}
  /\ events' = IF tx.verdict = "created" THEN events \cup {EventRow(tx)} ELSE events
  /\ Answer(tx)
  /\ UNCHANGED issued

\* Faulty variant: process goes on with the next result after an error.
Failed_Skipped(tx) ==
  call' = IF tx.by = None THEN call
          ELSE [call EXCEPT ![tx.by].step = "next",
                            ![tx.by].outcomes =
                              Append(@, [audit |-> tx.audit, verdict |-> "neither"])]

\* process returns the outcomes so far and the error.
Failed(tx) == call' = IF tx.by = None THEN call ELSE [call EXCEPT ![tx.by] = Idle]

\* A check or a key refuses the row, or the session ends.
Rollback(tx) ==
  /\ txs' = txs \ {tx}
  /\ Failed(tx)
  /\ UNCHANGED <<audits, events, issued>>

-----------------------------------------------------------------------------
AlertInit ==
  /\ audits = {}
  /\ events = {}
  /\ txs    = {}
  /\ call   = [c \in Callers |-> Idle]
  /\ issued = 0

AlertNext ==
  \/ \E c \in Callers : Process(c) \/ Return(c) \/ Record(c) \/ GiveUp(c)
  \/ \E tx \in txs :
       \/ TakeLock(tx) \/ LookUp(tx) \/ CheckCooldown(tx) \/ Insert(tx)
       \/ Commit(tx) \/ Rollback(tx)

AlertSpec == AlertInit /\ [][AlertNext]_alertVars

-----------------------------------------------------------------------------
(* Properties.                                                             *)

AlertTypeOK ==
  /\ issued \in 0 .. MaxAudits
  /\ \A tx \in txs :
       /\ tx.audit \in 1 .. issued
       /\ tx.by \in Callers \cup {None}
       /\ tx.rec \in Recordings /\ tx.res \in Results /\ tx.now \in Times
       /\ tx.stage \in {"lock", "exists", "cooldown", "insert", "commit"}
       /\ tx.verdict \in {"created", "suppressed", "neither"}
  /\ \A e, f \in events : e.id = f.id => e = f
  /\ \A c \in Callers : call[c].step = "wait" <=> \E tx \in txs : tx.by = c

\* record_alert_detection keeps the cooldown it is given in seconds: however many
\* callers detect the same at once, and in whatever order the times of their
\* detections arrive, two events of a key are that far apart.  Nothing is said of
\* the configured cooldown, which may be longer by the part of a second cut off:
\* two alerts may be visible within that one.
OneVisiblePerCooldown ==
  \A e, f \in events :
    e.key = f.key /\ e.audit # f.audit =>
      e.at >= f.at + Enforced \/ f.at >= e.at + Enforced

\* "suppression is a display decision, never a silent evidence loss": whatever
\* was detected has an event of its own identity, or one of its recording and
\* set in whose enforced cooldown it falls, whoever was told of it and however
\* late the transaction was committed.
AuditIsExplained ==
  \A a \in audits : a.state # "rejected" =>
    \E e \in events :
      \/ e.id = EventId(a, a.at)
      \/ e.key = DedupKey(a.rec, a) /\ a.at < e.at + Enforced

\* "Result reports what RecordDetection actually did, never more than it can
\* prove", and process stops "without fabricating success for the remainder":
\* the outcomes a caller holds are those of the first results of its batch, in
\* order, and each says what is in the tables.
OutcomesAreTrue ==
  \A c \in Callers : call[c].step # "idle" =>
    \A i \in 1 .. Len(call[c].outcomes) :
      LET out == call[c].outcomes[i]
          res == call[c].batch[i] IN
      /\ \E a \in audits :
           /\ a.audit = out.audit /\ a.rec = call[c].rec /\ a.at = call[c].now
           /\ a.set = res.set /\ a.label = res.label
      /\ out.verdict = "created" <=> \E e \in events : e.audit = out.audit
      /\ out.verdict = "suppressed" =>
           \E e \in events : e.key = DedupKey(call[c].rec, res)
      /\ out.verdict = "neither" /\ res.label # Unlabeled =>
           \E e \in events : e.id = EventId(res, call[c].now)

=============================================================================
