------------------------- MODULE AlertPipelineProofs -------------------------
(***************************************************************************)
(* What one visible alert for each key, and the audit that explains every  *)
(* detection, rest on, for any callers, batches, times and cooldown.       *)
(*                                                                         *)
(* The inductive invariant says what each stage of a transaction has       *)
(* learned and why it is still so when the transaction commits: the lock   *)
(* keeps the events of its key as they were read, a suppression and a      *)
(* duplicate only need events that are never removed, and an insertion     *)
(* holds its event_id alone.                                               *)
(*                                                                         *)
(* What callers are told rests on one thing more: the numbers of the audit *)
(* rows, by which a transaction, an event and an outcome are known to be   *)
(* one another's, and which nothing uses before its transaction ends.      *)
(***************************************************************************)
EXTENDS AlertPipeline, TLAPS

Verdicts == {"created", "suppressed", "neither"}
Stages   == {"lock", "exists", "cooldown", "insert", "commit"}

Tx == [audit : Nat, by : Callers \cup {None}, rec : Recordings, res : Results,
       now : Times, verdict : Verdicts, stage : Stages]

Call == {Idle} \cup
  [step : {"next", "wait"}, rec : Recordings, batch : Batches, now : Times,
   outcomes : Seq([audit : Nat, verdict : Verdicts])]

Typed ==
  /\ txs \subseteq Tx
  /\ call \in [Callers -> Call]
  /\ issued \in 0 .. MaxAudits
  /\ \A e \in events : e.at \in Nat

\* A transaction is known by the number of its audit row, and a caller waits
\* for one transaction.
Numbered ==
  /\ \A tx \in txs : tx.audit \in 1 .. issued
  /\ \A tx, other \in txs : tx.audit = other.audit => tx = other

Awaited ==
  /\ \A c \in Callers : call[c].step = "wait" <=> \E tx \in txs : tx.by = c
  /\ \A tx, other \in txs : tx.by = other.by /\ tx.by # None => tx = other

\* A refused result goes straight to its commit, and a verdict comes last.
Staged ==
  \A tx \in txs :
    /\ Rejected(tx) => tx.stage = "commit" /\ tx.verdict = "neither"
    /\ tx.verdict # "neither" => tx.stage = "commit"

Exclusive ==
  \A tx, other \in txs :
    Locking(tx) /\ Locking(other) /\ Key(tx) = Key(other) => tx = other

\* What the cooldown check found holds until the event is there.
Clear ==
  \A tx \in txs : tx.stage = "insert" \/ tx.verdict = "created" => ~Cooling(tx)

\* What the other verdicts rest on.
Founded ==
  \A tx \in txs :
    /\ tx.verdict = "suppressed" => Cooling(tx)
    /\ tx.stage = "commit" /\ tx.verdict = "neither" /\ ~Rejected(tx) =>
         \E e \in events : e.id = Id(tx)

\* The primary key of alert_events and those who are about to use it.
IdsUnique ==
  /\ \A e, f \in events : e.id = f.id => e = f
  /\ \A tx \in txs : tx.verdict = "created" =>
       /\ \A e \in events : e.id # Id(tx)
       /\ \A other \in txs : other.verdict = "created" /\ Id(other) = Id(tx) => other = tx

AlertInv ==
  /\ Typed /\ Numbered /\ Awaited /\ Staged /\ Exclusive /\ Clear /\ Founded
  /\ IdsUnique /\ OneVisiblePerCooldown /\ AuditIsExplained

-----------------------------------------------------------------------------
\* What is given to the database is a natural number of ticks.
LEMMA EnforcedIsNat == Enforced \in Nat
  BY AlertAssumption DEF Enforced

\* Advance replaces one transaction by one that differs in stage and verdict.
LEMMA Advanced ==
  ASSUME txs \subseteq Tx, NEW tx \in txs, NEW stage \in Stages, NEW verdict \in Verdicts,
         Advance(tx, stage, verdict)
  PROVE  \E y \in Tx :
           /\ txs' = (txs \ {tx}) \cup {y}
           /\ y.audit = tx.audit /\ y.by = tx.by /\ y.rec = tx.rec
           /\ y.res = tx.res /\ y.now = tx.now
           /\ y.stage = stage /\ y.verdict = verdict
           /\ Id(y) = Id(tx) /\ Key(y) = Key(tx) /\ (Rejected(y) <=> Rejected(tx))
<1>. DEFINE y == [tx EXCEPT !.stage = stage, !.verdict = verdict]
<1>1. tx \in Tx  OBVIOUS
<1>2. /\ y \in Tx
      /\ y.audit = tx.audit /\ y.by = tx.by /\ y.rec = tx.rec /\ y.res = tx.res
      /\ y.now = tx.now /\ y.stage = stage /\ y.verdict = verdict
  BY <1>1 DEF Tx
<1>3. Id(y) = Id(tx) /\ Key(y) = Key(tx) /\ (Rejected(y) <=> Rejected(tx))
  BY <1>2 DEF Id, Key, Rejected
<1>4. txs' = (txs \ {tx}) \cup {y}
  BY DEF Advance
<1>. QED  BY <1>2, <1>3, <1>4

\* An advance that learns nothing wrong keeps the invariant: what its stage and
\* verdict claim is to be shown of the transaction before it.
LEMMA AdvanceKeeps ==
  ASSUME AlertInv, NEW tx \in txs, NEW stage \in Stages \ {"lock"}, NEW verdict \in Verdicts,
         Advance(tx, stage, verdict),
         UNCHANGED <<audits, events, call, issued>>,
         ~Rejected(tx),
         Locking(tx) \/ LockFree(tx),
         verdict # "neither" => stage = "commit",
         stage = "insert" \/ verdict = "created" => ~Cooling(tx),
         verdict = "suppressed" => Cooling(tx),
         stage = "commit" /\ verdict = "neither" => \E e \in events : e.id = Id(tx),
         verdict = "created" => /\ \A e \in events : e.id # Id(tx)
                                /\ ~Pending(tx)
  PROVE  AlertInv'
<1>1. PICK y \in Tx :
        /\ txs' = (txs \ {tx}) \cup {y}
        /\ y.audit = tx.audit /\ y.by = tx.by /\ y.res = tx.res /\ y.now = tx.now
        /\ y.stage = stage /\ y.verdict = verdict
        /\ Id(y) = Id(tx) /\ Key(y) = Key(tx) /\ (Rejected(y) <=> Rejected(tx))
  BY Advanced DEF AlertInv, Typed
<1>2. Typed'
  BY <1>1 DEF AlertInv, Typed
<1>3. Numbered'
  BY <1>1 DEF AlertInv, Numbered
<1>4. Awaited'
  BY <1>1 DEF AlertInv, Awaited
<1>5. Staged'
  <2>1. ASSUME NEW x \in txs' PROVE /\ Rejected(x) => x.stage = "commit" /\ x.verdict = "neither"
                                    /\ x.verdict # "neither" => x.stage = "commit"
    BY <1>1 DEF AlertInv, Staged
  <2>. QED  BY <2>1 DEF Staged, Rejected
<1>6. Exclusive'
  <2>1. ASSUME NEW other \in txs, Locking(other), Key(other) = Key(tx) PROVE other = tx
    BY <2>1 DEF AlertInv, Exclusive, LockFree
  <2>2. ASSUME NEW x \in txs', NEW z \in txs', Locking(x), Locking(z), Key(x) = Key(z)
        PROVE  x = z
    <3>1. CASE x = y /\ z \in txs \ {tx}  BY <1>1, <2>1, <2>2, <3>1
    <3>2. CASE z = y /\ x \in txs \ {tx}  BY <1>1, <2>1, <2>2, <3>2
    <3>3. CASE x \in txs /\ z \in txs     BY <2>2, <3>3 DEF AlertInv, Exclusive
    <3>. QED  BY <1>1, <3>1, <3>2, <3>3
  <2>. QED  BY <2>2 DEF Exclusive, Locking, Key, Rejected
<1>7. ASSUME NEW x \in txs' PROVE x \in txs \/ (x = y /\ (Cooling(y) <=> Cooling(tx)))
  BY <1>1 DEF Cooling
<1>8. Clear'
  <2>1. ASSUME NEW x \in txs', x.stage = "insert" \/ x.verdict = "created" PROVE ~Cooling(x)
    BY <1>1, <1>7, <2>1 DEF AlertInv, Clear
  <2>. QED  BY <2>1 DEF Clear, Cooling, Key
<1>9. Founded'
  <2>1. ASSUME NEW x \in txs'
        PROVE  /\ x.verdict = "suppressed" => Cooling(x)
               /\ x.stage = "commit" /\ x.verdict = "neither" /\ ~Rejected(x) =>
                    \E e \in events : e.id = Id(x)
    BY <1>1, <1>7 DEF AlertInv, Founded
  <2>. QED  BY <2>1 DEF Founded, Cooling, Key, Id, Rejected
<1>10. IdsUnique'
  <2>1. ASSUME NEW x \in txs', x.verdict = "created"
        PROVE  /\ \A e \in events : e.id # Id(x)
               /\ \A z \in txs' : z.verdict = "created" /\ Id(z) = Id(x) => z = x
    BY <1>1, <2>1 DEF AlertInv, IdsUnique, Pending
  <2>. QED  BY <2>1 DEF AlertInv, IdsUnique, Id
<1>11. OneVisiblePerCooldown' /\ AuditIsExplained'
  BY DEF AlertInv, OneVisiblePerCooldown, AuditIsExplained
<1>. QED  BY <1>2, <1>3, <1>4, <1>5, <1>6, <1>8, <1>9, <1>10, <1>11 DEF AlertInv
-----------------------------------------------------------------------------
\* No row, no transaction and no caller at work: the invariant holds of the empty tables.
LEMMA InitKeeps == AlertInit => AlertInv
<1>. SUFFICES ASSUME AlertInit PROVE AlertInv  OBVIOUS
<1>1. Typed
  BY AlertAssumption DEF AlertInit, Typed, Call
<1>2. Numbered /\ Awaited /\ Staged /\ Exclusive /\ Clear /\ Founded /\ IdsUnique
  BY DEF AlertInit, Idle, Numbered, Awaited, Staged, Exclusive, Clear, Founded, IdsUnique
<1>3. OneVisiblePerCooldown /\ AuditIsExplained
  BY DEF AlertInit, OneVisiblePerCooldown, AuditIsExplained
<1>. QED  BY <1>1, <1>2, <1>3 DEF AlertInv

\* The tables and the transactions do not look at callers that are not waiting.
LEMMA CallerKeeps ==
  ASSUME AlertInv, UNCHANGED <<audits, events, txs, issued>>,
         NEW c \in Callers, NEW place \in Call, Here(c, place),
         call[c].step # "wait", place.step # "wait"
  PROVE  AlertInv'
<1>1. Typed'
  BY DEF AlertInv, Typed, Here
<1>2. Awaited'
  BY DEF AlertInv, Typed, Awaited, Here
<1>3. Numbered' /\ Staged' /\ Exclusive' /\ IdsUnique'
  BY DEF AlertInv, Numbered, Staged, Rejected, Exclusive, Locking, Key, IdsUnique, Id
<1>4. Clear' /\ Founded'
  BY DEF AlertInv, Clear, Founded, Cooling, Key, Id, Rejected
<1>5. OneVisiblePerCooldown' /\ AuditIsExplained'
  BY DEF AlertInv, OneVisiblePerCooldown, AuditIsExplained
<1>. QED  BY <1>1, <1>2, <1>3, <1>4, <1>5 DEF AlertInv

\* A caller that begins a batch has not opened a transaction yet.
LEMMA ProcessKeeps == ASSUME AlertInv, NEW c \in Callers, Process(c) PROVE AlertInv'
<1>1. PICK rec \in Recordings, batch \in Batches, now \in Times :
        Here(c, [step |-> "next", rec |-> rec, batch |-> batch, now |-> now, outcomes |-> <<>>])
  BY DEF Process
<1>2. [step |-> "next", rec |-> rec, batch |-> batch, now |-> now, outcomes |-> <<>>] \in Call
  BY DEF Call
<1>. QED  BY <1>1, <1>2, CallerKeeps DEF Process

\* A caller that is answered has no transaction left that waits for it.
LEMMA ReturnKeeps == ASSUME AlertInv, NEW c \in Callers, Return(c) PROVE AlertInv'
  BY CallerKeeps DEF Return, Idle, Call

\* The transaction a caller opens is the only one it waits for.
LEMMA RecordKeeps == ASSUME AlertInv, NEW c \in Callers, Record(c) PROVE AlertInv'
<1>. DEFINE res == Turn(c)
            y == [audit |-> issued + 1, by |-> c, rec |-> call[c].rec, res |-> res,
                  now |-> call[c].now, verdict |-> "neither",
                  stage |-> IF res.label = Unlabeled THEN "commit" ELSE "lock"]
            place == [call[c] EXCEPT !.step = "wait"]
<1>1. /\ call[c].step = "next" /\ call[c] \in Call
      /\ call[c].rec \in Recordings /\ call[c].now \in Times
      /\ call[c].batch \in Seq(Results) /\ Len(call[c].outcomes) \in Nat
  <2>1. call[c].step = "next" /\ call[c] \in Call
    BY DEF AlertInv, Typed, Record
  <2>2. call[c] \in [step : {"next", "wait"}, rec : Recordings, batch : Batches, now : Times,
                     outcomes : Seq([audit : Nat, verdict : Verdicts])]
    BY <2>1 DEF Call, Idle
  <2>3. /\ call[c].rec \in Recordings /\ call[c].now \in Times /\ call[c].batch \in Batches
        /\ call[c].outcomes \in Seq([audit : Nat, verdict : Verdicts])
    BY <2>2
  <2>4. Len(call[c].outcomes) \in Nat
    BY <2>3
  <2>. QED  BY <2>1, <2>3, <2>4, AlertAssumption
<1>2. res \in Results
  BY <1>1 DEF Record, Left, Turn
<1>3. /\ y \in Tx /\ y.audit = issued + 1 /\ y.by = c /\ y.verdict = "neither"
      /\ (Rejected(y) <=> y.stage = "commit") /\ y.stage \in {"lock", "commit"}
      /\ ~Locking(y)
  BY <1>1, <1>2 DEF Tx, AlertInv, Typed, Stages, Verdicts, Rejected, Locking
<1>4. place \in Call /\ place.step = "wait"
  BY <1>1 DEF Call, Idle
<1>5. /\ txs' = txs \cup {y} /\ issued' = issued + 1 /\ issued < MaxAudits
      /\ call' = [call EXCEPT ![c] = place]
      /\ UNCHANGED <<audits, events>>
  BY DEF Record, Here
<1>. HIDE DEF y, place, res
<1>6. Typed'
  BY <1>3, <1>4, <1>5, AlertAssumption DEF AlertInv, Typed
<1>7. Numbered'
  <2>1. issued \in Nat /\ \A tx \in txs : tx.audit \in 1 .. issued
    BY DEF AlertInv, Typed, Numbered
  <2>. QED  BY <1>3, <1>5, <2>1 DEF AlertInv, Numbered
<1>8. Awaited'
  <2>1. \A tx \in txs : tx.by # c
    BY <1>1 DEF AlertInv, Awaited
  <2>2. c # None
    BY AlertAssumption
  <2>3. \A d \in Callers : call'[d] = IF d = c THEN place ELSE call[d]
    BY <1>5 DEF AlertInv, Typed
  <2>. QED  BY <1>3, <1>4, <1>5, <2>1, <2>2, <2>3 DEF AlertInv, Awaited
<1>9. Staged' /\ Exclusive'
  <2>1. Staged'
    BY <1>3, <1>5 DEF AlertInv, Staged, Rejected
  <2>2. Exclusive'
    BY <1>3, <1>5 DEF AlertInv, Exclusive, Locking, Key, Rejected
  <2>. QED  BY <2>1, <2>2
<1>10. Clear' /\ Founded' /\ IdsUnique'
  <2>1. Clear'
    BY <1>3, <1>5 DEF AlertInv, Clear, Cooling, Key
  <2>2. Founded'
    BY <1>3, <1>5 DEF AlertInv, Founded, Cooling, Key, Id, Rejected
  <2>3. IdsUnique'
    BY <1>3, <1>5 DEF AlertInv, IdsUnique, Id
  <2>. QED  BY <2>1, <2>2, <2>3
<1>11. OneVisiblePerCooldown' /\ AuditIsExplained'
  BY <1>5 DEF AlertInv, OneVisiblePerCooldown, AuditIsExplained
<1>. QED  BY <1>6, <1>7, <1>8, <1>9, <1>10, <1>11 DEF AlertInv

\* A caller that gives up leaves its transaction running, unawaited.
LEMMA GiveUpKeeps == ASSUME AlertInv, NEW c \in Callers, GiveUp(c) PROVE AlertInv'
<1>1. PICK tx \in txs : tx.by = c
  BY DEF AlertInv, Awaited, GiveUp
<1>2. /\ tx \in Tx /\ c # None
      /\ \A other \in txs : other.by = c => other = tx
  BY <1>1, AlertAssumption DEF AlertInv, Typed, Awaited
<1>. DEFINE y == [tx EXCEPT !.by = None]
<1>3. /\ y \in Tx /\ y.audit = tx.audit /\ y.by = None /\ y.stage = tx.stage
      /\ y.verdict = tx.verdict
      /\ Id(y) = Id(tx) /\ Key(y) = Key(tx) /\ (Rejected(y) <=> Rejected(tx))
      /\ y.now = tx.now /\ (Cooling(y) <=> Cooling(tx)) /\ (Locking(y) <=> Locking(tx))
  BY <1>2 DEF Tx, Id, Key, Rejected, Cooling, Locking
<1>4. txs' = (txs \ {tx}) \cup {y}
  BY <1>1, <1>2 DEF GiveUp
<1>. HIDE DEF y
<1>5. /\ UNCHANGED <<audits, events, issued>>
      /\ call[c].step = "wait" /\ call' = [call EXCEPT ![c] = Idle] /\ Idle.step = "idle"
  BY DEF GiveUp, Here, Idle
<1>6. Typed'
  BY <1>3, <1>4, <1>5 DEF AlertInv, Typed, Call
<1>7. Numbered'
  BY <1>3, <1>4, <1>5 DEF AlertInv, Numbered
<1>8. Awaited'
  <2>1. \A d \in Callers : call'[d] = IF d = c THEN Idle ELSE call[d]
    BY <1>5 DEF AlertInv, Typed
  <2>2. \A d \in Callers : (\E x \in txs' : x.by = d) <=> d # c /\ \E x \in txs : x.by = d
    BY <1>1, <1>2, <1>3, <1>4, AlertAssumption
  <2>. QED  BY <1>2, <1>3, <1>4, <1>5, <2>1, <2>2 DEF AlertInv, Awaited
<1>9. Staged' /\ Exclusive'
  <2>1. Staged'
    BY <1>3, <1>4 DEF AlertInv, Staged, Rejected
  <2>2. Exclusive'
    BY <1>3, <1>4 DEF AlertInv, Exclusive, Locking, Key, Rejected
  <2>. QED  BY <2>1, <2>2
<1>10. Clear' /\ Founded' /\ IdsUnique'
  <2>1. Clear'
    BY <1>3, <1>4, <1>5 DEF AlertInv, Clear, Cooling, Key
  <2>2. Founded'
    BY <1>3, <1>4, <1>5 DEF AlertInv, Founded, Cooling, Key, Id, Rejected
  <2>3. IdsUnique'
    BY <1>3, <1>4, <1>5 DEF AlertInv, IdsUnique, Id
  <2>. QED  BY <2>1, <2>2, <2>3
<1>11. OneVisiblePerCooldown' /\ AuditIsExplained'
  BY <1>5 DEF AlertInv, OneVisiblePerCooldown, AuditIsExplained
<1>. QED  BY <1>6, <1>7, <1>8, <1>9, <1>10, <1>11 DEF AlertInv

\* The four steps that read and decide.
LEMMA DecisionKeeps ==
  ASSUME AlertInv, NEW tx \in txs,
         TakeLock(tx) \/ LookUp(tx) \/ CheckCooldown(tx) \/ Insert(tx)
  PROVE  AlertInv'
<1>1. ~Rejected(tx) /\ tx.verdict = "neither" /\ UNCHANGED <<audits, events, call, issued>>
  BY DEF AlertInv, Staged, TakeLock, LookUp, CheckCooldown, Insert
<1>2. CASE TakeLock(tx)
  BY <1>1, <1>2, AdvanceKeeps DEF TakeLock, Stages, Verdicts
<1>3. CASE LookUp(tx)
  <2>1. Locking(tx)
    BY <1>1, <1>3 DEF LookUp, Locking
  <2>2. CASE \E e \in events : e.id = Id(tx)
    BY <1>1, <1>3, <2>1, <2>2, AdvanceKeeps DEF LookUp, Stages, Verdicts
  <2>3. CASE ~\E e \in events : e.id = Id(tx)
    BY <1>1, <1>3, <2>1, <2>3, AdvanceKeeps DEF LookUp, Stages, Verdicts
  <2>. QED  BY <2>2, <2>3
<1>4. CASE CheckCooldown(tx)
  <2>1. Locking(tx)
    BY <1>1, <1>4 DEF CheckCooldown, Locking
  <2>2. CASE Cooling(tx)
    BY <1>1, <1>4, <2>1, <2>2, AdvanceKeeps DEF CheckCooldown, Stages, Verdicts
  <2>3. CASE ~Cooling(tx)
    BY <1>1, <1>4, <2>1, <2>3, AdvanceKeeps DEF CheckCooldown, Stages, Verdicts
  <2>. QED  BY <2>2, <2>3
<1>5. CASE Insert(tx)
  <2>1. Locking(tx) /\ ~Cooling(tx) /\ ~Pending(tx)
    BY <1>1, <1>5 DEF Insert, Locking, AlertInv, Clear
  <2>2. CASE \E e \in events : e.id = Id(tx)
    BY <1>1, <1>5, <2>1, <2>2, AdvanceKeeps DEF Insert, Inserted, Stages, Verdicts
  <2>3. CASE ~\E e \in events : e.id = Id(tx)
    BY <1>1, <1>5, <2>1, <2>3, AdvanceKeeps DEF Insert, Inserted, Stages, Verdicts
  <2>. QED  BY <2>2, <2>3
<1>. QED  BY <1>2, <1>3, <1>4, <1>5

\* The end of a transaction, whatever it tells the caller that waits for it.
LEMMA EndKeepsCallers ==
  ASSUME AlertInv, NEW tx \in txs, txs' = txs \ {tx}, UNCHANGED issued,
         \/ Failed(tx)
         \/ Answer(tx)
  PROVE  /\ call' \in [Callers -> Call]
         /\ Awaited'
<1>1. tx \in Tx /\ tx.by \in Callers \cup {None}
  BY DEF AlertInv, Typed, Tx
<1>2. CASE tx.by = None
  <2>1. call' = call
    BY <1>2 DEF Failed, Answer
  <2>2. \A c \in Callers : c # None
    BY AlertAssumption
  <2>. QED  BY <1>2, <2>1, <2>2 DEF AlertInv, Typed, Awaited
<1>3. CASE tx.by \in Callers
  <2>1. tx.by # None /\ call[tx.by].step = "wait"
    BY <1>3, AlertAssumption DEF AlertInv, Awaited
  <2>2. \E place \in Call : place.step # "wait" /\ call' = [call EXCEPT ![tx.by] = place]
    <3>1. CASE Failed(tx)
      BY <2>1, <3>1 DEF Failed, Idle, Call
    <3>2. CASE Answer(tx)
      <4>. DEFINE old   == call[tx.by]
                  out   == [audit |-> tx.audit, verdict |-> tx.verdict]
                  place == [[old EXCEPT !.step = "next"] EXCEPT !.outcomes = Append(@, out)]
      <4>1. old \in [step : {"next", "wait"}, rec : Recordings, batch : Batches, now : Times,
                     outcomes : Seq([audit : Nat, verdict : Verdicts])]
        <5>1. old \in Call /\ old.step = "wait"
          BY <1>3, <2>1 DEF AlertInv, Typed
        <5>. QED  BY <5>1 DEF Call, Idle
      <4>2. out \in [audit : Nat, verdict : Verdicts]
        BY <1>1 DEF Tx
      <4>3. Append(old.outcomes, out) \in Seq([audit : Nat, verdict : Verdicts])
        BY <4>1, <4>2
      <4>4. place \in Call /\ place.step = "next"
        BY <4>1, <4>3 DEF Call
      <4>5. call' = [call EXCEPT ![tx.by] = place]
        BY <1>3, <2>1, <3>2 DEF Answer, AlertInv, Typed
      <4>. QED  BY <4>4, <4>5
    <3>. QED  BY <3>1, <3>2
  <2>3. PICK place \in Call : place.step # "wait" /\ call' = [call EXCEPT ![tx.by] = place]
    BY <2>2
  <2>4. \A c \in Callers : call'[c] = IF c = tx.by THEN place ELSE call[c]
    BY <2>3 DEF AlertInv, Typed
  <2>5. \A c \in Callers : c # None
    BY AlertAssumption
  <2>6. \A c \in Callers : (\E x \in txs' : x.by = c) <=> c # tx.by /\ \E x \in txs : x.by = c
    BY <2>1, <2>5 DEF AlertInv, Awaited
  <2>. QED  BY <1>3, <2>1, <2>3, <2>4, <2>5, <2>6 DEF AlertInv, Typed, Awaited
<1>. QED  BY <1>1, <1>2, <1>3

\* A transaction that fails has written nothing, and a caller that waits is told.
LEMMA RollbackKeeps == ASSUME AlertInv, NEW tx \in txs, Rollback(tx) PROVE AlertInv'
<1>1. txs' = txs \ {tx} /\ UNCHANGED <<audits, events, issued>>
  BY DEF Rollback
<1>2. call' \in [Callers -> Call] /\ Awaited'
  BY <1>1, EndKeepsCallers DEF Rollback
<1>3. Typed' /\ Numbered' /\ Staged' /\ Exclusive'
  BY <1>1, <1>2 DEF AlertInv, Typed, Numbered, Staged, Rejected, Exclusive, Locking, Key
<1>4. Clear' /\ Founded' /\ IdsUnique'
  BY <1>1 DEF AlertInv, Clear, Founded, Cooling, Key, Id, Rejected, IdsUnique
<1>5. OneVisiblePerCooldown' /\ AuditIsExplained'
  BY <1>1 DEF AlertInv, OneVisiblePerCooldown, AuditIsExplained
<1>. QED  BY <1>1, <1>2, <1>3, <1>4, <1>5 DEF AlertInv

\* Event, audit row and answer become visible together.
LEMMA CommitKeeps == ASSUME AlertInv, NEW tx \in txs, Commit(tx) PROVE AlertInv'
<1>. DEFINE row == EventRow(tx)
<1>1. /\ txs' = txs \ {tx} /\ UNCHANGED issued /\ tx.stage = "commit"
      /\ audits' = audits \cup {AuditRow(tx)}
      /\ events' = IF tx.verdict = "created" THEN events \cup {row} ELSE events
  BY DEF Commit
<1>2. call' \in [Callers -> Call] /\ Awaited'
  BY <1>1, EndKeepsCallers DEF Commit
<1>3. /\ tx \in Tx /\ tx.now \in Nat /\ tx.verdict \in Verdicts
      /\ row.at = tx.now /\ row.id = Id(tx) /\ row.key = Key(tx)
  BY AlertAssumption DEF AlertInv, Typed, Tx, EventRow
<1>. HIDE DEF row
<1>4. tx.verdict = "created" => Locking(tx)
  BY <1>1 DEF AlertInv, Staged, Locking
<1>5. Typed'
  BY <1>1, <1>2, <1>3 DEF AlertInv, Typed
<1>6. Numbered' /\ Staged' /\ Exclusive'
  BY <1>1 DEF AlertInv, Numbered, Staged, Rejected, Exclusive, Locking, Key
<1>7. Clear'
  <2>1. ASSUME NEW x \in txs', x.stage = "insert" \/ x.verdict = "created",
               NEW e \in events', e.key = Key(x)
        PROVE  ~(x.now < e.at + Enforced)
    <3>1. x \in txs /\ x # tx /\ Locking(x)
      BY <1>1, <2>1 DEF AlertInv, Staged, Locking
    <3>2. CASE e \in events
      BY <2>1, <3>1, <3>2 DEF AlertInv, Clear, Cooling
    <3>3. CASE e = row /\ tx.verdict = "created"
      BY <1>3, <1>4, <2>1, <3>1, <3>3 DEF AlertInv, Exclusive
    <3>. QED  BY <1>1, <3>2, <3>3
  <2>. QED  BY <2>1 DEF Clear, Cooling, Key
<1>8. Founded'
  <2>1. events \subseteq events'
    BY <1>1
  <2>. QED  BY <1>1, <2>1 DEF AlertInv, Founded, Cooling, Key, Id, Rejected
<1>9. IdsUnique'
  <2>1. ASSUME NEW x \in txs', x.verdict = "created"
        PROVE  \A e \in events' : e.id # Id(x)
    BY <1>1, <1>3, <2>1 DEF AlertInv, IdsUnique
  <2>2. \A e, f \in events' : e.id = f.id => e = f
    BY <1>1, <1>3 DEF AlertInv, IdsUnique
  <2>3. ASSUME NEW x \in txs', x.verdict = "created"
        PROVE  \A z \in txs' : z.verdict = "created" /\ Id(z) = Id(x) => z = x
    BY <1>1, <2>3 DEF AlertInv, IdsUnique
  <2>. QED  BY <2>1, <2>2, <2>3 DEF IdsUnique, Id
<1>10. OneVisiblePerCooldown'
  <2>1. ASSUME NEW e \in events, tx.verdict = "created", e.key = row.key
        PROVE  row.at >= e.at + Enforced
    BY <1>3, <2>1, EnforcedIsNat DEF AlertInv, Typed, Clear, Cooling
  <2>2. ASSUME NEW e \in events', NEW f \in events', e.key = f.key, e.audit # f.audit
        PROVE  e.at >= f.at + Enforced \/ f.at >= e.at + Enforced
    <3>1. CASE e \in events /\ f \in events
      BY <2>2, <3>1 DEF AlertInv, OneVisiblePerCooldown
    <3>2. CASE e = row /\ f \in events /\ tx.verdict = "created"
      BY <2>1, <2>2, <3>2
    <3>3. CASE f = row /\ e \in events /\ tx.verdict = "created"
      BY <2>1, <2>2, <3>3
    <3>. QED  BY <1>1, <2>2, <3>1, <3>2, <3>3
  <2>. QED  BY <2>2 DEF OneVisiblePerCooldown, Enforced
<1>11. AuditIsExplained'
  <2>. DEFINE a == AuditRow(tx)
  <2>1. /\ a.at = tx.now /\ (a.state # "rejected" => ~Rejected(tx))
        /\ (~Rejected(tx) => EventId(a, a.at) = Id(tx)) /\ DedupKey(a.rec, a) = Key(tx)
    BY DEF AuditRow, EventId, Id, DedupKey, Key
  <2>2. a.state # "rejected" =>
          \E e \in events' :
            \/ e.id = EventId(a, a.at)
            \/ e.key = DedupKey(a.rec, a) /\ a.at < e.at + Enforced
    <3>1. CASE tx.verdict = "created"
      BY <1>1, <1>3, <2>1, <3>1
    <3>2. CASE tx.verdict = "suppressed"
      BY <1>1, <2>1, <3>2 DEF AlertInv, Founded, Cooling
    <3>3. CASE tx.verdict = "neither"
      BY <1>1, <2>1, <3>3 DEF AlertInv, Founded
    <3>. QED  BY <1>3, <3>1, <3>2, <3>3 DEF Verdicts
  <2>. HIDE DEF a
  <2>3. ASSUME NEW b \in audits, b.state # "rejected"
        PROVE  \E e \in events' :
            \/ e.id = EventId(b, b.at)
            \/ e.key = DedupKey(b.rec, b) /\ b.at < e.at + Enforced
    BY <1>1, <2>3 DEF AlertInv, AuditIsExplained
  <2>4. audits' = audits \cup {a}
    BY <1>1 DEF a
  <2>. QED  BY <2>2, <2>3, <2>4 DEF AuditIsExplained, EventId, DedupKey, Enforced
<1>. QED  BY <1>2, <1>5, <1>6, <1>7, <1>8, <1>9, <1>10, <1>11 DEF AlertInv

-----------------------------------------------------------------------------
\* AlertInv is inductive.
LEMMA NextKeeps == AlertInv /\ [AlertNext]_alertVars => AlertInv'
<1>. SUFFICES ASSUME AlertInv, [AlertNext]_alertVars PROVE AlertInv'  OBVIOUS
<1>1. CASE \E c \in Callers : Process(c) \/ Return(c) \/ Record(c) \/ GiveUp(c)
  BY <1>1, ProcessKeeps, ReturnKeeps, RecordKeeps, GiveUpKeeps
<1>2. CASE \E tx \in txs : TakeLock(tx) \/ LookUp(tx) \/ CheckCooldown(tx) \/ Insert(tx)
  BY <1>2, DecisionKeeps
<1>3. CASE \E tx \in txs : Commit(tx) \/ Rollback(tx)
  BY <1>3, CommitKeeps, RollbackKeeps
<1>4. CASE UNCHANGED alertVars
  <2>1. Typed' /\ Numbered' /\ Awaited' /\ Staged' /\ Exclusive'
    BY <1>4 DEF alertVars, AlertInv, Typed, Numbered, Awaited, Staged, Rejected,
                Exclusive, Locking, Key
  <2>2. Clear' /\ Founded' /\ IdsUnique'
    BY <1>4 DEF alertVars, AlertInv, Clear, Founded, Cooling, Key, Id, Rejected, IdsUnique
  <2>3. OneVisiblePerCooldown' /\ AuditIsExplained'
    BY <1>4 DEF alertVars, AlertInv, OneVisiblePerCooldown, AuditIsExplained
  <2>. QED  BY <2>1, <2>2, <2>3 DEF AlertInv
<1>. QED  BY <1>1, <1>2, <1>3, <1>4 DEF AlertNext

\* The inductive invariant of the alert tables and of the calls under way.
THEOREM AlertInvariant == AlertSpec => []AlertInv
  BY InitKeeps, NextKeeps, PTL DEF AlertSpec

\* Everything keeps its type, the primary key of alert_events is never
\* violated, and a caller waits for exactly one transaction.
THEOREM AlertTypeCorrect == AlertSpec => []AlertTypeOK
<1>1. AlertInv => AlertTypeOK
  BY AlertAssumption DEF AlertInv, Typed, Numbered, Awaited, IdsUnique, AlertTypeOK,
                         Tx, Stages, Verdicts
<1>. QED  BY <1>1, AlertInvariant, PTL

\* Two visible alerts of a dedup_key are as far apart as the whole seconds of the
\* cooldown that the database is given, for any number of callers and any order
\* of their times.
THEOREM OneVisibleAlert == AlertSpec => []OneVisiblePerCooldown
<1>1. AlertInv => OneVisiblePerCooldown
  BY DEF AlertInv
<1>. QED  BY <1>1, AlertInvariant, PTL

\* No detection is lost: each audit row has the event it made or the one that
\* stands for it.
THEOREM NoDetectionIsLost == AlertSpec => []AuditIsExplained
<1>1. AlertInv => AuditIsExplained
  BY DEF AlertInv
<1>. QED  BY <1>1, AlertInvariant, PTL

-----------------------------------------------------------------------------
(* What a caller is told.                                                  *)

\* A transaction that is awaited works on the result its caller has come to.
Asked ==
  \A tx \in txs : tx.by # None =>
    /\ tx.rec = call[tx.by].rec /\ tx.now = call[tx.by].now
    /\ tx.res = Turn(tx.by)

\* The number of a transaction under way is on no event, and in the outcomes of
\* no caller.
Unspent(n) == n \in 1 .. issued /\ \A tx \in txs : tx.audit # n

Spent ==
  /\ \A e \in events : Unspent(e.audit)
  /\ \A c \in Callers : call[c].step # "idle" =>
       \A i \in 1 .. Len(call[c].outcomes) : Unspent(call[c].outcomes[i].audit)

TruthInv == Asked /\ Spent /\ OutcomesAreTrue

\* What OutcomesAreTrue says of one outcome.
Truthful(c, i) ==
  LET out == call[c].outcomes[i]
      res == call[c].batch[i] IN
  /\ \E a \in audits :
       /\ a.audit = out.audit /\ a.rec = call[c].rec /\ a.at = call[c].now
       /\ a.set = res.set /\ a.label = res.label
  /\ out.verdict = "created" <=> \E e \in events : e.audit = out.audit
  /\ out.verdict = "suppressed" =>
       \E e \in events : e.key = DedupKey(call[c].rec, res)
  /\ out.verdict = "neither" /\ res.label # Unlabeled =>
       \E e \in events : e.id = EventId(res, call[c].now)

\* Told one outcome at a time.
LEMMA OneByOne ==
  OutcomesAreTrue <=>
    \A c \in Callers : call[c].step # "idle" =>
      \A i \in 1 .. Len(call[c].outcomes) : Truthful(c, i)
  BY DEF OutcomesAreTrue, Truthful

\* What c holds is what it held, or nothing.
Holds(c) ==
  call'[c].step # "idle" =>
    \/ call'[c].outcomes = <<>>
    \/ /\ call[c].step # "idle"
       /\ call'[c].rec = call[c].rec /\ call'[c].now = call[c].now
       /\ call'[c].batch = call[c].batch /\ call'[c].outcomes = call[c].outcomes

\* As long as the tables and the outcomes are left alone, what they say of each
\* other stays.
LEMMA QuietKeeps ==
  ASSUME AlertInv, TruthInv, UNCHANGED <<audits, events>>,
         issued' \in {issued, issued + 1},
         \A tx \in txs' : tx.audit = issued + 1 \/ \E x \in txs : x.audit = tx.audit,
         \A c \in Callers : Holds(c)
  PROVE  Spent' /\ OutcomesAreTrue'
<1>1. ASSUME NEW c \in Callers, (call[c].step # "idle")',
             NEW i \in 1 .. Len(call'[c].outcomes)
      PROVE  /\ call[c].step # "idle" /\ i \in 1 .. Len(call[c].outcomes)
             /\ call'[c].rec = call[c].rec /\ call'[c].now = call[c].now
             /\ call'[c].batch = call[c].batch /\ call'[c].outcomes = call[c].outcomes
  <2>1. CASE call'[c].outcomes = <<>>
    BY <1>1, <2>1
  <2>2. CASE call'[c].outcomes # <<>>
    BY <1>1, <2>2 DEF Holds
  <2>. QED  BY <2>1, <2>2
<1>2. ASSUME NEW n, Unspent(n) PROVE Unspent(n)'
  BY <1>2 DEF AlertInv, Typed, Unspent
<1>3. ASSUME NEW c \in Callers, (call[c].step # "idle")',
             NEW i \in 1 .. Len(call'[c].outcomes)
      PROVE  Unspent(call[c].outcomes[i].audit)' /\ Truthful(c, i)'
  <2>1. Unspent(call[c].outcomes[i].audit) /\ Truthful(c, i)
    BY <1>1, <1>3, OneByOne DEF TruthInv, Spent
  <2>2. Unspent(call[c].outcomes[i].audit)'
    <3>. DEFINE n == call[c].outcomes[i].audit
    <3>1. n \in 1 .. issued /\ \A tx \in txs : tx.audit # n
      BY <2>1 DEF Unspent
    <3>2. n' = n
      BY <1>1, <1>3
    <3>. HIDE DEF n
    <3>3. n \in 1 .. issued' /\ \A tx \in txs' : tx.audit # n
      BY <3>1 DEF AlertInv, Typed
    <3>. QED  BY <3>2, <3>3 DEF Unspent, n
  <2>3. Truthful(c, i)'
    BY <1>1, <1>3, <2>1 DEF Truthful, EventId, DedupKey
  <2>. QED  BY <2>2, <2>3
<1>4. \A e \in events' : e.audit \in 1 .. issued' /\ \A tx \in txs' : tx.audit # e.audit
  <2>1. \A e \in events : Unspent(e.audit)
    BY DEF TruthInv, Spent
  <2>. QED  BY <2>1 DEF AlertInv, Typed, Unspent
<1>5. Spent'
  BY <1>3, <1>4 DEF Spent, Unspent
<1>6. OutcomesAreTrue'
  BY <1>3 DEF OutcomesAreTrue, Truthful
<1>. QED  BY <1>5, <1>6

\* A caller that begins, ends or asks for its next result.
LEMMA CallersKeepTruth ==
  ASSUME AlertInv, TruthInv, NEW c \in Callers,
         Process(c) \/ Return(c) \/ Record(c) \/ GiveUp(c)
  PROVE  TruthInv'
<1>1. CASE Process(c) \/ Return(c)
  <2>1. PICK place :
          /\ call' = [call EXCEPT ![c] = place]
          /\ place.step # "idle" => place.outcomes = <<>>
    <3>1. CASE Process(c)
      <4>1. PICK rec \in Recordings, batch \in Batches, now \in Times :
              Here(c, [step |-> "next", rec |-> rec, batch |-> batch, now |-> now,
                       outcomes |-> <<>>])
        BY <3>1 DEF Process
      <4>. DEFINE place == [step |-> "next", rec |-> rec, batch |-> batch, now |-> now,
                            outcomes |-> <<>>]
      <4>2. call' = [call EXCEPT ![c] = place] /\ place.outcomes = <<>>
        BY <4>1 DEF Here
      <4>. QED  BY <4>2
    <3>2. CASE Return(c)
      <4>1. call' = [call EXCEPT ![c] = Idle] /\ Idle.step = "idle"
        BY <3>2 DEF Return, Here, Idle
      <4>. QED  BY <4>1
    <3>. QED  BY <1>1, <3>1, <3>2
  <2>2. UNCHANGED <<audits, events, txs, issued>> /\ call[c].step # "wait"
    BY <1>1 DEF Process, Return
  <2>3. \A d \in Callers : call'[d] = IF d = c THEN place ELSE call[d]
    BY <2>1 DEF AlertInv, Typed
  <2>4. \A tx \in txs : tx.by # c
    BY <2>2 DEF AlertInv, Awaited
  <2>5. \A tx \in txs : tx.by \in Callers \cup {None}
    BY DEF AlertInv, Typed, Tx
  <2>6. Asked'
    BY <2>2, <2>3, <2>4, <2>5 DEF TruthInv, Asked, Turn
  <2>7. \A d \in Callers : Holds(d)
    BY <2>1, <2>3 DEF Holds
  <2>. QED  BY <2>2, <2>6, <2>7, QuietKeeps DEF TruthInv
<1>2. CASE Record(c)
  <2>. DEFINE old == call[c]
              place == [old EXCEPT !.step = "wait"]
  <2>1. /\ old.step = "next" /\ Left(c)
        /\ call' = [call EXCEPT ![c] = place]
        /\ UNCHANGED <<audits, events>> /\ issued' = issued + 1
    BY <1>2 DEF Record, Here
  <2>2. PICK y :
          /\ txs' = txs \cup {y}
          /\ y.audit = issued + 1 /\ y.by = c /\ y.rec = old.rec /\ y.now = old.now
          /\ y.res = Turn(c)
    <3>. DEFINE y == [audit |-> issued + 1, by |-> c, rec |-> old.rec, res |-> Turn(c),
                      now |-> old.now, verdict |-> "neither",
                      stage |-> IF Turn(c).label = Unlabeled THEN "commit" ELSE "lock"]
    <3>1. txs' = txs \cup {y}
      BY <1>2 DEF Record
    <3>2. /\ y.audit = issued + 1 /\ y.by = c /\ y.rec = old.rec /\ y.now = old.now
          /\ y.res = Turn(c)
      OBVIOUS
    <3>. QED  BY <3>1, <3>2
  <2>3. old \in [step : {"next", "wait"}, rec : Recordings, batch : Batches, now : Times,
                 outcomes : Seq([audit : Nat, verdict : Verdicts])]
    <3>1. old \in Call
      BY DEF AlertInv, Typed
    <3>. QED  BY <2>1, <3>1 DEF Call, Idle
  <2>4. /\ place.rec = old.rec /\ place.now = old.now /\ place.batch = old.batch
        /\ place.outcomes = old.outcomes
    BY <2>3
  <2>. HIDE DEF place
  <2>5. \A d \in Callers : call'[d] = IF d = c THEN place ELSE call[d]
    BY <2>1 DEF AlertInv, Typed
  <2>6. \A tx \in txs : tx.by # c /\ tx.by \in Callers \cup {None}
    BY <2>1 DEF AlertInv, Awaited, Typed, Tx
  <2>7. ASSUME NEW tx \in txs', tx.by # None
        PROVE  tx.rec = call'[tx.by].rec /\ tx.now = call'[tx.by].now /\ tx.res = Turn(tx.by)'
    <3>1. CASE tx \in txs
      BY <2>5, <2>6, <2>7, <3>1 DEF TruthInv, Asked, Turn
    <3>2. CASE tx = y
      BY <2>2, <2>4, <2>5, <3>2 DEF Turn
    <3>. QED  BY <2>2, <3>1, <3>2
  <2>8. \A d \in Callers : Holds(d)
    BY <2>1, <2>4, <2>5 DEF Holds
  <2>9. \A tx \in txs' : tx.audit = issued + 1 \/ \E x \in txs : x.audit = tx.audit
    BY <2>2
  <2>10. Spent' /\ OutcomesAreTrue'
    BY <2>1, <2>8, <2>9, QuietKeeps
  <2>. QED  BY <2>7, <2>10 DEF TruthInv, Asked
<1>3. CASE GiveUp(c)
  <2>1. /\ txs' = {IF tx.by = c THEN [tx EXCEPT !.by = None] ELSE tx : tx \in txs}
        /\ call' = [call EXCEPT ![c] = Idle] /\ UNCHANGED <<audits, events, issued>>
    BY <1>3 DEF GiveUp, Here
  <2>2. \A tx \in txs' : \E x \in txs :
          x.audit = tx.audit /\ (tx.by # None => tx = x /\ x.by # c)
    <3>1. \A x \in txs : [x EXCEPT !.by = None].audit = x.audit
                         /\ [x EXCEPT !.by = None].by = None
      BY DEF AlertInv, Typed, Tx
    <3>. QED  BY <2>1, <3>1
  <2>3. \A d \in Callers : call'[d] = IF d = c THEN Idle ELSE call[d]
    BY <2>1 DEF AlertInv, Typed
  <2>4. \A tx \in txs : tx.by \in Callers \cup {None}
    BY DEF AlertInv, Typed, Tx
  <2>5. Asked'
    BY <2>2, <2>3, <2>4 DEF TruthInv, Asked, Turn
  <2>6. \A d \in Callers : Holds(d)
    BY <2>3 DEF Holds, Idle
  <2>. QED  BY <2>1, <2>2, <2>5, <2>6, QuietKeeps DEF TruthInv
<1>. QED  BY <1>1, <1>2, <1>3

\* A transaction that goes on, or fails, tells nothing of what was detected.
LEMMA RunningKeepsTruth ==
  ASSUME AlertInv, TruthInv, NEW tx \in txs,
         TakeLock(tx) \/ LookUp(tx) \/ CheckCooldown(tx) \/ Insert(tx) \/ Rollback(tx)
  PROVE  TruthInv'
<1>1. CASE TakeLock(tx) \/ LookUp(tx) \/ CheckCooldown(tx) \/ Insert(tx)
  <2>1. /\ UNCHANGED <<audits, events, call, issued>>
        /\ \E stage \in Stages, verdict \in Verdicts : Advance(tx, stage, verdict)
    BY <1>1 DEF TakeLock, LookUp, CheckCooldown, Insert, Inserted, Stages, Verdicts
  <2>2. PICK y : /\ txs' = (txs \ {tx}) \cup {y}
                 /\ y.audit = tx.audit /\ y.by = tx.by /\ y.rec = tx.rec
                 /\ y.res = tx.res /\ y.now = tx.now
    BY <2>1, Advanced DEF AlertInv, Typed
  <2>3. Asked'
    BY <2>1, <2>2 DEF TruthInv, Asked, Turn
  <2>4. \A c \in Callers : Holds(c)
    BY <2>1 DEF Holds
  <2>5. \A x \in txs' : \E z \in txs : z.audit = x.audit
    BY <2>2
  <2>. QED  BY <2>1, <2>3, <2>4, <2>5, QuietKeeps DEF TruthInv
<1>2. CASE Rollback(tx)
  <2>1. /\ txs' = txs \ {tx} /\ UNCHANGED <<audits, events, issued>>
        /\ call' = IF tx.by = None THEN call ELSE [call EXCEPT ![tx.by] = Idle]
    BY <1>2 DEF Rollback, Failed
  <2>2. \A c \in Callers : call'[c] = IF c = tx.by THEN Idle ELSE call[c]
    BY <2>1, AlertAssumption DEF AlertInv, Typed
  <2>3. \A x \in txs : /\ x.by \in Callers \cup {None}
                       /\ x.by = tx.by /\ x.by # None => x = tx
    BY DEF AlertInv, Typed, Tx, Awaited
  <2>4. Asked'
    BY <2>1, <2>2, <2>3 DEF TruthInv, Asked, Turn
  <2>5. \A c \in Callers : Holds(c)
    BY <2>2 DEF Holds, Idle
  <2>. QED  BY <2>1, <2>4, <2>5, QuietKeeps DEF TruthInv
<1>. QED  BY <1>1, <1>2

\* What a transaction decided is so in the tables it leaves.
LEMMA VerdictIsTrue ==
  ASSUME AlertInv, TruthInv, NEW tx \in txs, Commit(tx)
  PROVE  /\ \E a \in audits' : /\ a.audit = tx.audit /\ a.rec = tx.rec /\ a.at = tx.now
                               /\ a.set = tx.res.set /\ a.label = tx.res.label
         /\ tx.verdict = "created" <=> \E e \in events' : e.audit = tx.audit
         /\ tx.verdict = "suppressed" => \E e \in events' : e.key = Key(tx)
         /\ tx.verdict = "neither" /\ tx.res.label # Unlabeled =>
              \E e \in events' : e.id = Id(tx)
<1>1. /\ tx.stage = "commit" /\ audits' = audits \cup {AuditRow(tx)}
      /\ events' = IF tx.verdict = "created" THEN events \cup {EventRow(tx)} ELSE events
  BY DEF Commit
<1>2. EventRow(tx).audit = tx.audit /\ \A e \in events : e.audit # tx.audit
  BY DEF EventRow, TruthInv, Spent, Unspent
<1>3. tx.verdict = "suppressed" => \E e \in events : e.key = Key(tx)
  BY DEF AlertInv, Founded, Cooling
<1>4. tx.verdict = "neither" /\ tx.res.label # Unlabeled => \E e \in events : e.id = Id(tx)
  BY <1>1 DEF AlertInv, Founded, Rejected
<1>5. \E a \in audits' : /\ a.audit = tx.audit /\ a.rec = tx.rec /\ a.at = tx.now
                         /\ a.set = tx.res.set /\ a.label = tx.res.label
  <2>. DEFINE a == AuditRow(tx)
  <2>1. /\ a.audit = tx.audit /\ a.rec = tx.rec /\ a.at = tx.now
        /\ a.set = tx.res.set /\ a.label = tx.res.label
    BY DEF AuditRow
  <2>2. a \in audits'
    BY <1>1
  <2>. QED  BY <2>1, <2>2
<1>. QED  BY <1>1, <1>2, <1>3, <1>4, <1>5

\* The members of a sequence with one more.
LEMMA AppendedMembers ==
  ASSUME NEW S, NEW s \in Seq(S), NEW x, NEW i \in 1 .. Len(Append(s, x))
  PROVE  \/ i \in 1 .. Len(s) /\ Append(s, x)[i] = s[i]
         \/ i = Len(s) + 1 /\ Append(s, x)[i] = x
OBVIOUS

\* The answer is the verdict on the result that was asked about.
LEMMA CommitKeepsTruth ==
  ASSUME AlertInv, TruthInv, NEW tx \in txs, Commit(tx)
  PROVE  TruthInv'
<1>1. /\ txs' = txs \ {tx} /\ issued' = issued
      /\ audits \subseteq audits' /\ events \subseteq events'
      /\ \A e \in events' \ events : e.audit = tx.audit
  BY DEF Commit, EventRow
<1>2. /\ tx \in Tx /\ tx.audit \in 1 .. issued
      /\ \A x \in txs : /\ x.by \in Callers \cup {None}
                        /\ x.audit = tx.audit => x = tx
                        /\ x.by = tx.by /\ x.by # None => x = tx
  BY DEF AlertInv, Typed, Tx, Awaited, Numbered
<1>3. /\ \A n : Unspent(n) => Unspent(n)' /\ n # tx.audit
      /\ Unspent(tx.audit)'
  BY <1>1, <1>2 DEF Unspent
<1>. DEFINE out == [audit |-> tx.audit, verdict |-> tx.verdict]
<1>4. ASSUME NEW c \in Callers
      PROVE  IF c = tx.by
             THEN /\ call[c].step # "idle"
                  /\ call'[c].rec = call[c].rec /\ call'[c].now = call[c].now
                  /\ call'[c].batch = call[c].batch
                  /\ call'[c].outcomes = Append(call[c].outcomes, out)
                  /\ call[c].outcomes \in Seq([audit : Nat, verdict : Verdicts])
             ELSE call'[c] = call[c]
  <2>1. CASE c = tx.by
    <3>1. c # None /\ call[c].step = "wait" /\ call[c] \in Call
      BY <2>1, AlertAssumption DEF AlertInv, Awaited, Typed
    <3>2. call[c] \in [step : {"next", "wait"}, rec : Recordings, batch : Batches,
                       now : Times, outcomes : Seq([audit : Nat, verdict : Verdicts])]
      BY <3>1 DEF Call, Idle
    <3>3. call'[c] = [[call[c] EXCEPT !.step = "next"] EXCEPT !.outcomes = Append(@, out)]
      BY <2>1, <3>1 DEF Commit, Answer, AlertInv, Typed
    <3>. QED  BY <2>1, <3>1, <3>2, <3>3
  <2>2. CASE c # tx.by
    BY <2>2 DEF Commit, Answer, AlertInv, Typed
  <2>. QED  BY <2>1, <2>2
<1>5. Asked'
  BY <1>1, <1>2, <1>4 DEF TruthInv, Asked, Turn
<1>6. ASSUME NEW c \in Callers, call'[c].step # "idle", NEW i \in 1 .. Len(call'[c].outcomes)
      PROVE  \/ /\ call[c].step # "idle" /\ i \in 1 .. Len(call[c].outcomes)
                /\ call'[c].outcomes[i] = call[c].outcomes[i]
                /\ call'[c].rec = call[c].rec /\ call'[c].now = call[c].now
                /\ call'[c].batch = call[c].batch
             \/ /\ call'[c].outcomes[i] = out
                /\ call'[c].rec = tx.rec /\ call'[c].now = tx.now
                /\ call'[c].batch[i] = tx.res
  <2>. HIDE DEF out
  <2>1. CASE c # tx.by
    BY <1>4, <1>6, <2>1
  <2>2. CASE c = tx.by
    <3>. DEFINE told == call[c].outcomes
    <3>1. /\ call[c].step # "idle" /\ call'[c].rec = call[c].rec
          /\ call'[c].now = call[c].now /\ call'[c].batch = call[c].batch
          /\ call'[c].outcomes = Append(told, out)
          /\ told \in Seq([audit : Nat, verdict : Verdicts])
      BY <1>4, <2>2
    <3>2. \/ i \in 1 .. Len(told) /\ call'[c].outcomes[i] = told[i]
          \/ i = Len(told) + 1 /\ call'[c].outcomes[i] = out
      <4>. HIDE DEF told
      <4>. QED  BY <1>6, <3>1, AppendedMembers
    <3>3. tx.rec = call[c].rec /\ tx.now = call[c].now
          /\ tx.res = call[c].batch[Len(told) + 1]
      BY <2>2, AlertAssumption DEF TruthInv, Asked, Turn
    <3>. HIDE DEF told
    <3>4. CASE i = Len(told) + 1 /\ call'[c].outcomes[i] = out
      BY <3>1, <3>3, <3>4
    <3>5. CASE i \in 1 .. Len(told) /\ call'[c].outcomes[i] = told[i]
      BY <3>1, <3>5 DEF told
    <3>. QED  BY <3>2, <3>4, <3>5
  <2>. QED  BY <2>1, <2>2
<1>7. out.audit = tx.audit /\ out.verdict = tx.verdict
  OBVIOUS
<1>. HIDE DEF out
<1>8. Spent'
  <2>1. ASSUME NEW c \in Callers, (call[c].step # "idle")',
               NEW i \in 1 .. Len(call'[c].outcomes)
        PROVE  Unspent(call[c].outcomes[i].audit)'
    <3>1. CASE call'[c].outcomes[i] = out
      BY <1>3, <1>7, <3>1 DEF Unspent
    <3>2. CASE /\ call[c].step # "idle" /\ i \in 1 .. Len(call[c].outcomes)
               /\ call'[c].outcomes[i] = call[c].outcomes[i]
      <4>1. Unspent(call[c].outcomes[i].audit)
        BY <3>2 DEF TruthInv, Spent
      <4>. QED  BY <1>1, <1>3, <3>2, <4>1 DEF Unspent
    <3>. QED  BY <1>6, <2>1, <3>1, <3>2
  <2>2. \A e \in events : Unspent(e.audit)
    BY DEF TruthInv, Spent
  <2>3. \A e \in events' : e.audit \in 1 .. issued' /\ \A x \in txs' : x.audit # e.audit
    BY <1>1, <1>2, <2>2 DEF Unspent
  <2>. QED  BY <2>1, <2>3 DEF Spent, Unspent
<1>9. OutcomesAreTrue'
  <2>1. ASSUME NEW c \in Callers, (call[c].step # "idle")',
               NEW i \in 1 .. Len(call'[c].outcomes)
        PROVE  Truthful(c, i)'
    <3>1. CASE /\ call'[c].outcomes[i] = out
               /\ call'[c].rec = tx.rec /\ call'[c].now = tx.now /\ call'[c].batch[i] = tx.res
      <4>1. Key(tx) = DedupKey(tx.rec, tx.res) /\ Id(tx) = EventId(tx.res, tx.now)
        BY DEF Key, Id
      <4>. QED  BY <1>7, <3>1, <4>1, VerdictIsTrue DEF Truthful, EventId, DedupKey
    <3>2. CASE /\ call[c].step # "idle" /\ i \in 1 .. Len(call[c].outcomes)
               /\ call'[c].outcomes[i] = call[c].outcomes[i]
               /\ call'[c].rec = call[c].rec /\ call'[c].now = call[c].now
               /\ call'[c].batch = call[c].batch
      <4>1. Truthful(c, i) /\ Unspent(call[c].outcomes[i].audit)
        BY <3>2, OneByOne DEF TruthInv, Spent
      <4>2. call[c].outcomes[i].audit # tx.audit
        BY <1>3, <4>1
      <4>. QED  BY <1>1, <3>2, <4>1, <4>2 DEF Truthful, EventId, DedupKey
    <3>. QED  BY <1>6, <2>1, <3>1, <3>2
  <2>. QED  BY <2>1 DEF OutcomesAreTrue, Truthful
<1>. QED  BY <1>5, <1>8, <1>9 DEF TruthInv

\* What a caller was told is so, and stays so however long it takes over the rest
\* of its batch.
THEOREM CallersAreToldTheTruth == AlertSpec => []OutcomesAreTrue
<1>1. AlertInit => TruthInv
  BY DEF AlertInit, Idle, TruthInv, Asked, Spent, OutcomesAreTrue
<1>2. AlertInv /\ TruthInv /\ [AlertNext]_alertVars => TruthInv'
  <2>. SUFFICES ASSUME AlertInv, TruthInv, [AlertNext]_alertVars PROVE TruthInv'  OBVIOUS
  <2>1. CASE \E c \in Callers : Process(c) \/ Return(c) \/ Record(c) \/ GiveUp(c)
    BY <2>1, CallersKeepTruth
  <2>2. CASE \E tx \in txs : TakeLock(tx) \/ LookUp(tx) \/ CheckCooldown(tx) \/ Insert(tx)
                             \/ Rollback(tx)
    BY <2>2, RunningKeepsTruth
  <2>3. CASE \E tx \in txs : Commit(tx)
    BY <2>3, CommitKeepsTruth
  <2>4. CASE UNCHANGED alertVars
    <3>1. /\ UNCHANGED <<audits, events, txs, call, issued>>
          /\ \A c \in Callers : Holds(c)
      BY <2>4 DEF alertVars, Holds
    <3>2. Asked'
      BY <3>1 DEF TruthInv, Asked, Turn
    <3>. QED  BY <3>1, <3>2, QuietKeeps DEF TruthInv
  <2>. QED  BY <2>1, <2>2, <2>3, <2>4 DEF AlertNext
<1>3. TruthInv => OutcomesAreTrue
  BY DEF TruthInv
<1>. QED  BY <1>1, <1>2, <1>3, AlertInvariant, PTL DEF AlertSpec
=============================================================================
