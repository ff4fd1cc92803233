------------------------- MODULE TranscriptionProofs -------------------------
(***************************************************************************)
(* Theorems about AudioAnalysis for any recordings, processors, contents   *)
(* and attempts, and about Transcription beside it for any workers, tries, *)
(* leases and backoffs.                                                    *)
(***************************************************************************)
EXTENDS Transcription, FiniteSetTheorems, TLAPS

(***************************************************************************)
(* The analysis: however many statements were given up on and take effect  *)
(* late, contents have one owner, final rows stay, and a recording is      *)
(* analyzed by one processor at a time.                                    *)
(*                                                                         *)
(* Three invariants on top of the types.  OwnershipInv: what a completing  *)
(* transaction found under its advisory lock is still so when it writes.   *)
(* HoldersInv: whoever may yet fail a row, a processor or a statement given *)
(* up on, is the only one, and the row is not claimable.  PaidInv: every   *)
(* decoding has an attempt.                                                *)
(***************************************************************************)

-----------------------------------------------------------------------------
(* Rows and places as values.                                              *)

\* A row before and just after its insertion.
LEMMA RowValues ==
  /\ Absent \in AnalysisRow /\ Pending \in AnalysisRow
  /\ Pending.status = "pending" /\ Pending.attempts = 0
  /\ Pending.print = None /\ Pending.aliasOf = None
BY DEF Absent, Pending, AnalysisRow, Final

\* The fields of a row, and the rows that a claim and a failure make of it.
LEMMA RowWrites ==
  ASSUME NEW r \in AnalysisRow
  PROVE  /\ r.status \in {"absent", "pending", "processing", "failed"} \cup Final
         /\ r.attempts \in Nat /\ r.print \in Contents \cup {None}
         /\ r.measured \in Contents \cup {None} /\ r.aliasOf \in Recordings \cup {None}
         /\ [r EXCEPT !.status = "processing", !.attempts = @ + 1] \in AnalysisRow
         /\ \A retry \in BOOLEAN :
              [r EXCEPT !.status = "failed", !.retryable = retry] \in AnalysisRow
PROOF
<1>1. /\ r.status \in {"absent", "pending", "processing", "failed"} \cup Final
      /\ r.attempts \in Nat /\ r.print \in Contents \cup {None}
      /\ r.measured \in Contents \cup {None} /\ r.aliasOf \in Recordings \cup {None}
  BY DEF AnalysisRow
<1>2. r.attempts + 1 \in Nat
  BY <1>1
<1>3. [r EXCEPT !.status = "processing", !.attempts = @ + 1] \in AnalysisRow
  BY <1>2 DEF AnalysisRow
<1>4. \A retry \in BOOLEAN :
        [r EXCEPT !.status = "failed", !.retryable = retry] \in AnalysisRow
  BY DEF AnalysisRow
<1> QED BY <1>1, <1>3, <1>4

\* The fields of a place, and what it is to be idle.
LEMMA PlaceValues ==
  ASSUME NEW x \in Place
  PROVE  /\ Idle \in Place /\ Idle.step = "idle" /\ Idle.rec = None
         /\ x.step \in {"idle", "claim", "analyze", "complete", "fail"}
         /\ x.rec \in Recordings \cup {None} /\ x.turn \in Nat /\ x.retry \in BOOLEAN
BY DEF Place, Idle

-----------------------------------------------------------------------------
(* What the statements do to a row.                                        *)

\* The row of a claim, a failure and an insertion, if it is written.
LEMMA ClaimWrites ==
  ASSUME AnalysisTypeOK, NEW r \in Recordings, ClaimRow(r)
  PROVE  /\ rows' \in [Recordings -> AnalysisRow]
         /\ \A s \in Recordings : s # r => rows'[s] = rows[s]
         /\ ~ Claimable(r) => rows' = rows
         /\ Claimable(r) =>
              /\ rows'[r].status = "processing" /\ rows'[r].attempts = rows[r].attempts + 1
              /\ rows'[r].print = rows[r].print /\ rows'[r].aliasOf = rows[r].aliasOf
PROOF
<1>1. rows[r] \in AnalysisRow
  BY DEF AnalysisTypeOK
<1>2. PICK w \in AnalysisRow : w = [rows[r] EXCEPT !.status = "processing", !.attempts = @ + 1]
  BY <1>1, RowWrites
<1>3. /\ w.status = "processing" /\ w.attempts = rows[r].attempts + 1
      /\ w.print = rows[r].print /\ w.aliasOf = rows[r].aliasOf
  BY <1>1, <1>2 DEF AnalysisRow
<1>4. CASE ~ Claimable(r)
  BY <1>4 DEF ClaimRow, AnalysisTypeOK
<1>5. CASE Claimable(r)
  <2>1. rows' = [rows EXCEPT ![r] = w]
    BY <1>2, <1>5 DEF ClaimRow, AnalysisTypeOK
  <2> QED BY <1>3, <1>5, <2>1 DEF AnalysisTypeOK
<1> QED BY <1>4, <1>5

\* FailAudio writes a processing row, and neither its attempts nor its owner.
LEMMA FailWrites ==
  ASSUME AnalysisTypeOK, NEW r \in Recordings, NEW retry \in BOOLEAN, FailRow(r, retry)
  PROVE  /\ rows' \in [Recordings -> AnalysisRow]
         /\ \A s \in Recordings : s # r => rows'[s] = rows[s]
         /\ rows[r].status # "processing" => rows' = rows
         /\ rows[r].status = "processing" =>
              /\ rows'[r].status = "failed" /\ rows'[r].attempts = rows[r].attempts
              /\ rows'[r].print = rows[r].print /\ rows'[r].aliasOf = rows[r].aliasOf
PROOF
<1>1. rows[r] \in AnalysisRow
  BY DEF AnalysisTypeOK
<1>2. PICK w \in AnalysisRow : w = [rows[r] EXCEPT !.status = "failed", !.retryable = retry]
  BY <1>1, RowWrites
<1>3. /\ w.status = "failed" /\ w.attempts = rows[r].attempts
      /\ w.print = rows[r].print /\ w.aliasOf = rows[r].aliasOf
  BY <1>1, <1>2 DEF AnalysisRow
<1>4. CASE rows[r].status # "processing"
  BY <1>4 DEF FailRow, AnalysisTypeOK
<1>5. CASE rows[r].status = "processing"
  <2>1. rows' = [rows EXCEPT ![r] = w]
    BY <1>2, <1>5 DEF FailRow, AnalysisTypeOK
  <2> QED BY <1>3, <1>5, <2>1 DEF AnalysisTypeOK
<1> QED BY <1>4, <1>5

\* An insertion writes only where no row is.
LEMMA InsertWrites ==
  ASSUME AnalysisTypeOK, NEW r \in Recordings, InsertRow(r)
  PROVE  /\ rows' \in [Recordings -> AnalysisRow]
         /\ \A s \in Recordings : s # r => rows'[s] = rows[s]
         /\ rows[r].status # "absent" => rows' = rows
         /\ rows[r].status = "absent" => rows'[r] = Pending
BY RowValues DEF AnalysisTypeOK, InsertRow

\* A completion writes one processing row: an alias of the owner it found, or
\* the owner.
LEMMA CommitWrites ==
  ASSUME AnalysisTypeOK, NEW tx \in txs, Commit(tx)
  PROVE  /\ rows' \in [Recordings -> AnalysisRow]
         /\ tx.rec \in Recordings /\ tx.content \in Contents
         /\ \A s \in Recordings : s # tx.rec => rows'[s] = rows[s]
         /\ rows[tx.rec].status # "processing" => rows' = rows
         /\ rows[tx.rec].status = "processing" =>
              /\ rows'[tx.rec].attempts = rows[tx.rec].attempts
              /\ rows'[tx.rec].measured = tx.content
              /\ IF tx.owner \notin {None, tx.rec}
                   THEN /\ rows'[tx.rec].status = "skipped"
                        /\ rows'[tx.rec].print = None /\ rows'[tx.rec].aliasOf = tx.owner
                   ELSE /\ rows'[tx.rec].status = "completed"
                        /\ rows'[tx.rec].print = tx.content
                        /\ rows'[tx.rec].aliasOf = rows[tx.rec].aliasOf
PROOF
<1>1. tx \in Tx /\ tx.rec \in Recordings /\ tx.content \in Contents
      /\ tx.owner \in Recordings \cup {None} /\ rows[tx.rec] \in AnalysisRow
  BY DEF AnalysisTypeOK, Tx
<1>2. CASE rows[tx.rec].status # "processing"
  BY <1>1, <1>2 DEF Commit, AnalysisTypeOK
<1>3. CASE rows[tx.rec].status = "processing"
  <2>1. CompletedRow(tx) \in AnalysisRow
    BY <1>1 DEF CompletedRow, AnalysisRow, Final
  <2>2. /\ CompletedRow(tx).attempts = rows[tx.rec].attempts
        /\ CompletedRow(tx).measured = tx.content
        /\ IF tx.owner \notin {None, tx.rec}
             THEN /\ CompletedRow(tx).status = "skipped"
                  /\ CompletedRow(tx).print = None /\ CompletedRow(tx).aliasOf = tx.owner
             ELSE /\ CompletedRow(tx).status = "completed"
                  /\ CompletedRow(tx).print = tx.content
                  /\ CompletedRow(tx).aliasOf = rows[tx.rec].aliasOf
    BY <1>1 DEF CompletedRow, AnalysisRow
  <2>3. PICK w \in AnalysisRow : w = CompletedRow(tx)
    BY <2>1
  <2>4. rows' = [rows EXCEPT ![tx.rec] = w]
    BY <1>3, <2>3 DEF Commit
  <2>5. rows'[tx.rec] = w /\ rows' \in [Recordings -> AnalysisRow]
        /\ \A s \in Recordings : s # tx.rec => rows'[s] = rows[s]
    BY <1>1, <2>4 DEF AnalysisTypeOK
  <2> HIDE DEF CompletedRow
  <2> QED BY <1>1, <1>3, <2>2, <2>3, <2>5
<1> QED BY <1>1, <1>2, <1>3

-----------------------------------------------------------------------------
(* Where a step leaves a processor.                                        *)

\* One processor moves and the others stay.
LEMMA MoveOne ==
  ASSUME AnalysisTypeOK, NEW p \in Processors, NEW x \in Place, Move(p, x)
  PROVE  /\ at' \in [Processors -> Place] /\ at'[p] = x
         /\ \A q \in Processors : q # p => at'[q] = at[q]
BY DEF AnalysisTypeOK, Move

\* A processor goes on with the file it has, or is done with it.
LEMMA NextTurnMoves ==
  ASSUME AnalysisTypeOK, NEW p \in Processors, NextTurn(p)
  PROVE  /\ at' \in [Processors -> Place]
         /\ \A q \in Processors : q # p => at'[q] = at[q]
         /\ at'[p] = Idle \/ (at'[p].step = "claim" /\ at'[p].rec = at[p].rec)
PROOF
<1>1. at[p] \in Place /\ at[p].turn + 1 \in Nat /\ Idle \in Place
  BY PlaceValues DEF AnalysisTypeOK
<1>2. PICK x \in Place : /\ Move(p, x)
                         /\ x = Idle \/ (x.step = "claim" /\ x.rec = at[p].rec)
  <2>1. CASE at[p].turn + 1 < MaxAttempts
    <3>1. PICK x \in Place : x = [at[p] EXCEPT !.step = "claim", !.turn = @ + 1]
      BY <1>1 DEF Place
    <3>2. x.step = "claim" /\ x.rec = at[p].rec
      BY <1>1, <3>1 DEF Place
    <3> QED BY <2>1, <3>1, <3>2 DEF NextTurn
  <2>2. CASE ~ (at[p].turn + 1 < MaxAttempts)
    BY <1>1, <2>2 DEF NextTurn
  <2> QED BY <2>1, <2>2
<1> QED BY <1>2, MoveOne

\* A failure keeps the file in hand until FailAudio has been tried.
LEMMA ToFailMoves ==
  ASSUME AnalysisTypeOK, NEW p \in Processors, NEW retryable \in BOOLEAN, ToFail(p, retryable)
  PROVE  /\ at' \in [Processors -> Place]
         /\ \A q \in Processors : q # p => at'[q] = at[q]
         /\ at'[p].step = "fail" /\ at'[p].rec = at[p].rec
PROOF
<1>1. at[p] \in Place
  BY DEF AnalysisTypeOK
<1>2. PICK b \in BOOLEAN : b = (retryable /\ at[p].turn + 1 < MaxAttempts)
  OBVIOUS
<1>3. PICK x \in Place : x = [at[p] EXCEPT !.step = "fail", !.retry = b]
  BY <1>1 DEF Place
<1>4. x.step = "fail" /\ x.rec = at[p].rec
  BY <1>1, <1>3 DEF Place
<1>5. Move(p, x)
  BY <1>2, <1>3 DEF ToFail
<1> QED BY <1>4, <1>5, MoveOne

\* A step forward keeps the file in hand.
LEMMA StepMoves ==
  ASSUME AnalysisTypeOK, NEW p \in Processors,
         NEW step \in {"claim", "analyze", "complete", "fail"},
         Move(p, [at[p] EXCEPT !.step = step])
  PROVE  /\ at' \in [Processors -> Place]
         /\ \A q \in Processors : q # p => at'[q] = at[q]
         /\ at'[p].step = step /\ at'[p].rec = at[p].rec
PROOF
<1>1. at[p] \in Place
  BY DEF AnalysisTypeOK
<1>2. PICK x \in Place : x = [at[p] EXCEPT !.step = step]
  BY <1>1 DEF Place
<1>3. x.step = step /\ x.rec = at[p].rec
  BY <1>1, <1>2 DEF Place
<1> QED BY <1>2, <1>3, MoveOne

\* A processor that stops waiting for its transaction leaves it as it is.
Unawaited(p, tx) == IF tx.by = p THEN [tx EXCEPT !.awaited = FALSE] ELSE tx

\* A transaction given up on is the same in all else.
LEMMA UnawaitedFields ==
  ASSUME NEW tx \in Tx, NEW p
  PROVE  LET u == Unawaited(p, tx) IN
         /\ u \in Tx
         /\ u.by = tx.by /\ u.rec = tx.rec /\ u.content = tx.content
         /\ u.stage = tx.stage /\ u.owner = tx.owner
         /\ u.awaited => tx.awaited /\ tx.by # p /\ u = tx
BY DEF Unawaited, Tx

\* Of a set of which p awaits none, nobody awaits more than before.
LEMMA UnawaitedSet ==
  ASSUME AnalysisTypeOK, NEW p, txs' = {Unawaited(p, tx) : tx \in txs}
  PROVE  \A u \in txs' : u.awaited => u \in txs /\ u.by # p
PROOF
<1> SUFFICES ASSUME NEW tx \in txs, Unawaited(p, tx).awaited
             PROVE  Unawaited(p, tx) \in txs /\ Unawaited(p, tx).by # p
  OBVIOUS
<1>1. tx \in Tx
  BY DEF AnalysisTypeOK
<1> QED BY <1>1, UnawaitedFields

-----------------------------------------------------------------------------
(* Types.                                                                  *)

\* A transaction that is awaited is its processor's only one, and that waits.
Awaiting ==
  /\ \A tx \in txs : tx.awaited => at[tx.by].step = "complete" /\ at[tx.by].rec = tx.rec
  /\ \A a, b \in txs : a.awaited /\ b.awaited /\ a.by = b.by => a = b

\* A processor that is not idle has a file in hand.
TypesInv ==
  /\ AnalysisTypeOK
  /\ \A p \in Processors : at[p].step # "idle" => at[p].rec \in Recordings
  /\ Awaiting

\* A processor moves, and none of the transactions still awaited is its own.
LEMMA AwaitingStays ==
  ASSUME TypesInv, NEW p \in Processors,
         \A q \in Processors : q # p => at'[q] = at[q],
         \A tx \in txs' : tx.awaited => tx \in txs /\ tx.by # p
  PROVE  Awaiting'
BY DEF TypesInv, Awaiting, AnalysisTypeOK, Tx

\* Whoever is not waiting has no transaction awaited.
LEMMA NotWaiting ==
  ASSUME TypesInv, NEW p \in Processors, at[p].step # "complete"
  PROVE  \A tx \in txs : tx.awaited => tx.by # p
BY DEF TypesInv, Awaiting

\* Nobody holds a file and no statement is in flight.
LEMMA TypesInitially == AnalysisInit => TypesInv
PROOF
<1>1. Absent \in AnalysisRow /\ Idle \in Place /\ Idle.step = "idle"
  BY RowValues DEF Place, Idle
<1> QED BY <1>1 DEF AnalysisInit, AnalysisTypeOK, TypesInv, Awaiting

\* Each statement of Process, answered or not, keeps the types and who awaits what.
LEMMA ProcessStepTyped ==
  ASSUME TypesInv, NEW p \in Processors, ProcessStep(p)
  PROVE  TypesInv'
PROOF
<1>1. PICK r \in Recordings : r = at[p].rec
  BY DEF TypesInv, ProcessStep, ClaimAudio, ClaimFails, Analyzed, AnalysisFails, CompleteFails,
     FailAudio, FailFails
<1>2. /\ AnalysisTypeOK /\ at[p] \in Place /\ at[p].retry \in BOOLEAN /\ at[p].turn \in Nat
      /\ Idle.step = "idle" /\ Idle \in Place
  BY PlaceValues DEF AnalysisTypeOK, TypesInv
<1>a. ASSUME \/ Move(p, Idle) \/ NextTurn(p) \/ (\E b \in BOOLEAN : ToFail(p, b))
             \/ \E step \in {"claim", "analyze", "complete", "fail"} :
                  Move(p, [at[p] EXCEPT !.step = step])
      PROVE  /\ at' \in [Processors -> Place]
             /\ \A q \in Processors : q # p => at'[q] = at[q]
             /\ \A q \in Processors : at'[q].step # "idle" => at'[q].rec \in Recordings
  <2>1. CASE Move(p, Idle)
    BY <1>2, <2>1, MoveOne DEF TypesInv
  <2>2. CASE NextTurn(p)
    BY <1>1, <1>2, <2>2, NextTurnMoves DEF TypesInv
  <2>3. CASE \E b \in BOOLEAN : ToFail(p, b)
    BY <1>1, <1>2, <2>3, ToFailMoves DEF TypesInv
  <2>4. ASSUME NEW step \in {"claim", "analyze", "complete", "fail"},
               Move(p, [at[p] EXCEPT !.step = step])
        PROVE  /\ at' \in [Processors -> Place]
               /\ \A q \in Processors : q # p => at'[q] = at[q]
               /\ \A q \in Processors : at'[q].step # "idle" => at'[q].rec \in Recordings
    BY <1>1, <1>2, <2>4, StepMoves DEF TypesInv
  <2> QED BY <1>a, <2>1, <2>2, <2>3, <2>4
<1>3. CASE ClaimAudio(p)
  <2>1. rows' \in [Recordings -> AnalysisRow]
    BY <1>1, <1>2, <1>3, ClaimWrites DEF ClaimAudio
  <2>2. analyses' \in [Recordings -> Nat]
    BY <1>1, <1>2, <1>3 DEF ClaimAudio, AnalysisTypeOK
  <2>3. Move(p, Idle) \/ Move(p, [at[p] EXCEPT !.step = "analyze"])
    BY <1>3 DEF ClaimAudio
  <2>4. at[p].step # "complete" /\ txs' = txs
    BY <1>3 DEF ClaimAudio
  <2>5. Awaiting'
    BY <1>a, <2>3, <2>4, NotWaiting, AwaitingStays
  <2> QED BY <1>2, <1>3, <1>a, <2>1, <2>2, <2>3, <2>5 DEF ClaimAudio, AnalysisTypeOK, TypesInv
<1>4. CASE ClaimFails(p)
  <2>1. late' \subseteq Update
    BY <1>1, <1>2, <1>4 DEF ClaimFails, AnalysisTypeOK, Update
  <2>2. at[p].step # "complete" /\ txs' = txs
    BY <1>4 DEF ClaimFails
  <2>3. Awaiting'
    BY <1>4, <1>a, <2>2, NotWaiting, AwaitingStays DEF ClaimFails
  <2> QED BY <1>2, <1>4, <1>a, <2>1, <2>3 DEF ClaimFails, AnalysisTypeOK, TypesInv
<1>5. CASE Analyzed(p)
  <2>1. PICK c \in Contents :
          txs' = txs \cup {[by |-> p, rec |-> at[p].rec, content |-> c, turn |-> at[p].turn,
                            awaited |-> TRUE, stage |-> "begun", owner |-> None]}
    BY <1>5 DEF Analyzed
  <2>2. PICK new \in Tx : /\ txs' = txs \cup {new}
                          /\ new.by = p /\ new.rec = r /\ new.stage = "begun"
    <3>1. [by |-> p, rec |-> at[p].rec, content |-> c, turn |-> at[p].turn,
           awaited |-> TRUE, stage |-> "begun", owner |-> None] \in Tx
      BY <1>1, <1>2 DEF Tx
    <3> QED BY <1>1, <2>1, <3>1
  <2>3. /\ at' \in [Processors -> Place]
        /\ \A q \in Processors : q # p => at'[q] = at[q]
        /\ at'[p].step = "complete" /\ at'[p].rec = r
    BY <1>1, <1>2, <1>5, StepMoves DEF Analyzed
  <2>4. \A tx \in txs : tx.awaited => tx.by # p
    BY <1>5, NotWaiting DEF Analyzed
  <2>5. Awaiting'
    BY <2>2, <2>3, <2>4 DEF TypesInv, Awaiting, AnalysisTypeOK, Tx
  <2> QED BY <1>2, <1>5, <2>2, <2>3, <2>5 DEF Analyzed, AnalysisTypeOK, TypesInv
<1>6. CASE AnalysisFails(p)
  <2>1. Awaiting'
    BY <1>6, <1>a, NotWaiting, AwaitingStays DEF AnalysisFails
  <2> QED BY <1>2, <1>6, <1>a, <2>1 DEF AnalysisFails, AnalysisTypeOK, TypesInv
<1>7. CASE CompleteFails(p)
  <2>1. txs' = {Unawaited(p, tx) : tx \in txs}
    BY <1>7 DEF CompleteFails, Unawaited
  <2>2. txs' \subseteq Tx
    BY <1>2, <2>1, UnawaitedFields DEF AnalysisTypeOK
  <2>3. ToFail(p, TRUE)
    BY <1>7 DEF CompleteFails
  <2>4. Awaiting'
    BY <1>2, <1>a, <2>1, <2>3, UnawaitedSet, AwaitingStays
  <2> QED BY <1>2, <1>7, <1>a, <2>2, <2>3, <2>4 DEF CompleteFails, AnalysisTypeOK, TypesInv
<1>8. CASE FailAudio(p)
  <2>1. rows' \in [Recordings -> AnalysisRow]
    BY <1>1, <1>2, <1>8, FailWrites DEF FailAudio
  <2>2. NextTurn(p) \/ Move(p, Idle)
    BY <1>8 DEF FailAudio
  <2>3. at[p].step # "complete" /\ txs' = txs
    BY <1>8 DEF FailAudio
  <2>4. Awaiting'
    BY <1>a, <2>2, <2>3, NotWaiting, AwaitingStays
  <2> QED BY <1>2, <1>8, <1>a, <2>1, <2>2, <2>4 DEF FailAudio, AnalysisTypeOK, TypesInv
<1>9. CASE FailFails(p)
  <2>1. late' \subseteq Update
    BY <1>1, <1>2, <1>9 DEF FailFails, AnalysisTypeOK, Update
  <2>2. at[p].step # "complete" /\ txs' = txs /\ Move(p, Idle)
    BY <1>9 DEF FailFails
  <2>3. Awaiting'
    BY <1>a, <2>2, NotWaiting, AwaitingStays
  <2> QED BY <1>2, <1>9, <1>a, <2>1, <2>2, <2>3 DEF FailFails, AnalysisTypeOK, TypesInv
<1> QED BY <1>3, <1>4, <1>5, <1>6, <1>7, <1>8, <1>9 DEF ProcessStep

\* Each step of complete_audio_analysis keeps the types and who awaits what.
LEMMA TxStepTyped ==
  ASSUME TypesInv, NEW tx \in txs, TxStep(tx)
  PROVE  TypesInv'
PROOF
<1>1. AnalysisTypeOK /\ tx \in Tx /\ tx.by \in Processors
  BY DEF TypesInv, AnalysisTypeOK, Tx
<1>a. ASSUME UNCHANGED <<rows, files, handled, at, late, analyses>>,
             NEW next \in Tx, Advance(tx, next),
             next.by = tx.by, next.rec = tx.rec, next.awaited = tx.awaited
      PROVE  TypesInv'
  <2>1. AnalysisTypeOK' /\ txs' = (txs \ {tx}) \cup {next}
    BY <1>1, <1>a DEF Advance, AnalysisTypeOK
  <2>2. Awaiting'
    BY <1>a, <2>1 DEF TypesInv, Awaiting
  <2> QED BY <1>a, <2>1, <2>2 DEF TypesInv
<1>2. CASE Lock(tx)
  <2>1. PICK next \in Tx : next = [tx EXCEPT !.stage = "locked"]
    BY <1>1 DEF Tx
  <2>2. next.by = tx.by /\ next.rec = tx.rec /\ next.awaited = tx.awaited
    BY <1>1, <2>1 DEF Tx
  <2> QED BY <1>2, <1>a, <2>1, <2>2 DEF Lock
<1>3. CASE LookUp(tx)
  <2>1. PICK owner \in Recordings \cup {None} :
          Advance(tx, [tx EXCEPT !.stage = "looked", !.owner = owner])
    BY <1>3 DEF LookUp
  <2>2. PICK next \in Tx : next = [tx EXCEPT !.stage = "looked", !.owner = owner]
    BY <1>1 DEF Tx
  <2>3. next.by = tx.by /\ next.rec = tx.rec /\ next.awaited = tx.awaited
    BY <1>1, <2>2 DEF Tx
  <2> QED BY <1>3, <1>a, <2>1, <2>2, <2>3 DEF LookUp
<1>4. CASE Commit(tx)
  <2>1. rows' \in [Recordings -> AnalysisRow] /\ txs' = txs \ {tx}
    BY <1>1, <1>4, CommitWrites DEF Commit
  <2>2. CASE at' = at
    <3>1. Awaiting'
      BY <2>1, <2>2 DEF TypesInv, Awaiting
    <3> QED BY <1>1, <1>4, <2>1, <2>2, <3>1 DEF Commit, TypesInv, AnalysisTypeOK
  <2>3. CASE tx.awaited /\ (Move(tx.by, Idle) \/ ToFail(tx.by, TRUE))
    <3>1. at[tx.by].rec \in Recordings
      BY <1>1, <2>3 DEF TypesInv, Awaiting
    <3>2. /\ at' \in [Processors -> Place]
          /\ \A q \in Processors : q # tx.by => at'[q] = at[q]
          /\ at'[tx.by].step # "idle" => at'[tx.by].rec \in Recordings
      <4>1. Idle \in Place /\ Idle.step = "idle"
        BY DEF Idle, Place
      <4> QED BY <1>1, <2>3, <3>1, <4>1, MoveOne, ToFailMoves
    <3>3. \A x \in txs' : x.awaited => x \in txs /\ x.by # tx.by
      BY <2>1, <2>3 DEF TypesInv, Awaiting
    <3>4. Awaiting'
      BY <1>1, <3>2, <3>3, AwaitingStays
    <3> QED BY <1>1, <1>4, <2>1, <3>2, <3>4 DEF Commit, TypesInv, AnalysisTypeOK
  <2> QED BY <1>4, <2>2, <2>3 DEF Commit
<1>5. CASE Rollback(tx)
  <2>1. Awaiting'
    BY <1>5 DEF Rollback, TypesInv, Awaiting
  <2> QED BY <1>1, <1>5, <2>1 DEF Rollback, TypesInv, AnalysisTypeOK
<1> QED BY <1>2, <1>3, <1>4, <1>5 DEF TxStep

\* TypesInv is inductive.
LEMMA TypesStep == TypesInv /\ [AnalysisNext]_analysisVars => TypesInv'
PROOF
<1> SUFFICES ASSUME TypesInv, [AnalysisNext]_analysisVars PROVE TypesInv'
  OBVIOUS
<1>0. AnalysisTypeOK /\ Awaiting
  BY DEF TypesInv
<1>1. CASE UNCHANGED analysisVars
  BY <1>1 DEF analysisVars, AnalysisTypeOK, TypesInv, Awaiting
<1>2. ASSUME NEW p \in Processors, ProcessStep(p) PROVE TypesInv'
  BY <1>2, ProcessStepTyped
<1>3. ASSUME NEW p \in Processors, Restart(p) PROVE TypesInv'
  <2>1. /\ at' \in [Processors -> Place] /\ at'[p] = Idle /\ Idle.step = "idle"
        /\ \A q \in Processors : q # p => at'[q] = at[q]
    BY <1>0, <1>3, MoveOne DEF Restart, Place, Idle
  <2>2. txs' = {Unawaited(p, tx) : tx \in txs}
    BY <1>3 DEF Restart, Unawaited
  <2>3. txs' \subseteq Tx
    BY <1>0, <2>2, UnawaitedFields DEF AnalysisTypeOK
  <2>4. Awaiting'
    BY <1>0, <2>1, <2>2, UnawaitedSet, AwaitingStays
  <2> QED BY <1>0, <1>3, <2>1, <2>3, <2>4 DEF Restart, AnalysisTypeOK, TypesInv
<1>4. ASSUME NEW p \in Processors, NEW r \in Recordings, Ingest(p, r) PROVE TypesInv'
  <2>1. PICK x \in Place : x = [Idle EXCEPT !.step = "claim", !.rec = r]
    BY DEF Place, Idle
  <2>2. x.rec = r /\ Idle.step = "idle"
    BY <2>1 DEF Idle
  <2>3. /\ at' \in [Processors -> Place] /\ at'[p] = x
        /\ \A q \in Processors : q # p => at'[q] = at[q]
    BY <1>0, <1>4, <2>1, MoveOne DEF Ingest
  <2>4. rows' \in [Recordings -> AnalysisRow]
    BY <1>0, <1>4, InsertWrites DEF Ingest
  <2>5. Awaiting'
    BY <1>4, <2>2, <2>3, NotWaiting, AwaitingStays DEF Ingest
  <2> QED BY <1>0, <1>4, <2>2, <2>3, <2>4, <2>5 DEF Ingest, AnalysisTypeOK, TypesInv
<1>5. ASSUME NEW p \in Processors, NEW r \in Recordings, IngestFails(p, r) PROVE TypesInv'
  <2>1. rows' \in [Recordings -> AnalysisRow]
    BY <1>0, <1>5, InsertWrites DEF IngestFails, AnalysisTypeOK
  <2> QED BY <1>0, <1>5, <2>1 DEF IngestFails, AnalysisTypeOK, TypesInv, Awaiting
<1>6. ASSUME NEW p \in Processors, NEW r \in Recordings, FileReappears(p, r) PROVE TypesInv'
  BY <1>0, <1>6 DEF FileReappears, AnalysisTypeOK, TypesInv, Awaiting
<1>7. ASSUME NEW tx \in txs, TxStep(tx) PROVE TypesInv'
  BY <1>7, TxStepTyped
<1>8. ASSUME NEW u \in late, LateUpdate(u) PROVE TypesInv'
  <2>1. u.rec \in Recordings /\ (u.op = "fail" => u.retry \in BOOLEAN)
    BY <1>0 DEF AnalysisTypeOK, Update
  <2>2. rows' \in [Recordings -> AnalysisRow]
    BY <1>0, <1>8, <2>1, ClaimWrites, FailWrites DEF LateUpdate, AnalysisTypeOK
  <2> QED BY <1>0, <1>8, <2>2 DEF LateUpdate, AnalysisTypeOK, TypesInv, Awaiting
<1>9. ASSUME NEW r \in Recordings, FileAppears(r) PROVE TypesInv'
  BY <1>0, <1>9 DEF FileAppears, AnalysisTypeOK, TypesInv, Awaiting
<1> QED BY <1>1, <1>2, <1>3, <1>4, <1>5, <1>6, <1>7, <1>8, <1>9 DEF AnalysisNext

-----------------------------------------------------------------------------
(* Owners.                                                                 *)

\* What a transaction found for its content.
Found(tx) ==
  IF tx.owner = None THEN \A r \in Recordings : rows[r].print # tx.content
  ELSE rows[tx.owner].print = tx.content

\* An alias was measured, so it has an owner's content to agree with.
AliasesMeasured == \A r \in Recordings : rows[r].aliasOf # None => rows[r].measured # None

OwnershipInv ==
  /\ OneOwnerPerContent
  /\ AliasesMeasured
  /\ \A a, b \in txs :
       /\ a.stage # "begun" /\ b.stage # "begun"
       /\ a.content = b.content \/ a.rec = b.rec
       => a = b
  /\ \A tx \in txs : tx.stage = "looked" => Found(tx)

\* A write that neither gives nor takes a content.
Quiet ==
  \A r \in Recordings :
    /\ rows'[r].print = rows[r].print /\ rows'[r].aliasOf = rows[r].aliasOf
    /\ rows[r].status \in Final => rows'[r] = rows[r]

\* What writes neither fingerprint nor alias disturbs no owner.
LEMMA QuietKeepsOwners ==
  ASSUME AnalysisTypeOK, OneOwnerPerContent, AliasesMeasured, Quiet
  PROVE  OneOwnerPerContent' /\ AliasesMeasured'
PROOF
<1>1. \A r \in Recordings : rows[r].aliasOf \in Recordings \cup {None}
  BY RowWrites DEF AnalysisTypeOK
<1>2. \A r \in Recordings : rows[r].print # None \/ rows[r].aliasOf # None => rows'[r] = rows[r]
  BY DEF OneOwnerPerContent, Quiet, Final
<1>3. OneOwnerPerContent'
  BY <1>1, <1>2 DEF OneOwnerPerContent, Quiet
<1>4. AliasesMeasured'
  BY <1>2 DEF AliasesMeasured, Quiet
<1> QED BY <1>3, <1>4

\* Nor what a transaction found when it looked for one.
LEMMA QuietKeepsFound ==
  ASSUME AnalysisTypeOK, Quiet, NEW tx \in Tx, NEW old \in Tx, Found(old),
         tx.owner = old.owner, tx.content = old.content
  PROVE  Found(tx)'
BY DEF Found, Quiet, Tx

\* A quiet step that at most ends transactions, begins some or leaves some.
LEMMA QuietStep ==
  ASSUME AnalysisTypeOK, OwnershipInv, Quiet,
         \A tx \in txs' : tx \in txs \/ tx.stage = "begun"
  PROVE  OwnershipInv'
PROOF
<1>1. \A tx \in txs' : tx.stage = "looked" => Found(tx)'
  BY QuietKeepsFound DEF OwnershipInv, AnalysisTypeOK
<1>2. OneOwnerPerContent' /\ AliasesMeasured'
  BY QuietKeepsOwners DEF OwnershipInv
<1> QED BY <1>1, <1>2 DEF OwnershipInv

\* Giving up on transactions disturbs no owner and no lock.
LEMMA UnawaitedStep ==
  ASSUME AnalysisTypeOK, OwnershipInv, UNCHANGED rows, NEW p,
         txs' = {Unawaited(p, tx) : tx \in txs}
  PROVE  OwnershipInv'
PROOF
<1>1. Quiet
  BY DEF Quiet
<1>2. OneOwnerPerContent' /\ AliasesMeasured'
  BY <1>1, QuietKeepsOwners DEF OwnershipInv
<1>3. ASSUME NEW tx \in txs, Unawaited(p, tx).stage = "looked" PROVE Found(Unawaited(p, tx))'
  BY <1>1, <1>3, UnawaitedFields, QuietKeepsFound DEF OwnershipInv, AnalysisTypeOK
<1>4. ASSUME NEW a \in txs, NEW b \in txs,
             Unawaited(p, a).stage # "begun", Unawaited(p, b).stage # "begun",
             \/ Unawaited(p, a).content = Unawaited(p, b).content
             \/ Unawaited(p, a).rec = Unawaited(p, b).rec
      PROVE  a = b
  BY <1>4, UnawaitedFields DEF OwnershipInv, AnalysisTypeOK
<1>5. \A x, y \in txs' :
        /\ x.stage # "begun" /\ y.stage # "begun"
        /\ x.content = y.content \/ x.rec = y.rec
        => x = y
  BY <1>4
<1>6. \A x \in txs' : x.stage = "looked" => Found(x)'
  BY <1>3
<1> QED BY <1>2, <1>5, <1>6 DEF OwnershipInv

\* A claim gives no content away.
LEMMA ClaimIsQuiet ==
  ASSUME AnalysisTypeOK, NEW r \in Recordings, ClaimRow(r) PROVE Quiet
BY ClaimWrites DEF Quiet, Claimable, Final

\* A failure gives no content away.
LEMMA FailIsQuiet ==
  ASSUME AnalysisTypeOK, NEW r \in Recordings, NEW retry \in BOOLEAN, FailRow(r, retry) PROVE Quiet
BY FailWrites DEF Quiet, Final

\* An insertion gives no content away.
LEMMA InsertIsQuiet ==
  ASSUME AnalysisTypeOK, OneOwnerPerContent, NEW r \in Recordings, InsertRow(r) PROVE Quiet
BY InsertWrites, RowValues DEF Quiet, Final, OneOwnerPerContent

\* A completion that holds both locks makes the owner, or an alias of the one it found.
LEMMA CommitKeepsOwners ==
  ASSUME AnalysisTypeOK, OwnershipInv, NEW tx \in txs, Commit(tx)
  PROVE  OwnershipInv'
PROOF
<1>1. tx \in Tx /\ tx.rec \in Recordings /\ tx.content \in Contents /\ tx.content # None
      /\ tx.owner \in Recordings \cup {None}
  BY AnalysisAssumption DEF AnalysisTypeOK, Tx
<1>2. txs' = txs \ {tx} /\ tx.stage = "looked" /\ Found(tx)
  BY DEF Commit, OwnershipInv
<1>3. CASE rows[tx.rec].status # "processing"
  <2>1. Quiet
    BY <1>3, CommitWrites DEF Quiet
  <2> QED BY <1>2, <2>1, QuietStep
<1>4. CASE rows[tx.rec].status = "processing"
  <2>1. rows[tx.rec].print = None /\ rows[tx.rec].aliasOf = None
    BY <1>1, <1>4 DEF OwnershipInv, OneOwnerPerContent
  <2>2. tx.owner # tx.rec
    BY <1>1, <1>2, <2>1, AnalysisAssumption DEF Found
  <2>3. /\ \A s \in Recordings : s # tx.rec => rows'[s] = rows[s]
        /\ rows'[tx.rec].measured = tx.content
        /\ IF tx.owner # None
             THEN /\ rows'[tx.rec].status = "skipped"
                  /\ rows'[tx.rec].print = None /\ rows'[tx.rec].aliasOf = tx.owner
             ELSE /\ rows'[tx.rec].status = "completed"
                  /\ rows'[tx.rec].print = tx.content
                  /\ rows'[tx.rec].aliasOf = None
    BY <1>4, <2>1, <2>2, CommitWrites
  <2>4. \A s \in Recordings : rows[s].aliasOf # None =>
          rows[s].aliasOf \in Recordings /\ rows[s].measured \in Contents \cup {None}
    BY RowWrites DEF AnalysisTypeOK
  <2>a. \A s \in Recordings : rows[s].aliasOf # None => rows[s].aliasOf # tx.rec
    <3> SUFFICES ASSUME NEW s \in Recordings, rows[s].aliasOf = tx.rec PROVE FALSE
      OBVIOUS
    <3>1. rows[s].status = "skipped" /\ None = rows[s].measured
      BY <1>1, <2>1, AnalysisAssumption DEF OwnershipInv, OneOwnerPerContent
    <3> QED BY <1>1, <3>1, AnalysisAssumption DEF OwnershipInv, AliasesMeasured
  <2>5. OneOwnerPerContent'
    <3>1. CASE tx.owner = None
      BY <1>1, <1>2, <2>1, <2>3, <2>4, <2>a, <3>1 DEF Found, OwnershipInv, OneOwnerPerContent
    <3>2. CASE tx.owner # None
      BY <1>1, <1>2, <2>1, <2>2, <2>3, <2>4, <2>a, <3>2 DEF Found, OwnershipInv, OneOwnerPerContent
    <3> QED BY <3>1, <3>2
  <2>b. AliasesMeasured'
    BY <1>1, <2>3 DEF OwnershipInv, AliasesMeasured
  <2>6. ASSUME NEW x \in txs', x.stage = "looked" PROVE Found(x)'
    <3>1. x \in txs /\ x # tx /\ Found(x) /\ x.content # tx.content
      BY <1>2, <2>6 DEF OwnershipInv
    <3>2. x.content # None /\ x.owner \in Recordings \cup {None}
      BY <3>1, AnalysisAssumption DEF AnalysisTypeOK, Tx
    <3>3. x.owner # tx.rec
      BY <1>1, <2>1, <3>1, <3>2, AnalysisAssumption DEF Found
    <3> QED BY <2>3, <3>1, <3>2, <3>3 DEF Found
  <2> QED BY <1>2, <2>5, <2>b, <2>6 DEF OwnershipInv
<1> QED BY <1>3, <1>4

\* The advisory lock and the row lock are one transaction's; under them the
\* look-up finds the owner there is, if there is one.
LEMMA LockKeepsOwners ==
  ASSUME AnalysisTypeOK, OwnershipInv, NEW tx \in txs, Lock(tx) \/ LookUp(tx)
  PROVE  OwnershipInv'
PROOF
<1>1. tx \in Tx /\ rows' = rows /\ Quiet
  BY DEF Lock, LookUp, AnalysisTypeOK, Quiet
<1>2. PICK next \in Tx :
        /\ txs' = (txs \ {tx}) \cup {next}
        /\ next.rec = tx.rec /\ next.content = tx.content /\ next.stage # "begun"
        /\ next.stage = "looked" => Found(next)
        /\ \A x \in txs \ {tx} : x.stage # "begun" =>
             x.content # tx.content /\ x.rec # tx.rec
  <2>1. CASE Lock(tx)
    <3>1. PICK next \in Tx : next = [tx EXCEPT !.stage = "locked"]
      BY <1>1 DEF Tx
    <3>2. next.rec = tx.rec /\ next.content = tx.content /\ next.stage = "locked"
      BY <1>1, <3>1 DEF Tx
    <3> QED BY <2>1, <3>1, <3>2 DEF Lock, Advance, Unlocked
  <2>2. CASE LookUp(tx)
    <3>1. PICK owner \in {r \in Recordings : rows[r].print = tx.content} \cup {None} :
            /\ owner = None => \A r \in Recordings : rows[r].print # tx.content
            /\ Advance(tx, [tx EXCEPT !.stage = "looked", !.owner = owner])
      BY <2>2 DEF LookUp
    <3>2. PICK next \in Tx : next = [tx EXCEPT !.stage = "looked", !.owner = owner]
      BY <1>1, <3>1 DEF Tx
    <3>3. next.rec = tx.rec /\ next.content = tx.content /\ next.stage = "looked"
          /\ next.owner = owner
      BY <1>1, <3>2 DEF Tx
    <3>4. Found(next)
      BY <3>1, <3>3 DEF Found
    <3>5. \A x \in txs \ {tx} : x.stage # "begun" => x.content # tx.content /\ x.rec # tx.rec
      BY <2>2 DEF LookUp, OwnershipInv
    <3> QED BY <3>1, <3>2, <3>3, <3>4, <3>5 DEF Advance
  <2> QED BY <2>1, <2>2
<1>3. \A x \in txs' : x.stage = "looked" => Found(x)'
  BY <1>1, <1>2 DEF OwnershipInv, Found
<1>4. OneOwnerPerContent' /\ AliasesMeasured'
  BY <1>1, QuietKeepsOwners DEF OwnershipInv
<1>5. \A a, b \in txs' :
        /\ a.stage # "begun" /\ b.stage # "begun"
        /\ a.content = b.content \/ a.rec = b.rec
        => a = b
  BY <1>2 DEF OwnershipInv
<1> QED BY <1>3, <1>4, <1>5 DEF OwnershipInv

\* Nothing is owned at the start.
LEMMA OwnersInitially == AnalysisInit => OwnershipInv
BY RowValues DEF AnalysisInit, OwnershipInv, OneOwnerPerContent, AliasesMeasured, Absent

\* OwnershipInv is inductive, beside TypesInv.
LEMMA OwnersStep == TypesInv /\ OwnershipInv /\ [AnalysisNext]_analysisVars => OwnershipInv'
PROOF
<1> SUFFICES ASSUME TypesInv, OwnershipInv, [AnalysisNext]_analysisVars PROVE OwnershipInv'
  OBVIOUS
<1>0. AnalysisTypeOK /\ OneOwnerPerContent
  BY DEF TypesInv, OwnershipInv
<1>q. ASSUME Quiet, txs' \subseteq txs PROVE OwnershipInv'
  BY <1>0, <1>q, QuietStep
<1>s. UNCHANGED rows => Quiet
  BY DEF Quiet
<1>1. CASE UNCHANGED analysisVars
  BY <1>1, <1>q, <1>s DEF analysisVars
<1>2. ASSUME NEW p \in Processors, ProcessStep(p) PROVE OwnershipInv'
  <2>1. CASE ClaimAudio(p)
    BY <1>0, <1>q, <2>1, ClaimIsQuiet DEF ClaimAudio, TypesInv
  <2>2. CASE FailAudio(p)
    <3>1. at[p].retry \in BOOLEAN
      BY <1>0, PlaceValues DEF AnalysisTypeOK
    <3> QED BY <1>0, <1>q, <2>2, <3>1, FailIsQuiet DEF FailAudio, TypesInv
  <2>3. CASE Analyzed(p)
    <3>1. \A tx \in txs' : tx \in txs \/ tx.stage = "begun"
      BY <2>3 DEF Analyzed
    <3> QED BY <1>0, <1>s, <2>3, <3>1, QuietStep DEF Analyzed
  <2>4. CASE CompleteFails(p)
    <3>1. txs' = {Unawaited(p, tx) : tx \in txs} /\ UNCHANGED rows
      BY <2>4 DEF CompleteFails, Unawaited
    <3> QED BY <1>0, <3>1, UnawaitedStep
  <2>5. CASE ClaimFails(p) \/ AnalysisFails(p) \/ FailFails(p)
    BY <1>q, <1>s, <2>5 DEF ClaimFails, AnalysisFails, FailFails
  <2> QED BY <1>2, <2>1, <2>2, <2>3, <2>4, <2>5 DEF ProcessStep
<1>3. ASSUME NEW p \in Processors, Restart(p) PROVE OwnershipInv'
  <2>1. txs' = {Unawaited(p, tx) : tx \in txs} /\ UNCHANGED rows
    BY <1>3 DEF Restart, Unawaited
  <2> QED BY <1>0, <2>1, UnawaitedStep
<1>4. ASSUME NEW p \in Processors, NEW r \in Recordings, Ingest(p, r) PROVE OwnershipInv'
  BY <1>0, <1>4, <1>q, InsertIsQuiet DEF Ingest
<1>5. ASSUME NEW p \in Processors, NEW r \in Recordings, IngestFails(p, r) PROVE OwnershipInv'
  BY <1>0, <1>5, <1>q, <1>s, InsertIsQuiet DEF IngestFails
<1>6. ASSUME NEW p \in Processors, NEW r \in Recordings, FileReappears(p, r) PROVE OwnershipInv'
  BY <1>6, <1>q, <1>s DEF FileReappears
<1>7. ASSUME NEW tx \in txs, TxStep(tx) PROVE OwnershipInv'
  <2>1. CASE Rollback(tx)
    BY <1>q, <1>s, <2>1 DEF Rollback
  <2> QED BY <1>0, <1>7, <2>1, LockKeepsOwners, CommitKeepsOwners DEF TxStep
<1>8. ASSUME NEW u \in late, LateUpdate(u) PROVE OwnershipInv'
  <2>1. u.rec \in Recordings /\ (u.op = "fail" => u.retry \in BOOLEAN)
    BY <1>0 DEF AnalysisTypeOK, Update
  <2> QED BY <1>0, <1>8, <1>q, <1>s, <2>1, ClaimIsQuiet, FailIsQuiet DEF LateUpdate
<1>9. ASSUME NEW r \in Recordings, FileAppears(r) PROVE OwnershipInv'
  BY <1>9, <1>q, <1>s DEF FileAppears
<1> QED BY <1>1, <1>2, <1>3, <1>4, <1>5, <1>6, <1>7, <1>8, <1>9 DEF AnalysisNext

-----------------------------------------------------------------------------
(* Holders.                                                                *)

\* A processor that was answered for its claim, and what may still fail a row.
Holding(p) == at[p].step \in {"analyze", "complete", "fail"}
Fails == {u \in late : u.op = "fail"}

\* No claim is made of a row that is held.
Taken(r) == rows[r].status \in Final \cup {"processing"}

HoldersInv ==
  /\ \A p \in Processors : Holding(p) => Taken(at[p].rec)
  /\ \A u \in Fails : Taken(u.rec)
  /\ \A p, q \in Processors : Holding(p) /\ Holding(q) /\ at[p].rec = at[q].rec => p = q
  /\ \A p \in Processors, u \in Fails : Holding(p) => at[p].rec # u.rec
  /\ \A u, v \in Fails : u.rec = v.rec => u = v

\* Nothing that is taken is given back, and nobody takes anything.
LEMMA HoldersKeep ==
  ASSUME TypesInv, HoldersInv, NEW p \in Processors,
         \A q \in Processors : q # p => at'[q] = at[q],
         Holding(p)' => Holding(p) /\ at'[p].rec = at[p].rec,
         Fails' \subseteq Fails,
         \A r \in Recordings : Taken(r) => Taken(r)'
  PROVE  HoldersInv'
PROOF
<1>1. \A q \in Processors : Holding(q)' => Holding(q) /\ at'[q].rec = at[q].rec
                                          /\ at[q].rec \in Recordings
  BY DEF Holding, TypesInv
<1>2. \A u \in Fails : u.rec \in Recordings
  BY DEF Fails, TypesInv, AnalysisTypeOK, Update
<1> QED BY <1>1, <1>2 DEF HoldersInv

\* The one that holds row r fails it and lets go.
LEMMA HolderFails ==
  ASSUME TypesInv, HoldersInv, NEW r \in Recordings,
         \A q \in Processors : Holding(q)' => Holding(q) /\ at'[q].rec = at[q].rec
                                              /\ at[q].rec # r,
         Fails' \subseteq Fails, \A u \in Fails' : u.rec # r,
         \A s \in Recordings : s # r => rows'[s] = rows[s]
  PROVE  HoldersInv'
PROOF
<1>1. \A q \in Processors : Holding(q) => at[q].rec \in Recordings
  BY DEF Holding, TypesInv
<1>2. \A u \in Fails : u.rec \in Recordings
  BY DEF Fails, TypesInv, AnalysisTypeOK, Update
<1>3. \A q \in Processors : Holding(q)' => Taken(at[q].rec)'
  BY <1>1 DEF HoldersInv, Taken
<1>4. \A u \in Fails' : Taken(u.rec)'
  BY <1>2 DEF HoldersInv, Taken
<1> QED BY <1>1, <1>2, <1>3, <1>4 DEF HoldersInv

\* A claim takes no row out of the hands of another.
LEMMA ClaimKeepsTaken ==
  ASSUME AnalysisTypeOK, NEW r \in Recordings, ClaimRow(r)
  PROVE  \A s \in Recordings : Taken(s) => Taken(s)'
BY ClaimWrites DEF Taken, Claimable, Final

\* An insertion takes no row out of the hands of another.
LEMMA InsertKeepsTaken ==
  ASSUME AnalysisTypeOK, NEW r \in Recordings, InsertRow(r)
  PROVE  \A s \in Recordings : Taken(s) => Taken(s)'
BY InsertWrites DEF Taken, Final

\* A completion leaves a row that was taken final.
LEMMA CommitKeepsTaken ==
  ASSUME AnalysisTypeOK, NEW tx \in txs, Commit(tx)
  PROVE  \A s \in Recordings : Taken(s) => Taken(s)'
BY CommitWrites DEF Taken, Final

\* Nobody holds anything at the start.
LEMMA HoldersInitially == AnalysisInit => HoldersInv
BY DEF AnalysisInit, HoldersInv, Holding, Fails, Idle

\* Each statement of Process keeps one holder to a row.
LEMMA HoldersProcess ==
  ASSUME TypesInv, HoldersInv, NEW p \in Processors, ProcessStep(p)
  PROVE  HoldersInv'
PROOF
<1>0. AnalysisTypeOK /\ at[p] \in Place /\ at[p].retry \in BOOLEAN /\ Idle \in Place
      /\ Idle.step = "idle"
  BY PlaceValues DEF TypesInv, AnalysisTypeOK
<1>1. at[p].rec \in Recordings
  BY DEF TypesInv, ProcessStep, ClaimAudio, ClaimFails, Analyzed, AnalysisFails, CompleteFails,
     FailAudio, FailFails
<1>s. UNCHANGED rows => \A r \in Recordings : Taken(r) => Taken(r)'
  BY DEF Taken
<1>2. CASE ClaimAudio(p)
  <2>1. Fails' = Fails /\ at[p].step = "claim"
    BY <1>2 DEF ClaimAudio, Fails
  <2>2. \A s \in Recordings : Taken(s) => Taken(s)'
    BY <1>0, <1>1, <1>2, ClaimKeepsTaken DEF ClaimAudio
  <2>3. CASE ~ Claimable(at[p].rec)
    <3>1. at'[p] = Idle /\ \A q \in Processors : q # p => at'[q] = at[q]
      BY <1>0, <1>2, <2>3, MoveOne DEF ClaimAudio
    <3>2. ~ Holding(p)'
      BY <1>0, <3>1 DEF Holding
    <3> QED BY <2>1, <2>2, <3>1, <3>2, HoldersKeep
  <2>4. CASE Claimable(at[p].rec)
    <3>1. /\ \A q \in Processors : q # p => at'[q] = at[q]
          /\ at'[p].step = "analyze" /\ at'[p].rec = at[p].rec
      BY <1>0, <1>2, <2>4, StepMoves DEF ClaimAudio
    <3>2. PICK r \in Recordings : r = at[p].rec /\ ~ Taken(r) /\ Taken(r)'
      <4>1. PICK r \in Recordings : r = at[p].rec
        BY <1>1
      <4>2. ClaimRow(r) /\ Claimable(r)
        BY <1>2, <2>4, <4>1 DEF ClaimAudio
      <4> QED BY <1>0, <4>1, <4>2, ClaimWrites DEF Claimable, Taken, Final
    <3>3. \A q \in Processors : Holding(q) => at[q].rec \in Recordings
      BY DEF Holding, TypesInv
    <3>4. \A u \in Fails : u.rec \in Recordings
      BY <1>0 DEF Fails, AnalysisTypeOK, Update
    <3>5. \A q \in Processors : q # p => (Holding(q)' <=> Holding(q))
      BY <3>1 DEF Holding
    <3> QED BY <2>1, <2>2, <3>1, <3>2, <3>3, <3>4, <3>5 DEF HoldersInv
  <2> QED BY <2>3, <2>4
<1>3. CASE ClaimFails(p)
  <2>1. at'[p] = Idle \/ at'[p].step = "claim"
    BY <1>0, <1>3, NextTurnMoves DEF ClaimFails
  <2>2. ~ Holding(p)' /\ \A q \in Processors : q # p => at'[q] = at[q]
    BY <1>0, <1>3, <2>1, NextTurnMoves DEF ClaimFails, Holding
  <2>3. Fails' \subseteq Fails
    BY <1>3 DEF ClaimFails, Fails
  <2> QED BY <1>3, <1>s, <2>2, <2>3, HoldersKeep DEF ClaimFails
<1>4. CASE Analyzed(p)
  <2>1. at'[p].rec = at[p].rec /\ \A q \in Processors : q # p => at'[q] = at[q]
    BY <1>0, <1>4, StepMoves DEF Analyzed
  <2>2. Holding(p) /\ Fails' \subseteq Fails
    BY <1>4 DEF Analyzed, Holding, Fails
  <2> QED BY <1>4, <1>s, <2>1, <2>2, HoldersKeep DEF Analyzed
<1>5. CASE AnalysisFails(p) \/ CompleteFails(p)
  <2>1. PICK b \in BOOLEAN : ToFail(p, b)
    BY <1>5 DEF AnalysisFails, CompleteFails
  <2>2. at'[p].rec = at[p].rec /\ \A q \in Processors : q # p => at'[q] = at[q]
    BY <1>0, <2>1, ToFailMoves
  <2>3. Holding(p) /\ Fails' \subseteq Fails /\ UNCHANGED rows
    BY <1>5 DEF AnalysisFails, CompleteFails, Holding, Fails
  <2> QED BY <1>s, <2>2, <2>3, HoldersKeep
<1>6. CASE FailAudio(p)
  <2>1. \A q \in Processors : q # p => at'[q] = at[q]
    BY <1>0, <1>6, NextTurnMoves, MoveOne DEF FailAudio
  <2>2. ~ Holding(p)'
    <3>1. at'[p] = Idle \/ at'[p].step = "claim"
      BY <1>0, <1>6, NextTurnMoves, MoveOne DEF FailAudio
    <3> QED BY <1>0, <3>1 DEF Holding
  <2>3. Holding(p) /\ Fails' = Fails
    BY <1>6 DEF FailAudio, Holding, Fails
  <2>4. \A s \in Recordings : s # at[p].rec => rows'[s] = rows[s]
    BY <1>0, <1>1, <1>6, FailWrites DEF FailAudio
  <2>5. \A q \in Processors : Holding(q)' => Holding(q) /\ at'[q].rec = at[q].rec
                                            /\ at[q].rec # at[p].rec
    BY <2>1, <2>2, <2>3 DEF HoldersInv, Holding
  <2>6. \A u \in Fails' : u.rec # at[p].rec
    BY <2>3 DEF HoldersInv
  <2> QED BY <1>1, <2>3, <2>4, <2>5, <2>6, HolderFails
<1>7. CASE FailFails(p)
  <2>1. at'[p] = Idle /\ \A q \in Processors : q # p => at'[q] = at[q]
    BY <1>0, <1>7, MoveOne DEF FailFails
  <2>2. PICK new \in Update : late' = late \cup {new} /\ new.rec = at[p].rec
    <3>1. [op |-> "fail", rec |-> at[p].rec, retry |-> at[p].retry] \in Update
      BY <1>0, <1>1 DEF Update
    <3> QED BY <1>7, <3>1 DEF FailFails
  <2>3. Holding(p) /\ ~ Holding(p)' /\ Fails' \subseteq Fails \cup {new} /\ rows' = rows
    BY <1>0, <1>7, <2>1, <2>2 DEF FailFails, Holding, Fails
  <2>4. \A q \in Processors : Holding(q)' => Holding(q) /\ at'[q].rec = at[q].rec /\ q # p
    BY <2>1, <2>3 DEF Holding
  <2> QED BY <2>2, <2>3, <2>4 DEF HoldersInv, Taken
<1> QED BY <1>2, <1>3, <1>4, <1>5, <1>6, <1>7 DEF ProcessStep

\* HoldersInv is inductive, beside TypesInv and OwnershipInv.
LEMMA HoldersStep ==
  TypesInv /\ HoldersInv /\ [AnalysisNext]_analysisVars => HoldersInv'
PROOF
<1> SUFFICES ASSUME TypesInv, HoldersInv, [AnalysisNext]_analysisVars PROVE HoldersInv'
  OBVIOUS
<1>0. AnalysisTypeOK /\ Idle \in Place /\ Idle.step = "idle"
  BY DEF TypesInv, Place, Idle
<1>s. UNCHANGED rows => \A r \in Recordings : Taken(r) => Taken(r)'
  BY DEF Taken
<1>k. ASSUME UNCHANGED <<at, late>>, \A r \in Recordings : Taken(r) => Taken(r)'
      PROVE  HoldersInv'
  <2>1. \A q \in Processors : Holding(q) => at[q].rec \in Recordings
    BY DEF Holding, TypesInv
  <2>2. \A u \in Fails : u.rec \in Recordings
    BY <1>0 DEF Fails, AnalysisTypeOK, Update
  <2>3. Fails' = Fails /\ \A q \in Processors : Holding(q)' <=> Holding(q)
    BY <1>k DEF Fails, Holding
  <2> QED BY <1>k, <2>1, <2>2, <2>3 DEF HoldersInv
<1>1. CASE UNCHANGED analysisVars
  BY <1>1, <1>k, <1>s DEF analysisVars
<1>2. ASSUME NEW p \in Processors, ProcessStep(p) PROVE HoldersInv'
  BY <1>2, HoldersProcess
<1>3. ASSUME NEW p \in Processors, Restart(p) PROVE HoldersInv'
  <2>1. at'[p] = Idle /\ \A q \in Processors : q # p => at'[q] = at[q]
    BY <1>0, <1>3, MoveOne DEF Restart
  <2>2. ~ Holding(p)' /\ Fails' \subseteq Fails /\ UNCHANGED rows
    BY <1>0, <1>3, <2>1 DEF Restart, Holding, Fails
  <2> QED BY <1>s, <2>1, <2>2, HoldersKeep
<1>4. ASSUME NEW p \in Processors, NEW r \in Recordings, Ingest(p, r) PROVE HoldersInv'
  <2>1. PICK x \in Place : x = [Idle EXCEPT !.step = "claim", !.rec = r]
    BY DEF Place, Idle
  <2>2. x.step = "claim"
    BY <2>1 DEF Idle
  <2>3. at'[p] = x /\ \A q \in Processors : q # p => at'[q] = at[q]
    BY <1>0, <1>4, <2>1, MoveOne DEF Ingest
  <2>4. ~ Holding(p)' /\ Fails' \subseteq Fails
    BY <1>4, <2>2, <2>3 DEF Ingest, Holding, Fails
  <2>5. \A s \in Recordings : Taken(s) => Taken(s)'
    BY <1>0, <1>4, InsertKeepsTaken DEF Ingest
  <2> QED BY <2>3, <2>4, <2>5, HoldersKeep
<1>5. ASSUME NEW p \in Processors, NEW r \in Recordings, IngestFails(p, r) PROVE HoldersInv'
  <2>1. \A s \in Recordings : Taken(s) => Taken(s)'
    BY <1>0, <1>5, <1>s, InsertKeepsTaken DEF IngestFails
  <2> QED BY <1>5, <1>k, <2>1 DEF IngestFails
<1>6. ASSUME NEW p \in Processors, NEW r \in Recordings, FileReappears(p, r) PROVE HoldersInv'
  BY <1>6, <1>k, <1>s DEF FileReappears
<1>7. ASSUME NEW tx \in txs, TxStep(tx) PROVE HoldersInv'
  <2>1. CASE Lock(tx) \/ LookUp(tx) \/ Rollback(tx)
    BY <1>k, <1>s, <2>1 DEF Lock, LookUp, Rollback
  <2>2. CASE Commit(tx)
    <3>1. \A s \in Recordings : Taken(s) => Taken(s)'
      BY <1>0, <2>2, CommitKeepsTaken
    <3>2. CASE at' = at
      BY <1>k, <2>2, <3>1, <3>2 DEF Commit
    <3>3. CASE tx.awaited /\ (Move(tx.by, Idle) \/ ToFail(tx.by, TRUE))
      <4>1. tx.by \in Processors /\ Holding(tx.by)
        BY <1>0, <3>3 DEF AnalysisTypeOK, Tx, TypesInv, Awaiting, Holding
      <4>2. /\ \A q \in Processors : q # tx.by => at'[q] = at[q]
            /\ at'[tx.by] = Idle \/ at'[tx.by].rec = at[tx.by].rec
        BY <1>0, <3>3, <4>1, MoveOne, ToFailMoves
      <4>3. Holding(tx.by)' => at'[tx.by].rec = at[tx.by].rec
        BY <1>0, <4>2 DEF Holding
      <4>4. Fails' \subseteq Fails
        BY <2>2 DEF Commit, Fails
      <4> QED BY <3>1, <4>1, <4>2, <4>3, <4>4, HoldersKeep
    <3> QED BY <2>2, <3>2, <3>3 DEF Commit
  <2> QED BY <1>7, <2>1, <2>2 DEF TxStep
<1>8. ASSUME NEW u \in late, LateUpdate(u) PROVE HoldersInv'
  <2>1. u.rec \in Recordings /\ (u.op = "fail" => u.retry \in BOOLEAN)
    BY <1>0 DEF AnalysisTypeOK, Update
  <2>2. at' = at /\ late' = late \ {u} /\ Fails' \subseteq Fails
    BY <1>8 DEF LateUpdate, Fails
  <2>3. CASE UNCHANGED rows \/ ClaimRow(u.rec)
    <3>1. \A s \in Recordings : Taken(s) => Taken(s)'
      BY <1>0, <1>s, <2>1, <2>3, ClaimKeepsTaken
    <3>2. \A q \in Processors : Holding(q) => at[q].rec \in Recordings
      BY DEF Holding, TypesInv
    <3>3. \A v \in Fails : v.rec \in Recordings
      BY <1>0 DEF Fails, AnalysisTypeOK, Update
    <3>4. \A q \in Processors : Holding(q)' <=> Holding(q)
      BY <2>2 DEF Holding
    <3> QED BY <2>2, <3>1, <3>2, <3>3, <3>4 DEF HoldersInv
  <2>4. CASE u.op = "fail" /\ FailRow(u.rec, u.retry)
    <3>1. u \in Fails /\ u \notin Fails'
      BY <2>2, <2>4 DEF Fails
    <3>2. \A v \in Fails' : v.rec # u.rec
      BY <2>2, <3>1 DEF HoldersInv
    <3>3. \A q \in Processors : Holding(q)' => Holding(q) /\ at'[q].rec = at[q].rec
                                              /\ at[q].rec # u.rec
      BY <2>2, <3>1 DEF HoldersInv, Holding
    <3>4. \A s \in Recordings : s # u.rec => rows'[s] = rows[s]
      BY <1>0, <2>1, <2>4, FailWrites
    <3> QED BY <2>1, <2>2, <3>2, <3>3, <3>4, HolderFails
  <2> QED BY <1>8, <2>3, <2>4 DEF LateUpdate
<1>9. ASSUME NEW r \in Recordings, FileAppears(r) PROVE HoldersInv'
  BY <1>9, <1>k, <1>s DEF FileAppears
<1> QED BY <1>1, <1>2, <1>3, <1>4, <1>5, <1>6, <1>7, <1>8, <1>9 DEF AnalysisNext

-----------------------------------------------------------------------------
(* Attempts.                                                               *)

PaidInv ==
  \A r \in Recordings :
    /\ analyses[r] <= rows[r].attempts /\ rows[r].attempts <= MaxAttempts
    /\ rows[r].status = "absent" => rows[r].attempts = 0

\* No write takes an attempt back, and a claim buys one only while some are left.
Saved ==
  \A r \in Recordings :
    /\ rows[r].attempts <= rows'[r].attempts /\ rows'[r].attempts <= MaxAttempts
    /\ rows'[r].status = "absent" => rows'[r].attempts = 0

\* No write takes an attempt back.
LEMMA WritesSave ==
  ASSUME AnalysisTypeOK, PaidInv,
         \/ UNCHANGED rows
         \/ \E r \in Recordings : ClaimRow(r) \/ InsertRow(r)
         \/ \E r \in Recordings, retry \in BOOLEAN : FailRow(r, retry)
         \/ \E tx \in txs : Commit(tx)
  PROVE  Saved
PROOF
<1>1. \A r \in Recordings : rows[r].attempts \in Nat
  BY RowWrites DEF AnalysisTypeOK
<1>2. CASE UNCHANGED rows
  BY <1>1, <1>2 DEF Saved, PaidInv
<1>3. ASSUME NEW r \in Recordings, ClaimRow(r) PROVE Saved
  <2>1. CASE ~ Claimable(r)
    BY <1>1, <1>3, <2>1, ClaimWrites DEF Saved, PaidInv
  <2>2. CASE Claimable(r)
    <3>1. rows[r].attempts + 1 <= MaxAttempts
      BY <1>1, <2>2, AnalysisAssumption DEF Claimable
    <3> QED BY <1>1, <1>3, <2>2, <3>1, ClaimWrites DEF Saved, PaidInv
  <2> QED BY <2>1, <2>2
<1>4. ASSUME NEW r \in Recordings, InsertRow(r) PROVE Saved
  BY <1>1, <1>4, InsertWrites, RowValues DEF Saved, PaidInv
<1>5. ASSUME NEW r \in Recordings, NEW retry \in BOOLEAN, FailRow(r, retry) PROVE Saved
  BY <1>1, <1>5, FailWrites DEF Saved, PaidInv
<1>6. ASSUME NEW tx \in txs, Commit(tx) PROVE Saved
  BY <1>1, <1>6, CommitWrites DEF Saved, PaidInv
<1> QED BY <1>2, <1>3, <1>4, <1>5, <1>6

\* If no attempt was taken back and what was decoded was counted, all is paid.
LEMMA SavedIsPaid ==
  ASSUME TypesInv, TypesInv', PaidInv, Saved,
         \A r \in Recordings : analyses'[r] <= rows'[r].attempts
                               \/ analyses'[r] = analyses[r]
  PROVE  PaidInv'
PROOF
<1>1. \A r \in Recordings : rows[r].attempts \in Nat /\ rows'[r].attempts \in Nat
                            /\ analyses[r] \in Nat /\ analyses'[r] \in Nat
  BY RowWrites DEF TypesInv, AnalysisTypeOK
<1> QED BY <1>1 DEF PaidInv, Saved

\* Nothing was decoded and nothing counted.
LEMMA PaidInitially == AnalysisInit => PaidInv
BY AnalysisAssumption DEF AnalysisInit, PaidInv, Absent

\* PaidInv is inductive, beside TypesInv.
LEMMA PaidStep ==
  TypesInv /\ TypesInv' /\ PaidInv /\ [AnalysisNext]_analysisVars => PaidInv'
PROOF
<1> SUFFICES ASSUME TypesInv, TypesInv', PaidInv, [AnalysisNext]_analysisVars PROVE PaidInv'
  OBVIOUS
<1>0. AnalysisTypeOK
  BY DEF TypesInv
<1>w. ASSUME analyses' = analyses,
             \/ UNCHANGED rows
             \/ \E r \in Recordings : ClaimRow(r) \/ InsertRow(r)
             \/ \E r \in Recordings, retry \in BOOLEAN : FailRow(r, retry)
             \/ \E tx \in txs : Commit(tx)
      PROVE  PaidInv'
  <2>1. Saved
    BY <1>0, <1>w, WritesSave
  <2> QED BY <1>w, <2>1, SavedIsPaid
<1>1. CASE UNCHANGED analysisVars
  BY <1>1, <1>w DEF analysisVars
<1>2. ASSUME NEW p \in Processors, ProcessStep(p) PROVE PaidInv'
  <2>1. CASE ClaimAudio(p)
    <3>1. PICK r \in Recordings : r = at[p].rec
      BY <2>1 DEF ClaimAudio, TypesInv
    <3>2. Saved /\ ClaimRow(r)
      BY <1>0, <2>1, <3>1, WritesSave DEF ClaimAudio
    <3>3. CASE ~ Claimable(r)
      BY <2>1, <3>1, <3>2, <3>3, SavedIsPaid DEF ClaimAudio
    <3>4. CASE Claimable(r)
      <4>1. analyses' = [analyses EXCEPT ![r] = @ + 1]
        BY <2>1, <3>1, <3>4 DEF ClaimAudio
      <4>2. analyses'[r] = analyses[r] + 1 /\ \A s \in Recordings : s # r => analyses'[s] = analyses[s]
        BY <1>0, <4>1 DEF AnalysisTypeOK
      <4>3. rows'[r].attempts = rows[r].attempts + 1
        BY <1>0, <3>2, <3>4, ClaimWrites
      <4>4. analyses[r] <= rows[r].attempts /\ analyses[r] \in Nat /\ rows[r].attempts \in Nat
        BY <1>0, RowWrites DEF PaidInv, AnalysisTypeOK
      <4>5. analyses'[r] <= rows'[r].attempts
        BY <4>2, <4>3, <4>4
      <4> QED BY <3>2, <4>2, <4>5, SavedIsPaid
    <3> QED BY <3>3, <3>4
  <2>2. CASE FailAudio(p)
    <3>1. at[p].rec \in Recordings /\ at[p].retry \in BOOLEAN
      BY <1>0, <2>2, PlaceValues DEF FailAudio, TypesInv, AnalysisTypeOK
    <3> QED BY <1>w, <2>2, <3>1 DEF FailAudio
  <2>3. CASE ClaimFails(p) \/ Analyzed(p) \/ AnalysisFails(p) \/ CompleteFails(p) \/ FailFails(p)
    BY <1>w, <2>3 DEF ClaimFails, Analyzed, AnalysisFails, CompleteFails, FailFails
  <2> QED BY <1>2, <2>1, <2>2, <2>3 DEF ProcessStep
<1>3. ASSUME NEW p \in Processors, NEW r \in Recordings, Ingest(p, r) \/ IngestFails(p, r)
      PROVE  PaidInv'
  BY <1>3, <1>w DEF Ingest, IngestFails
<1>4. ASSUME NEW tx \in txs, TxStep(tx) PROVE PaidInv'
  <2>1. analyses' = analyses /\ (UNCHANGED rows \/ Commit(tx))
    BY <1>4 DEF TxStep, Lock, LookUp, Commit, Rollback
  <2> QED BY <1>w, <2>1
<1>5. ASSUME NEW u \in late, LateUpdate(u) PROVE PaidInv'
  <2>1. u.rec \in Recordings /\ (u.op = "fail" => u.retry \in BOOLEAN)
    BY <1>0 DEF AnalysisTypeOK, Update
  <2> QED BY <1>5, <1>w, <2>1 DEF LateUpdate
<1>6. ASSUME \/ \E p \in Processors : Restart(p)
             \/ \E p \in Processors, r \in Recordings : FileReappears(p, r)
             \/ \E r \in Recordings : FileAppears(r)
      PROVE  PaidInv'
  BY <1>6, <1>w DEF Restart, FileReappears, FileAppears
<1> QED BY <1>1, <1>2, <1>3, <1>4, <1>5, <1>6 DEF AnalysisNext

-----------------------------------------------------------------------------
(* The theorems.                                                           *)

\* The four parts of the invariant hold of every behaviour, for any recordings,
\* processors, contents and attempts: what is held, owned, awaited and paid for.
THEOREM AnalysisInvariant ==
  AnalysisSpec => [](TypesInv /\ OwnershipInv /\ HoldersInv /\ PaidInv)
PROOF
<1>1. AnalysisInit => TypesInv /\ OwnershipInv /\ HoldersInv /\ PaidInv
  BY TypesInitially, OwnersInitially, HoldersInitially, PaidInitially
<1>2. TypesInv /\ OwnershipInv /\ HoldersInv /\ PaidInv /\ [AnalysisNext]_analysisVars
        => (TypesInv /\ OwnershipInv /\ HoldersInv /\ PaidInv)'
  BY TypesStep, OwnersStep, HoldersStep, PaidStep
<1> QED BY <1>1, <1>2, PTL DEF AnalysisSpec

\* Rows, processors, transactions and late statements keep their types for any
\* constants (the columns of migration 3 and their CHECKs).
THEOREM AnalysisTypeCorrect == AnalysisSpec => []AnalysisTypeOK
PROOF
<1>1. TypesInv => AnalysisTypeOK
  BY DEF TypesInv
<1> QED BY <1>1, AnalysisInvariant, PTL

\* However completions interleave, lose their callers or come late, one
\* recording owns a content and every alias names it (complete_audio_analysis
\* under its advisory lock).
THEOREM ContentsHaveOneOwner == AnalysisSpec => []OneOwnerPerContent
PROOF
<1>1. OwnershipInv => OneOwnerPerContent
  BY DEF OwnershipInv
<1> QED BY <1>1, AnalysisInvariant, PTL

\* Without a lease or a token no recording is analyzed twice at once, and no
\* decoding goes without an attempt (ClaimAudio, FailAudio).
THEOREM ClaimsAreExclusive == AnalysisSpec => []AnalysisIsExclusive
PROOF
<1>1. TypesInv /\ HoldersInv /\ PaidInv => AnalysisIsExclusive
  BY DEF HoldersInv, Holding, PaidInv, AnalysisIsExclusive
<1> QED BY <1>1, AnalysisInvariant, PTL

\* What no step does: write a final row.
Same == \A r \in Recordings : rows[r].status \in Final => rows'[r] = rows[r]

\* No step writes a final row.
LEMMA FinalStep ==
  ASSUME TypesInv, OwnershipInv, AnalysisNext
  PROVE  Same
PROOF
<1>0. AnalysisTypeOK /\ OneOwnerPerContent
  BY DEF TypesInv, OwnershipInv
<1>1. Quiet \/ UNCHANGED rows => Same
  BY DEF Same, Quiet
<1>2. ASSUME NEW p \in Processors, ProcessStep(p) \/ Restart(p) PROVE Same
  <2>1. CASE ClaimAudio(p)
    BY <1>0, <1>1, <2>1, ClaimIsQuiet DEF ClaimAudio, TypesInv
  <2>2. CASE FailAudio(p)
    <3>1. at[p].rec \in Recordings /\ at[p].retry \in BOOLEAN
      BY <1>0, <2>2, PlaceValues DEF FailAudio, TypesInv, AnalysisTypeOK
    <3> QED BY <1>0, <1>1, <2>2, <3>1, FailIsQuiet DEF FailAudio
  <2> QED BY <1>1, <1>2, <2>1, <2>2 DEF ProcessStep, ClaimFails, Analyzed, AnalysisFails,
        CompleteFails, FailFails, Restart
<1>3. ASSUME NEW p \in Processors, NEW r \in Recordings,
             Ingest(p, r) \/ IngestFails(p, r) \/ FileReappears(p, r)
      PROVE  Same
  BY <1>0, <1>1, <1>3, InsertIsQuiet DEF Ingest, IngestFails, FileReappears
<1>4. ASSUME NEW tx \in txs, TxStep(tx) PROVE Same
  <2>1. CASE Commit(tx)
    BY <1>0, <2>1, CommitWrites DEF Same, Final
  <2> QED BY <1>1, <1>4, <2>1 DEF TxStep, Lock, LookUp, Rollback
<1>5. ASSUME NEW u \in late, LateUpdate(u) PROVE Same
  <2>1. u.rec \in Recordings /\ (u.op = "fail" => u.retry \in BOOLEAN)
    BY <1>0 DEF AnalysisTypeOK, Update
  <2> QED BY <1>0, <1>1, <1>5, <2>1, ClaimIsQuiet, FailIsQuiet DEF LateUpdate
<1>6. ASSUME NEW r \in Recordings, FileAppears(r) PROVE Same
  BY <1>1, <1>6 DEF FileAppears
<1> QED BY <1>2, <1>3, <1>4, <1>5, <1>6 DEF AnalysisNext

\* A completed or skipped row is never written again, by whichever statement
\* was given up on before (the status guards of ClaimAudio, FailAudio, the
\* insertion and complete_audio_analysis).
THEOREM FinalRowsStay == AnalysisSpec => FinalAnalysisStays
PROOF
<1>1. TypesInv /\ OwnershipInv /\ [AnalysisNext]_analysisVars => [Same]_analysisVars
  BY FinalStep
<1> QED BY <1>1, AnalysisInvariant, PTL DEF AnalysisSpec, FinalAnalysisStays, Same

-----------------------------------------------------------------------------
(***************************************************************************)
(* The transcription: it keeps what AudioAnalysis promises, sends owners   *)
(* only, tells one story in the row and its attempts, and never gives up a *)
(* transcript.                                                             *)
(*                                                                         *)
(* Story is the agreement of one row with its attempts; a row that has any *)
(* is one whose analysis is final (Owned), which is why the trigger never  *)
(* fires for it.                                                           *)
(*                                                                         *)
(* Counted is about the number a worker reads before its claim: tries are  *)
(* never taken back, so it is not ahead of the row when a retry is judged. *)
(***************************************************************************)

-----------------------------------------------------------------------------
(* The analysis beneath.                                                   *)

\* No transcription step touches the analysis columns, and the trigger lets
\* every step of the analysis be what it was.
LEMMA StepOfAnalysis ==
  [TranscriptionNext]_transcriptionVars => [AnalysisNext]_analysisVars
BY DEF TranscriptionNext, transcriptionVars, WithTrigger, ScribeStep, Choose, TakeJob,
   SourceUnavailable, Transcribe, Finish, ClaimUnanswered, Drop, TimeGoesBy

\* Transcription is a client of the analysis: whatever is proved of AnalysisSpec
\* holds with any number of transcription workers beside it (the two share one
\* table and the trigger of migration 4).
THEOREM TranscriptionKeepsAnalysis == TranscriptionSpec => AnalysisSpec
PROOF
<1>1. TranscriptionInit => AnalysisInit
  BY DEF TranscriptionInit
<1> QED BY <1>1, StepOfAnalysis, PTL DEF TranscriptionSpec, AnalysisSpec

-----------------------------------------------------------------------------
(* Jobs as values.                                                         *)

\* The fields of a job.
LEMMA JobFields ==
  ASSUME NEW job \in Job
  PROVE  /\ job.status \in {"pending", "processing", "completed", "failed", "skipped"}
         /\ job.attempts \in Nat /\ job.retryable \in BOOLEAN /\ job.claim \in Nat
         /\ job.due \in Nat \cup {NoDue}
BY DEF Job

\* The job a claim makes: processing, under the new claim, one try more.
LEMMA ClaimedFields ==
  ASSUME NEW r, jobs[r] \in Job, NEW n \in Nat
  PROVE  LET job == ClaimedJob(r, n) IN
         /\ job \in Job /\ job.status = "processing" /\ job.claim = n
         /\ job.attempts = jobs[r].attempts + 1
PROOF
<1>1. jobs[r].attempts + 1 \in Nat /\ JobLease \in Nat
  BY JobFields, TranscriptionAssumption
<1> QED BY <1>1 DEF ClaimedJob, Job

\* The job a claim makes when no try is left.
LEMMA ExhaustedFields ==
  ASSUME NEW r, jobs[r] \in Job
  PROVE  LET job == ExhaustedJob(r) IN
         /\ job \in Job /\ job.status = "failed" /\ job.claim = NoClaim /\ ~ job.retryable
         /\ job.attempts = jobs[r].attempts
BY DEF ExhaustedJob, Job, NoClaim

\* The job a finish makes.
LEMMA FinishedFields ==
  ASSUME NEW r, jobs[r] \in Job, NEW result \in Results, NEW retry \in BOOLEAN,
         NEW delay \in Backoffs
  PROVE  LET job == FinishedJob(r, result, retry, delay) IN
         /\ job \in Job /\ job.claim = NoClaim /\ job.attempts = jobs[r].attempts
         /\ job.status = (IF result = "text" THEN "completed" ELSE "failed")
         /\ job.retryable <=> (result # "text" /\ retry)
         /\ result = "text" => job.due = NoDue
PROOF
<1>1. delay \in Nat
  BY TranscriptionAssumption
<1>2. PICK due \in Nat \cup {NoDue} : due = IF result # "text" /\ retry THEN delay ELSE NoDue
  BY <1>1
<1>3. PICK status \in {"completed", "failed"} :
        status = IF result = "text" THEN "completed" ELSE "failed"
  OBVIOUS
<1>4. PICK again \in BOOLEAN : again = (result # "text" /\ retry)
  OBVIOUS
<1>5. FinishedJob(r, result, retry, delay)
        = [jobs[r] EXCEPT !.status = status, !.retryable = again, !.due = due, !.claim = NoClaim]
  BY <1>2, <1>3, <1>4 DEF FinishedJob
<1>6. PICK job \in Job :
        job = [jobs[r] EXCEPT !.status = status, !.retryable = again, !.due = due, !.claim = NoClaim]
  BY DEF Job, NoClaim
<1>7. /\ job.claim = NoClaim /\ job.attempts = jobs[r].attempts /\ job.status = status
      /\ job.retryable = again /\ job.due = due
  BY <1>6 DEF Job
<1>8. FinishedJob(r, result, retry, delay) = job
  BY <1>5, <1>6
<1>9. job.retryable <=> (result # "text" /\ retry)
  BY <1>4, <1>7
<1>10. result = "text" => job.due = NoDue
  BY <1>2, <1>7
<1> HIDE DEF FinishedJob
<1> QED BY <1>3, <1>7, <1>8, <1>9, <1>10

\* A skipped job, as the trigger writes it.
LEMMA SkippedFields ==
  ASSUME NEW job \in Job
  PROVE  LET skipped == [job EXCEPT !.status = "skipped", !.retryable = FALSE] IN
         /\ skipped \in Job /\ skipped.status = "skipped" /\ skipped.attempts = job.attempts
         /\ skipped.claim = job.claim /\ ~ skipped.retryable
BY DEF Job

\* A job whose moment has come nearer is the same in all else.
LEMMA WaitingFields ==
  ASSUME NEW job \in Job, job.due > 0
  PROVE  LET later == [job EXCEPT !.due = @ - 1] IN
         /\ later \in Job /\ later.status = job.status /\ later.attempts = job.attempts
         /\ later.claim = job.claim /\ later.retryable = job.retryable
PROOF
<1>1. job.due - 1 \in Nat
  BY JobFields DEF NoDue
<1> QED BY <1>1 DEF Job

-----------------------------------------------------------------------------
(* Attempts as values.                                                     *)

\* The fields of an attempt.
LEMMA TryFields ==
  ASSUME NEW log \in Seq(Try), NEW i \in 1 .. Len(log)
  PROVE  log[i] \in Try /\ log[i].claim \in Nat
PROOF
<1>1. log[i] \in Try
  OBVIOUS
<1> QED BY <1>1 DEF Try

\* Closing the displaced attempt changes no number and no other outcome.
LEMMA InterruptFields ==
  ASSUME NEW r, tries[r] \in Seq(Try)
  PROVE  /\ Interrupt(r) \in Seq(Try) /\ Len(Interrupt(r)) = Len(tries[r])
         /\ \A i \in 1 .. Len(tries[r]) :
              /\ Interrupt(r)[i].claim = tries[r][i].claim
              /\ Interrupt(r)[i].outcome =
                   IF /\ jobs[r].status = "processing"
                      /\ tries[r][i].claim = jobs[r].claim /\ tries[r][i].outcome = "processing"
                     THEN "interrupted" ELSE tries[r][i].outcome
PROOF
<1> DEFINE log == tries[r]
           hit(i) == /\ jobs[r].status = "processing"
                     /\ log[i].claim = jobs[r].claim /\ log[i].outcome = "processing"
<1>1. \A i \in 1 .. Len(log) : log[i] \in Try
  BY TryFields
<1>2. \A i \in 1 .. Len(log) :
        /\ [log[i] EXCEPT !.outcome = "interrupted"] \in Try
        /\ [log[i] EXCEPT !.outcome = "interrupted"].claim = log[i].claim
        /\ [log[i] EXCEPT !.outcome = "interrupted"].outcome = "interrupted"
  BY <1>1 DEF Try
<1>3. Len(log) \in Nat
  OBVIOUS
<1>4. Interrupt(r) = [i \in 1 .. Len(log) |->
                       IF hit(i) THEN [log[i] EXCEPT !.outcome = "interrupted"] ELSE log[i]]
  BY DEF Interrupt
<1> HIDE DEF log, hit
<1>5. Interrupt(r) \in [1 .. Len(log) -> Try]
  BY <1>1, <1>2, <1>4
<1>6. Interrupt(r) \in Seq(Try) /\ Len(Interrupt(r)) = Len(log)
  BY <1>3, <1>5
<1>7. \A i \in 1 .. Len(log) :
        /\ Interrupt(r)[i].claim = log[i].claim
        /\ Interrupt(r)[i].outcome = IF hit(i) THEN "interrupted" ELSE log[i].outcome
  BY <1>2, <1>4
<1> QED BY <1>6, <1>7 DEF log, hit

\* The attempts after finish_transcription: those of the claim have the outcome.
Finished(log, claim, outcome) ==
  [i \in 1 .. Len(log) |->
     IF log[i].claim = claim THEN [log[i] EXCEPT !.outcome = outcome] ELSE log[i]]

\* A finish changes the outcome of its own attempt and of no other.
LEMMA FinishedLog ==
  ASSUME NEW log \in Seq(Try), NEW claim,
         NEW outcome \in {"completed", "retry", "failed", "canceled"}
  PROVE  LET after == Finished(log, claim, outcome) IN
         /\ after \in Seq(Try) /\ Len(after) = Len(log)
         /\ \A i \in 1 .. Len(log) :
              /\ after[i].claim = log[i].claim
              /\ after[i].outcome = IF log[i].claim = claim THEN outcome ELSE log[i].outcome
PROOF
<1>1. \A i \in 1 .. Len(log) : log[i] \in Try
  BY TryFields
<1>2. \A i \in 1 .. Len(log) :
        /\ [log[i] EXCEPT !.outcome = outcome] \in Try
        /\ [log[i] EXCEPT !.outcome = outcome].claim = log[i].claim
        /\ [log[i] EXCEPT !.outcome = outcome].outcome = outcome
  BY <1>1 DEF Try
<1>3. Len(log) \in Nat
  OBVIOUS
<1>4. Finished(log, claim, outcome) \in [1 .. Len(log) -> Try]
  BY <1>1, <1>2 DEF Finished
<1>5. Finished(log, claim, outcome) \in Seq(Try) /\ Len(Finished(log, claim, outcome)) = Len(log)
  BY <1>3, <1>4
<1>6. \A i \in 1 .. Len(log) :
        /\ Finished(log, claim, outcome)[i].claim = log[i].claim
        /\ Finished(log, claim, outcome)[i].outcome =
             IF log[i].claim = claim THEN outcome ELSE log[i].outcome
  BY <1>2 DEF Finished
<1> QED BY <1>5, <1>6

-----------------------------------------------------------------------------
(* The story of a row.                                                     *)

\* What a row and its attempts agree on, when n claims were made in all.
Story(job, log, n) ==
  /\ Len(log) = job.attempts /\ job.attempts <= MaxTries
  /\ \A i \in 1 .. Len(log) : log[i].claim <= n
  /\ \A i, j \in 1 .. Len(log) : log[i].claim = log[j].claim => i = j
  /\ \A i \in 1 .. Len(log) - 1 : log[i].outcome \notin {"processing", "completed", "failed"}
  /\ job.claim # NoClaim <=> job.status = "processing"
  /\ job.status = "completed" => job.due = NoDue
  /\ Len(log) = 0 => job.status \in {"pending", "skipped"}
  /\ Len(log) # 0 =>
       /\ log[Len(log)].outcome = "processing" <=> job.status = "processing"
       /\ job.status = "processing" => log[Len(log)].claim = job.claim
       /\ log[Len(log)].outcome = "completed" <=> job.status = "completed"
       /\ log[Len(log)].outcome = "failed" => job.status = "failed" /\ ~ job.retryable

StoryInv == \A r \in Recordings : Story(jobs[r], tries[r], claimed)

\* More claims elsewhere change no row's story.
LEMMA StoryGrows ==
  ASSUME NEW job \in Job, NEW log \in Seq(Try), NEW n \in Nat, NEW m \in Nat, n <= m,
         Story(job, log, n)
  PROVE  Story(job, log, m)
PROOF
<1>1. \A i \in 1 .. Len(log) : log[i].claim \in Nat
  BY TryFields
<1>2. \A i \in 1 .. Len(log) : log[i].claim <= m
  BY <1>1 DEF Story
<1> QED BY <1>2 DEF Story

\* The displaced attempt is the last and the row's own, so after Interrupt no
\* attempt is open, and none is final unless the row is.
LEMMA Displaced ==
  ASSUME NEW r \in Recordings, jobs[r] \in Job, tries[r] \in Seq(Try), claimed \in Nat,
         Story(jobs[r], tries[r], claimed), Eligible(r)
  PROVE  /\ \A i \in 1 .. Len(tries[r]) :
              /\ Interrupt(r)[i].claim = tries[r][i].claim
              /\ Interrupt(r)[i].outcome \notin {"processing", "completed", "failed"}
         /\ Interrupt(r) \in Seq(Try) /\ Len(Interrupt(r)) = Len(tries[r])
PROOF
<1>1. /\ Interrupt(r) \in Seq(Try) /\ Len(Interrupt(r)) = Len(tries[r]) /\ Len(tries[r]) \in Nat
      /\ \A i \in 1 .. Len(tries[r]) :
           /\ Interrupt(r)[i].claim = tries[r][i].claim
           /\ Interrupt(r)[i].outcome =
                IF /\ jobs[r].status = "processing"
                   /\ tries[r][i].claim = jobs[r].claim /\ tries[r][i].outcome = "processing"
                  THEN "interrupted" ELSE tries[r][i].outcome
  BY InterruptFields
<1>2. jobs[r].status \notin {"completed", "skipped"} /\ jobs[r].retryable
  BY DEF Eligible
<1>3. ASSUME NEW i \in 1 .. Len(tries[r]) - 1
      PROVE  Interrupt(r)[i].outcome \notin {"processing", "completed", "failed"}
  <2>1. i \in 1 .. Len(tries[r]) /\ tries[r][i].outcome \notin {"processing", "completed", "failed"}
    BY <1>1 DEF Story
  <2> QED BY <1>1, <2>1
<1>4. ASSUME Len(tries[r]) # 0
      PROVE  Interrupt(r)[Len(tries[r])].outcome \notin {"processing", "completed", "failed"}
  <2>1. Len(tries[r]) \in 1 .. Len(tries[r])
    BY <1>1, <1>4
  <2> QED BY <1>1, <1>2, <1>4, <2>1 DEF Story
<1>5. \A i \in 1 .. Len(tries[r]) : i \in 1 .. Len(tries[r]) - 1 \/ (i = Len(tries[r]) /\ Len(tries[r]) # 0)
  BY <1>1
<1> QED BY <1>1, <1>3, <1>4, <1>5

\* A claim closes the attempt it displaces, or finds the tries used up, and adds
\* its own under a number never used before.
LEMMA StoryOfClaim ==
  ASSUME TranscriptionTypeOK, StoryInv, NEW r \in Recordings, Claim(r)
  PROVE  /\ jobs' \in [Recordings -> Job] /\ tries' \in [Recordings -> Seq(Try)]
         /\ claimed' \in Nat
         /\ StoryInv'
         /\ \A s \in Recordings : s # r => jobs'[s] = jobs[s] /\ tries'[s] = tries[s]
         /\ Exhausted(r) => jobs'[r].attempts = jobs[r].attempts
         /\ ~ Exhausted(r) => jobs'[r].attempts = jobs[r].attempts + 1
         /\ jobs'[r].status \in {"processing", "failed"}
PROOF
<1>1. /\ jobs[r] \in Job /\ tries[r] \in Seq(Try) /\ claimed \in Nat
      /\ Story(jobs[r], tries[r], claimed) /\ Eligible(r)
  BY DEF TranscriptionTypeOK, StoryInv, Claim
<1>2. PICK log \in Seq(Try) :
        /\ log = Interrupt(r) /\ Len(log) = Len(tries[r])
        /\ \A i \in 1 .. Len(log) :
             /\ log[i].claim = tries[r][i].claim
             /\ log[i].outcome \notin {"processing", "completed", "failed"}
  BY <1>1, Displaced
<1>3. /\ Len(log) \in Nat /\ Len(log) = jobs[r].attempts /\ jobs[r].attempts <= MaxTries
      /\ \A i \in 1 .. Len(log) : log[i].claim <= claimed /\ log[i].claim \in Nat
      /\ \A i, j \in 1 .. Len(log) : log[i].claim = log[j].claim => i = j
  <2>1. Len(log) \in Nat /\ \A i \in 1 .. Len(log) : log[i].claim \in Nat
    BY TryFields
  <2> QED BY <1>1, <1>2, <2>1 DEF Story
<1>4. MaxTries \in Nat \ {0} /\ jobs[r].attempts \in Nat
  BY <1>1, JobFields, TranscriptionAssumption
<1>5. CASE Exhausted(r)
  <2>1. PICK job \in Job :
          /\ job = ExhaustedJob(r) /\ job.status = "failed" /\ job.claim = NoClaim
          /\ ~ job.retryable /\ job.attempts = jobs[r].attempts
    BY <1>1, ExhaustedFields
  <2>2. /\ claimed' = claimed
        /\ jobs' = [jobs EXCEPT ![r] = job] /\ tries' = [tries EXCEPT ![r] = log]
    BY <1>2, <1>5, <2>1 DEF Claim
  <2>3. /\ jobs'[r] = job /\ tries'[r] = log
        /\ jobs' \in [Recordings -> Job] /\ tries' \in [Recordings -> Seq(Try)]
        /\ \A s \in Recordings : s # r => jobs'[s] = jobs[s] /\ tries'[s] = tries[s]
    BY <2>2 DEF TranscriptionTypeOK
  <2>4. Len(log) # 0
    BY <1>3, <1>4, <1>5 DEF Exhausted
  <2>5. Len(log) \in 1 .. Len(log) /\ \A i \in 1 .. Len(log) - 1 : i \in 1 .. Len(log)
    BY <1>3, <2>4
  <2>6. Story(job, log, claimed)
    BY <1>2, <1>3, <2>1, <2>4, <2>5 DEF Story
  <2> QED BY <1>1, <1>5, <2>1, <2>2, <2>3, <2>6 DEF StoryInv
<1>6. CASE ~ Exhausted(r)
  <2>0. claimed + 1 \in Nat /\ claimed' = claimed + 1
    BY <1>1, <1>6 DEF Claim
  <2>1. PICK job \in Job :
          /\ job = ClaimedJob(r, claimed + 1) /\ job.status = "processing"
          /\ job.claim = claimed + 1 /\ job.attempts = jobs[r].attempts + 1
    BY <1>1, <2>0, ClaimedFields
  <2>2. PICK new \in Try : new = [claim |-> claimed + 1, outcome |-> "processing"]
    BY <2>0 DEF Try
  <2>3. PICK after \in Seq(Try) : after = Append(log, new)
    <3>1. Append(log, new) \in Seq(Try)
      OBVIOUS
    <3> QED BY <3>1
  <2>4. /\ jobs' = [jobs EXCEPT ![r] = job] /\ tries' = [tries EXCEPT ![r] = after]
    BY <1>2, <1>6, <2>0, <2>1, <2>2, <2>3 DEF Claim
  <2>5. /\ jobs'[r] = job /\ tries'[r] = after
        /\ jobs' \in [Recordings -> Job] /\ tries' \in [Recordings -> Seq(Try)]
        /\ \A s \in Recordings : s # r => jobs'[s] = jobs[s] /\ tries'[s] = tries[s]
    BY <2>4 DEF TranscriptionTypeOK
  <2>6. /\ Len(after) = Len(log) + 1
        /\ after[Len(after)].claim = claimed + 1 /\ after[Len(after)].outcome = "processing"
        /\ \A i \in 1 .. Len(log) : after[i] = log[i]
    <3>1. Len(after) = Len(log) + 1 /\ after[Len(log) + 1] = new
          /\ \A i \in 1 .. Len(log) : after[i] = log[i]
      BY <2>3
    <3> QED BY <2>2, <3>1
  <2>7. \A i \in 1 .. Len(after) : i \in 1 .. Len(log) \/ i = Len(after)
    BY <1>3, <2>6
  <2>8. /\ \A i \in 1 .. Len(after) : after[i].claim <= claimed + 1
        /\ \A i \in 1 .. Len(log) : after[i].claim # claimed + 1
    <3>1. \A i \in 1 .. Len(log) : after[i].claim <= claimed
      BY <1>3, <2>6
    <3>2. \A i \in 1 .. Len(log) : after[i].claim \in Nat
      BY <1>3, <2>6
    <3>3. \A i \in 1 .. Len(log) : after[i].claim <= claimed + 1 /\ after[i].claim # claimed + 1
      BY <1>1, <3>1, <3>2
    <3>4. after[Len(after)].claim <= claimed + 1
      BY <1>1, <2>6
    <3> QED BY <2>7, <3>3, <3>4
  <2>9. \A i, j \in 1 .. Len(after) : after[i].claim = after[j].claim => i = j
    BY <1>3, <2>6, <2>7, <2>8
  <2>10. \A i \in 1 .. Len(after) - 1 : after[i].outcome \notin {"processing", "completed", "failed"}
    BY <1>2, <1>3, <2>6
  <2>11. job.attempts <= MaxTries /\ Len(after) # 0
    BY <1>3, <1>4, <1>6, <2>1, <2>6 DEF Exhausted
  <2>12. Story(job, after, claimed + 1)
    <3>1. Len(after) = job.attempts /\ job.attempts <= MaxTries
      BY <1>3, <2>1, <2>6, <2>11
    <3>2. job.claim # NoClaim
      BY <1>1, <2>1 DEF NoClaim
    <3>3. /\ after[Len(after)].outcome = "processing" /\ job.status = "processing"
          /\ after[Len(after)].claim = job.claim
      BY <2>1, <2>6
    <3> QED BY <2>8, <2>9, <2>10, <2>11, <3>1, <3>2, <3>3 DEF Story
  <2>13. \A s \in Recordings : s # r => Story(jobs[s], tries[s], claimed + 1)
    <3>1. claimed <= claimed + 1
      BY <1>1
    <3> QED BY <1>1, <2>0, <3>1, StoryGrows DEF StoryInv, TranscriptionTypeOK
  <2> QED BY <1>6, <2>0, <2>1, <2>5, <2>12, <2>13 DEF StoryInv
<1> QED BY <1>5, <1>6

\* A finish that is not fenced off writes the last attempt and the row alike.
LEMMA StoryOfFinish ==
  ASSUME TranscriptionTypeOK, StoryInv, NEW r \in Recordings, NEW claim \in Nat,
         NEW result \in Results, NEW retry \in BOOLEAN, NEW delay \in Backoffs,
         FinishTranscription(r, claim, result, retry, delay), claimed' = claimed
  PROVE  /\ jobs' \in [Recordings -> Job] /\ tries' \in [Recordings -> Seq(Try)]
         /\ StoryInv'
         /\ \A s \in Recordings : s # r => jobs'[s] = jobs[s] /\ tries'[s] = tries[s]
         /\ jobs'[r].attempts = jobs[r].attempts
         /\ ~ Holds(r, claim) => jobs'[r] = jobs[r] /\ tries'[r] = tries[r]
         /\ jobs'[r].status = "pending" => jobs'[r] = jobs[r]
PROOF
<1>1. /\ jobs[r] \in Job /\ tries[r] \in Seq(Try) /\ claimed \in Nat
      /\ Story(jobs[r], tries[r], claimed)
  BY DEF TranscriptionTypeOK, StoryInv
<1>2. CASE ~ Holds(r, claim)
  BY <1>1, <1>2 DEF FinishTranscription, StoryInv, TranscriptionTypeOK
<1>3. CASE Holds(r, claim)
  <2>1. PICK outcome \in {"completed", "retry", "failed", "canceled"} :
          /\ outcome = OutcomeOf(result, retry)
          /\ outcome = "completed" <=> result = "text"
          /\ outcome = "failed" => result # "text" /\ ~ retry
    BY DEF OutcomeOf, Results
  <2>2. PICK job \in Job :
          /\ job = FinishedJob(r, result, retry, delay)
          /\ job.claim = NoClaim /\ job.attempts = jobs[r].attempts
          /\ job.status = (IF result = "text" THEN "completed" ELSE "failed")
          /\ job.retryable <=> (result # "text" /\ retry)
          /\ result = "text" => job.due = NoDue
    BY <1>1, FinishedFields
  <2>3. PICK log \in Seq(Try) :
          /\ log = Finished(tries[r], claim, outcome) /\ Len(log) = Len(tries[r])
          /\ \A i \in 1 .. Len(tries[r]) :
               /\ log[i].claim = tries[r][i].claim
               /\ log[i].outcome = IF tries[r][i].claim = claim THEN outcome
                                   ELSE tries[r][i].outcome
    BY <1>1, FinishedLog
  <2>4. jobs' = [jobs EXCEPT ![r] = job] /\ tries' = [tries EXCEPT ![r] = log]
    BY <1>3, <2>1, <2>2, <2>3 DEF FinishTranscription, Finished
  <2>5. /\ jobs'[r] = job /\ tries'[r] = log
        /\ jobs' \in [Recordings -> Job] /\ tries' \in [Recordings -> Seq(Try)]
        /\ \A s \in Recordings : s # r => jobs'[s] = jobs[s] /\ tries'[s] = tries[s]
    BY <2>4 DEF TranscriptionTypeOK
  <2>6. Len(log) \in Nat /\ Len(log) # 0 /\ Len(log) \in 1 .. Len(log)
        /\ tries[r][Len(log)].claim = claim
    BY <1>1, <1>3, <2>3 DEF Story, Holds
  <2>7. \A i \in 1 .. Len(log) - 1 : i \in 1 .. Len(log) /\ tries[r][i].claim # claim
    BY <1>1, <2>3, <2>6 DEF Story
  <2>8. Story(job, log, claimed)
    <3>1. Len(log) = job.attempts /\ job.attempts <= MaxTries
      BY <1>1, <2>2, <2>3 DEF Story
    <3>2. /\ \A i \in 1 .. Len(log) : log[i].claim <= claimed
          /\ \A i, j \in 1 .. Len(log) : log[i].claim = log[j].claim => i = j
      BY <1>1, <2>3 DEF Story
    <3>3. \A i \in 1 .. Len(log) - 1 : log[i].outcome \notin {"processing", "completed", "failed"}
      BY <1>1, <2>3, <2>7 DEF Story
    <3>4. log[Len(log)].outcome = outcome
      BY <2>3, <2>6
    <3> QED BY <2>1, <2>2, <2>6, <3>1, <3>2, <3>3, <3>4 DEF Story
  <2> QED BY <1>1, <1>3, <2>2, <2>5, <2>8 DEF StoryInv
<1> QED BY <1>2, <1>3

-----------------------------------------------------------------------------
(* The invariant.                                                          *)

\* The recording's audio is its own: the analysis of such a row is final.
Owned(r) == rows[r].status = "completed" /\ rows[r].print # None

\* The workers that have a claim on r and are about to send it.
Asking(r) == {w \in Scribes : scribe[w].step = "request" /\ scribe[w].rec = r}

ScribesInv ==
  \A w \in Scribes :
    /\ scribe[w].step # "idle" => scribe[w].rec \in Recordings
    /\ scribe[w].step \in {"request", "finish"} => Owned(scribe[w].rec)

JobsInv ==
  \A r \in Recordings :
    /\ jobs[r].status \notin {"pending", "skipped"} \/ tries[r] # <<>> \/ requests[r] > 0
         => Owned(r)
    /\ rows[r].aliasOf # None => jobs[r].status = "skipped"

\* Every request, made or about to be made, is one of a try of its own.
RequestsInv ==
  \A r \in Recordings : requests[r] + Cardinality(Asking(r)) <= jobs[r].attempts

JobInv ==
  /\ TranscriptionTypeOK
  /\ ScribesInv /\ StoryInv /\ JobsInv /\ RequestsInv

\* An owned row stays one, and is not an alias.
LEMMA OwnedStays ==
  ASSUME TypesInv, OwnershipInv, [AnalysisNext]_analysisVars, NEW r \in Recordings, Owned(r)
  PROVE  Owned(r)' /\ rows'[r] = rows[r] /\ rows[r].aliasOf = None
PROOF
<1>1. Same
  BY FinalStep DEF Same, analysisVars
<1> QED BY <1>1 DEF Owned, Same, Final, OwnershipInv, OneOwnerPerContent

\* As many workers ask for a recording as there are, which is finite.
LEMMA AskingFinite ==
  ASSUME NEW r
  PROVE  IsFiniteSet(Asking(r)) /\ Cardinality(Asking(r)) \in Nat
BY TranscriptionAssumption, FS_Subset, FS_CardinalityType DEF Asking

\* Fewer ask and no try is taken back.
LEMMA RequestsStay ==
  ASSUME TranscriptionTypeOK, RequestsInv, NEW r \in Recordings,
         requests'[r] = requests[r], Asking(r)' \subseteq Asking(r),
         jobs'[r].attempts \in Nat, jobs[r].attempts <= jobs'[r].attempts
  PROVE  requests'[r] + Cardinality(Asking(r)') <= jobs'[r].attempts
PROOF
<1>1. Cardinality(Asking(r)') <= Cardinality(Asking(r)) /\ Cardinality(Asking(r)') \in Nat
  BY AskingFinite, FS_Subset, FS_CardinalityType
<1>2. requests[r] \in Nat /\ jobs[r].attempts \in Nat /\ Cardinality(Asking(r)) \in Nat
  BY AskingFinite, JobFields DEF TranscriptionTypeOK
<1> QED BY <1>1, <1>2 DEF RequestsInv

\* Worker w moves to x; whoever else asks still does.
LEMMA Stands ==
  ASSUME TranscriptionTypeOK, NEW w \in Scribes, NEW x \in ScribePlace, Stand(w, x)
  PROVE  /\ scribe' \in [Scribes -> ScribePlace] /\ scribe'[w] = x
         /\ \A v \in Scribes : v # w => scribe'[v] = scribe[v]
         /\ \A r : Asking(r)' = (Asking(r) \ {w})
                                 \cup (IF x.step = "request" /\ x.rec = r THEN {w} ELSE {})
PROOF
<1>1. /\ scribe' \in [Scribes -> ScribePlace] /\ scribe'[w] = x
      /\ \A v \in Scribes : v # w => scribe'[v] = scribe[v]
  BY DEF Stand, TranscriptionTypeOK
<1> QED BY <1>1 DEF Asking

\* The fields of a place, and what it is to rest.
LEMMA Places ==
  ASSUME NEW place \in ScribePlace
  PROVE  /\ Resting \in ScribePlace /\ Resting.step = "idle"
         /\ place.rec \in Recordings \cup {None} /\ place.attempt \in Nat
         /\ place.claim \in Nat /\ place.result \in Results
BY DEF Resting, ScribePlace, Results, NoClaim

\* Worker w moves to a place that is sound for it.
LEMMA ScribesMove ==
  ASSUME JobInv, NEW w \in Scribes, NEW x \in ScribePlace, Stand(w, x), UNCHANGED rows,
         x.step # "idle" => x.rec \in Recordings,
         x.step \in {"request", "finish"} => Owned(x.rec)
  PROVE  ScribesInv'
PROOF
<1>1. /\ scribe'[w] = x
      /\ \A v \in Scribes : v # w => scribe'[v] = scribe[v]
  BY Stands DEF JobInv
<1> QED BY <1>1 DEF JobInv, ScribesInv, Owned

\* A worker moves and nothing is written or sent.
LEMMA OnlyMoves ==
  ASSUME JobInv, NEW w \in Scribes, NEW x \in ScribePlace, Stand(w, x),
         UNCHANGED <<rows, jobs, tries, claimed, requests>>,
         x.step # "request",
         x.step # "idle" => x.rec \in Recordings,
         x.step = "finish" => Owned(x.rec)
  PROVE  JobInv'
PROOF
<1>0. TranscriptionTypeOK
  BY DEF JobInv
<1>1. scribe' \in [Scribes -> ScribePlace] /\ \A r : Asking(r)' \subseteq Asking(r)
  BY <1>0, Stands
<1>2. ScribesInv'
  BY ScribesMove
<1>3. RequestsInv'
  <2> SUFFICES ASSUME NEW r \in Recordings
               PROVE  requests'[r] + Cardinality(Asking(r)') <= jobs'[r].attempts
    BY DEF RequestsInv
  <2>1. jobs[r].attempts \in Nat
    BY <1>0, JobFields DEF TranscriptionTypeOK
  <2> QED BY <1>0, <1>1, <2>1, RequestsStay DEF JobInv
<1>4. TranscriptionTypeOK'
  BY <1>0, <1>1 DEF TranscriptionTypeOK
<1>5. StoryInv' /\ JobsInv'
  BY DEF JobInv, StoryInv, JobsInv, Owned
<1> QED BY <1>2, <1>3, <1>4, <1>5 DEF JobInv

\* A claim is made, and worker w goes on to x, with the request or without.
LEMMA ClaimStep ==
  ASSUME JobInv, OwnershipInv, NEW w \in Scribes, NEW r \in Recordings, scribe[w].step = "claim",
         NEW x \in ScribePlace, Stand(w, x), UNCHANGED <<rows, requests>>,
         Claim(r),
         x.step = "idle" \/ (x.step = "request" /\ x.rec = r /\ ~ Exhausted(r))
  PROVE  JobInv'
PROOF
<1>0. TranscriptionTypeOK /\ Eligible(r) /\ Owned(r)
  BY DEF JobInv, Claim, Eligible, Owned
<1>1. /\ jobs' \in [Recordings -> Job] /\ tries' \in [Recordings -> Seq(Try)]
      /\ claimed' \in Nat /\ StoryInv'
      /\ \A s \in Recordings : s # r => jobs'[s] = jobs[s] /\ tries'[s] = tries[s]
      /\ Exhausted(r) => jobs'[r].attempts = jobs[r].attempts
      /\ ~ Exhausted(r) => jobs'[r].attempts = jobs[r].attempts + 1
      /\ jobs'[r].status \in {"processing", "failed"}
  BY <1>0, StoryOfClaim DEF JobInv
<1>2. /\ scribe' \in [Scribes -> ScribePlace]
      /\ \A s : Asking(s)' = (Asking(s) \ {w})
                              \cup (IF x.step = "request" /\ x.rec = s THEN {w} ELSE {})
  BY <1>0, Stands
<1>3. TranscriptionTypeOK'
  BY <1>0, <1>1, <1>2 DEF TranscriptionTypeOK
<1>4. ScribesInv'
  BY <1>0, ScribesMove
<1>5. JobsInv'
  BY <1>0, <1>1, AnalysisAssumption DEF JobInv, JobsInv, Owned, Eligible
<1>6. RequestsInv'
  <2> SUFFICES ASSUME NEW s \in Recordings
               PROVE  requests'[s] + Cardinality(Asking(s)') <= jobs'[s].attempts
    BY DEF RequestsInv
  <2>1. jobs[s].attempts \in Nat /\ jobs'[s].attempts \in Nat /\ requests[s] \in Nat
    BY <1>0, <1>1, JobFields DEF TranscriptionTypeOK
  <2>2. CASE x.step = "request" /\ s = r
    <3>1. Asking(s)' = Asking(s) \cup {w} /\ w \notin Asking(s)
      BY <1>2, <2>2 DEF Asking
    <3>2. Cardinality(Asking(s)') = Cardinality(Asking(s)) + 1 /\ Cardinality(Asking(s)) \in Nat
      BY <3>1, AskingFinite, FS_AddElement
    <3>3. jobs'[s].attempts = jobs[s].attempts + 1
      BY <1>1, <2>2
    <3>4. requests[s] + Cardinality(Asking(s)) <= jobs[s].attempts
      BY DEF JobInv, RequestsInv
    <3> QED BY <2>1, <3>2, <3>3, <3>4
  <2>3. CASE x.step = "idle" \/ s # r
    <3>1. Asking(s)' \subseteq Asking(s)
      BY <1>2, <2>3
    <3>2. jobs[s].attempts <= jobs'[s].attempts
      BY <1>1, <2>1
    <3> QED BY <1>0, <2>1, <3>1, <3>2, RequestsStay DEF JobInv
  <2> QED BY <2>2, <2>3
<1> QED BY <1>1, <1>3, <1>4, <1>5, <1>6 DEF JobInv

\* A request made is one fewer about to be made.
LEMMA TranscribeStep ==
  ASSUME JobInv, NEW w \in Scribes, Transcribe(w)
  PROVE  JobInv'
PROOF
<1>0. TranscriptionTypeOK /\ scribe[w] \in ScribePlace /\ scribe[w].step = "request"
  BY DEF JobInv, Transcribe, TranscriptionTypeOK
<1>1. PICK r \in Recordings : r = scribe[w].rec /\ Owned(r)
  BY <1>0 DEF JobInv, ScribesInv
<1>2. PICK x \in ScribePlace : Stand(w, x) /\ x.step = "finish" /\ x.rec = r
  <2>1. PICK result \in Results :
          Stand(w, [scribe[w] EXCEPT !.step = "finish", !.result = result])
    BY DEF Transcribe
  <2>2. PICK x \in ScribePlace : x = [scribe[w] EXCEPT !.step = "finish", !.result = result]
    BY <1>0 DEF ScribePlace
  <2>3. x.step = "finish" /\ x.rec = scribe[w].rec
    BY <1>0, <2>2 DEF ScribePlace
  <2> QED BY <1>1, <2>1, <2>2, <2>3
<1>3. /\ UNCHANGED <<rows, jobs, tries, claimed>>
      /\ requests' = [requests EXCEPT ![r] = @ + 1]
  BY <1>1 DEF Transcribe, analysisVars
<1>4. /\ requests' \in [Recordings -> Nat] /\ requests'[r] = requests[r] + 1
      /\ \A s \in Recordings : s # r => requests'[s] = requests[s]
  BY <1>0, <1>3 DEF TranscriptionTypeOK
<1>5. /\ scribe' \in [Scribes -> ScribePlace]
      /\ \A s : Asking(s)' = Asking(s) \ {w}
  BY <1>0, <1>2, Stands
<1>6. ScribesInv'
  BY <1>1, <1>2, <1>3, ScribesMove
<1>7. JobsInv'
  BY <1>1, <1>3, <1>4 DEF JobInv, JobsInv, Owned
<1>8. RequestsInv'
  <2> SUFFICES ASSUME NEW s \in Recordings
               PROVE  requests'[s] + Cardinality(Asking(s)') <= jobs'[s].attempts
    BY DEF RequestsInv
  <2>1. jobs[s].attempts \in Nat /\ requests[s] \in Nat /\ jobs' = jobs
    BY <1>0, <1>3, JobFields DEF TranscriptionTypeOK
  <2>2. CASE s = r
    <3>1. w \in Asking(s)
      BY <1>0, <1>1, <2>2 DEF Asking
    <3>2. Cardinality(Asking(s)') = Cardinality(Asking(s)) - 1 /\ Cardinality(Asking(s)) \in Nat
      BY <1>5, <3>1, AskingFinite, FS_RemoveElement
    <3>3. requests[s] + Cardinality(Asking(s)) <= jobs[s].attempts
      BY DEF JobInv, RequestsInv
    <3> QED BY <1>4, <2>1, <2>2, <3>2, <3>3
  <2>3. CASE s # r
    BY <1>0, <1>4, <1>5, <2>1, <2>3, RequestsStay DEF JobInv
  <2> QED BY <2>2, <2>3
<1>9. TranscriptionTypeOK' /\ StoryInv'
  BY <1>0, <1>3, <1>4, <1>5 DEF TranscriptionTypeOK, JobInv, StoryInv
<1> QED BY <1>6, <1>7, <1>8, <1>9 DEF JobInv

\* A finish, fenced off or not, leaves a row its story.
LEMMA FinishStep ==
  ASSUME JobInv, OwnershipInv, NEW w \in Scribes, Finish(w)
  PROVE  JobInv'
PROOF
<1>0. TranscriptionTypeOK /\ scribe[w] \in ScribePlace /\ scribe[w].step = "finish"
  BY DEF JobInv, Finish, TranscriptionTypeOK
<1>1. PICK r \in Recordings : r = scribe[w].rec /\ Owned(r)
  BY <1>0 DEF JobInv, ScribesInv
<1>2. PICK retry \in BOOLEAN : retry = WantsRetry(w)
  BY DEF WantsRetry
<1>3. PICK delay \in Backoffs :
        FinishTranscription(r, scribe[w].claim, scribe[w].result, retry, delay)
  BY <1>1, <1>2 DEF Finish
<1>4. Stand(w, Resting) /\ UNCHANGED <<rows, claimed, requests>> /\ Resting \in ScribePlace
      /\ Resting.step = "idle"
  BY <1>0, Places DEF Finish, analysisVars
<1>5. /\ jobs' \in [Recordings -> Job] /\ tries' \in [Recordings -> Seq(Try)]
      /\ StoryInv'
      /\ \A s \in Recordings : s # r => jobs'[s] = jobs[s] /\ tries'[s] = tries[s]
      /\ jobs'[r].attempts = jobs[r].attempts
  <2>1. scribe[w].claim \in Nat /\ scribe[w].result \in Results
    BY <1>0, Places
  <2>2. StoryInv /\ claimed' = claimed
    BY <1>4 DEF JobInv
  <2> QED BY <1>0, <1>3, <2>1, <2>2, StoryOfFinish
<1>6. scribe' \in [Scribes -> ScribePlace] /\ \A s : Asking(s)' \subseteq Asking(s)
  BY <1>0, <1>4, Stands
<1>7. ScribesInv'
  BY <1>4, ScribesMove
<1>8. JobsInv'
  <2>1. rows[r].aliasOf = None
    BY <1>1 DEF OwnershipInv, OneOwnerPerContent, Owned
  <2>2. \A s \in Recordings : Owned(s)' <=> Owned(s)
    BY <1>4 DEF Owned
  <2>3. JobsInv /\ rows' = rows /\ requests' = requests
    BY <1>4 DEF JobInv
  <2>4. \A s \in Recordings : s # r => jobs'[s] = jobs[s] /\ tries'[s] = tries[s]
    BY <1>5
  <2> HIDE DEF Owned
  <2> QED BY <1>1, <2>1, <2>2, <2>3, <2>4 DEF JobsInv
<1>9. RequestsInv'
  <2> SUFFICES ASSUME NEW s \in Recordings
               PROVE  requests'[s] + Cardinality(Asking(s)') <= jobs'[s].attempts
    BY DEF RequestsInv
  <2>1. jobs'[s].attempts = jobs[s].attempts /\ jobs[s].attempts \in Nat
    BY <1>0, <1>5, JobFields DEF TranscriptionTypeOK
  <2> QED BY <1>0, <1>4, <1>6, <2>1, RequestsStay DEF JobInv
<1>10. TranscriptionTypeOK'
  BY <1>0, <1>4, <1>5, <1>6 DEF TranscriptionTypeOK
<1> QED BY <1>5, <1>7, <1>8, <1>9, <1>10 DEF JobInv

\* The trigger meets only rows no attempt was ever made for.
LEMMA TriggerStep ==
  ASSUME TypesInv, OwnershipInv, JobInv, WithTrigger(AnalysisNext)
  PROVE  JobInv'
PROOF
<1>0. TranscriptionTypeOK /\ AnalysisNext /\ UNCHANGED <<tries, scribe, claimed, requests>>
  BY DEF JobInv, WithTrigger
<1>1. \A r \in Recordings : Owned(r) => Owned(r)' /\ rows'[r] = rows[r] /\ rows[r].aliasOf = None
  BY <1>0, OwnedStays
<1>2. ASSUME NEW r \in Recordings
      PROVE  /\ jobs'[r] \in Job /\ jobs'[r].attempts = jobs[r].attempts
             /\ Story(jobs'[r], tries[r], claimed)
             /\ \/ jobs'[r] = jobs[r]
                \/ jobs'[r].status = "skipped" /\ jobs[r].status \in {"pending", "skipped"}
             /\ rows'[r].aliasOf # None => jobs'[r].status = "skipped"
  <2>1. jobs[r] \in Job /\ tries[r] \in Seq(Try) /\ Story(jobs[r], tries[r], claimed)
    BY <1>0 DEF TranscriptionTypeOK, JobInv, StoryInv
  <2>2. CASE ~ (rows'[r] # rows[r] /\ rows'[r].aliasOf # None)
    <3>1. jobs'[r] = jobs[r]
      BY <2>2 DEF WithTrigger
    <3>2. rows'[r].aliasOf # None => jobs'[r].status = "skipped"
      BY <2>2, <3>1 DEF JobInv, JobsInv
    <3> QED BY <2>1, <3>1, <3>2
  <2>3. CASE rows'[r] # rows[r] /\ rows'[r].aliasOf # None
    <3>1. ~ Owned(r)
      BY <1>1, <2>3
    <3>2. jobs[r].status \in {"pending", "skipped"} /\ tries[r] = <<>>
      BY <3>1 DEF JobInv, JobsInv
    <3>3. PICK job \in Job :
            /\ job = [jobs[r] EXCEPT !.status = "skipped", !.retryable = FALSE]
            /\ job.status = "skipped" /\ job.attempts = jobs[r].attempts
            /\ job.claim = jobs[r].claim
      BY <2>1, SkippedFields
    <3>4. jobs'[r] = job
      BY <2>3, <3>3 DEF WithTrigger
    <3>5. Len(tries[r]) = 0
      BY <3>2
    <3>6. Story(job, tries[r], claimed)
      BY <2>1, <3>2, <3>3, <3>5 DEF Story
    <3> QED BY <3>2, <3>3, <3>4, <3>6
  <2> QED BY <2>2, <2>3
<1>3. TranscriptionTypeOK'
  <2>1. jobs' \in [Recordings -> Job]
    BY <1>2 DEF WithTrigger
  <2> QED BY <1>0, <2>1 DEF TranscriptionTypeOK
<1>4. StoryInv'
  BY <1>0, <1>2 DEF StoryInv
<1>5. JobsInv'
  <2> SUFFICES ASSUME NEW r \in Recordings
               PROVE  /\ jobs'[r].status \notin {"pending", "skipped"} \/ tries'[r] # <<>>
                           \/ requests'[r] > 0 => Owned(r)'
                      /\ rows'[r].aliasOf # None => jobs'[r].status = "skipped"
    BY DEF JobsInv
  <2>1. jobs'[r].status \notin {"pending", "skipped"} => jobs[r].status \notin {"pending", "skipped"}
    BY <1>2
  <2>2. jobs[r].status \notin {"pending", "skipped"} \/ tries[r] # <<>> \/ requests[r] > 0
          => Owned(r)
    BY DEF JobInv, JobsInv
  <2>3. rows'[r].aliasOf # None => jobs'[r].status = "skipped"
    BY <1>2
  <2> QED BY <1>0, <1>1, <2>1, <2>2, <2>3
<1>6. ScribesInv'
  <2> SUFFICES ASSUME NEW w \in Scribes
               PROVE  /\ scribe'[w].step # "idle" => scribe'[w].rec \in Recordings
                      /\ scribe'[w].step \in {"request", "finish"} => Owned(scribe[w].rec)'
    BY <1>0 DEF ScribesInv, Owned
  <2>1. /\ scribe[w].step # "idle" => scribe[w].rec \in Recordings
        /\ scribe[w].step \in {"request", "finish"} => Owned(scribe[w].rec)
    BY DEF JobInv, ScribesInv
  <2> QED BY <1>0, <1>1, <2>1 DEF Owned
<1>7. RequestsInv'
  <2> SUFFICES ASSUME NEW r \in Recordings
               PROVE  requests'[r] + Cardinality(Asking(r)') <= jobs'[r].attempts
    BY DEF RequestsInv
  <2>1. jobs'[r].attempts = jobs[r].attempts /\ jobs[r].attempts \in Nat
    BY <1>0, <1>2, JobFields DEF TranscriptionTypeOK
  <2>2. Asking(r)' \subseteq Asking(r)
    BY <1>0 DEF Asking
  <2> QED BY <1>0, <2>1, <2>2, RequestsStay DEF JobInv
<1> QED BY <1>3, <1>4, <1>5, <1>6, <1>7 DEF JobInv

\* The passing of time touches no transcript, whose due is NULL.
LEMMA TimeStep ==
  ASSUME JobInv, TimeGoesBy
  PROVE  JobInv'
PROOF
<1>0. TranscriptionTypeOK /\ UNCHANGED <<rows, tries, scribe, claimed, requests>>
  BY DEF JobInv, TimeGoesBy, analysisVars
<1>1. ASSUME NEW r \in Recordings
      PROVE  /\ jobs'[r] \in Job /\ jobs'[r].attempts = jobs[r].attempts
             /\ jobs'[r].status = jobs[r].status
             /\ Story(jobs'[r], tries[r], claimed)
  <2>1. jobs[r] \in Job /\ Story(jobs[r], tries[r], claimed)
    BY <1>0 DEF TranscriptionTypeOK, JobInv, StoryInv
  <2>2. CASE ~ (jobs[r].due > 0)
    <3>1. jobs'[r] = jobs[r]
      BY <2>2 DEF TimeGoesBy
    <3> QED BY <2>1, <3>1
  <2>3. CASE jobs[r].due > 0
    <3>1. PICK job \in Job :
            /\ job = [jobs[r] EXCEPT !.due = @ - 1]
            /\ job.status = jobs[r].status /\ job.attempts = jobs[r].attempts
            /\ job.claim = jobs[r].claim /\ job.retryable = jobs[r].retryable
      BY <2>1, <2>3, WaitingFields
    <3>2. jobs'[r] = job
      BY <2>3, <3>1 DEF TimeGoesBy
    <3>3. jobs[r].status # "completed"
      BY <2>1, <2>3 DEF Story, NoDue
    <3>4. Story(job, tries[r], claimed)
      BY <2>1, <3>1, <3>3 DEF Story
    <3> QED BY <3>1, <3>2, <3>4
  <2> QED BY <2>2, <2>3
<1>2. TranscriptionTypeOK'
  <2>1. jobs' \in [Recordings -> Job]
    BY <1>1 DEF TimeGoesBy
  <2> QED BY <1>0, <2>1 DEF TranscriptionTypeOK
<1>3. StoryInv'
  BY <1>0, <1>1 DEF StoryInv
<1>4. JobsInv' /\ ScribesInv'
  BY <1>0, <1>1 DEF JobInv, JobsInv, ScribesInv, Owned
<1>5. RequestsInv'
  <2> SUFFICES ASSUME NEW r \in Recordings
               PROVE  requests'[r] + Cardinality(Asking(r)') <= jobs'[r].attempts
    BY DEF RequestsInv
  <2>1. jobs'[r].attempts = jobs[r].attempts /\ jobs[r].attempts \in Nat
    BY <1>0, <1>1, JobFields DEF TranscriptionTypeOK
  <2>2. Asking(r)' \subseteq Asking(r)
    BY <1>0 DEF Asking
  <2> QED BY <1>0, <2>1, <2>2, RequestsStay DEF JobInv
<1> QED BY <1>2, <1>3, <1>4, <1>5 DEF JobInv

\* Reading the next recording writes nothing.
LEMMA ChooseStep ==
  ASSUME JobInv, NEW w \in Scribes, Choose(w)
  PROVE  JobInv'
PROOF
<1>1. PICK r \in Recordings :
        Stand(w, [Resting EXCEPT !.step = "claim", !.rec = r, !.attempt = jobs[r].attempts + 1])
  BY DEF Choose
<1>2. jobs[r].attempts + 1 \in Nat /\ scribe[w] \in ScribePlace
  BY JobFields DEF JobInv, TranscriptionTypeOK
<1>3. PICK x \in ScribePlace :
        /\ x = [Resting EXCEPT !.step = "claim", !.rec = r, !.attempt = jobs[r].attempts + 1]
        /\ x.step = "claim" /\ x.rec = r
  <2>1. PICK place \in ScribePlace : place = Resting
    BY <1>2, Places
  <2>2. PICK x \in ScribePlace :
          x = [place EXCEPT !.step = "claim", !.rec = r, !.attempt = jobs[r].attempts + 1]
    BY <1>2 DEF ScribePlace
  <2>3. x.step = "claim" /\ x.rec = r
    BY <2>2 DEF ScribePlace
  <2> QED BY <2>1, <2>2, <2>3
<1>4. UNCHANGED <<rows, jobs, tries, claimed, requests>>
  BY DEF Choose, analysisVars
<1> QED BY <1>1, <1>3, <1>4, OnlyMoves

\* A worker gives up its place: Drop, or a claim answered with false.
LEMMA RestStep ==
  ASSUME JobInv, NEW w \in Scribes, Stand(w, Resting),
         UNCHANGED <<rows, jobs, tries, claimed, requests>>
  PROVE  JobInv'
PROOF
<1>1. Resting \in ScribePlace /\ Resting.step = "idle"
  BY Places DEF JobInv, TranscriptionTypeOK
<1> QED BY <1>1, OnlyMoves

\* A claim, answered with the job, with false or not at all.
LEMMA TakeStep ==
  ASSUME JobInv, OwnershipInv, NEW w \in Scribes, TakeJob(w) \/ ClaimUnanswered(w)
  PROVE  JobInv'
PROOF
<1>1. /\ scribe[w] \in ScribePlace /\ scribe[w].step = "claim"
      /\ UNCHANGED <<rows, requests>>
  BY DEF JobInv, TranscriptionTypeOK, TakeJob, ClaimUnanswered, analysisVars
<1>2. PICK r \in Recordings : r = scribe[w].rec
  BY <1>1 DEF JobInv, ScribesInv
<1>3. Resting \in ScribePlace /\ Resting.step = "idle"
  BY <1>1, Places
<1>4. CASE Claim(r) /\ Stand(w, Resting)
  BY <1>1, <1>3, <1>4, ClaimStep
<1>5. CASE TakeJob(w) /\ Eligible(r) /\ ~ Exhausted(r)
  <2>1. Claim(r) /\ claimed' = claimed + 1
    BY <1>2, <1>5 DEF TakeJob, Claim
  <2>2. claimed + 1 \in Nat
    BY DEF JobInv, TranscriptionTypeOK
  <2>3. PICK x \in ScribePlace :
          /\ x = [scribe[w] EXCEPT !.step = "request", !.claim = claimed + 1]
          /\ x.step = "request" /\ x.rec = r
    <3>1. PICK x \in ScribePlace : x = [scribe[w] EXCEPT !.step = "request", !.claim = claimed + 1]
      BY <1>1, <2>2 DEF ScribePlace
    <3>2. x.step = "request" /\ x.rec = scribe[w].rec
      BY <1>1, <3>1 DEF ScribePlace
    <3> QED BY <1>2, <3>1, <3>2
  <2>4. Stand(w, x)
    BY <1>2, <1>5, <2>1, <2>3 DEF TakeJob
  <2> QED BY <1>1, <1>5, <2>1, <2>3, <2>4, ClaimStep
<1>6. CASE TakeJob(w) /\ ~ Eligible(r)
  <2>1. Stand(w, Resting) /\ UNCHANGED <<jobs, tries, claimed>>
    BY <1>2, <1>6 DEF TakeJob
  <2> QED BY <1>1, <2>1, RestStep
<1>7. CASE TakeJob(w) /\ Eligible(r) /\ Exhausted(r)
  BY <1>2, <1>4, <1>7 DEF TakeJob
<1>8. CASE ClaimUnanswered(w)
  BY <1>2, <1>4, <1>8 DEF ClaimUnanswered
<1> QED BY <1>5, <1>6, <1>7, <1>8

\* A file that is gone is a failure without a request.
LEMMA SourceStep ==
  ASSUME JobInv, NEW w \in Scribes, SourceUnavailable(w)
  PROVE  JobInv'
PROOF
<1>1. scribe[w] \in ScribePlace /\ scribe[w].step = "request" /\ "permanent" \in Results
  BY DEF JobInv, TranscriptionTypeOK, SourceUnavailable, Results
<1>2. scribe[w].rec \in Recordings /\ Owned(scribe[w].rec)
  BY <1>1 DEF JobInv, ScribesInv
<1>3. PICK x \in ScribePlace :
        /\ x = [scribe[w] EXCEPT !.step = "finish", !.result = "permanent"]
        /\ x.step = "finish" /\ x.rec = scribe[w].rec
  <2>1. PICK x \in ScribePlace : x = [scribe[w] EXCEPT !.step = "finish", !.result = "permanent"]
    BY <1>1 DEF ScribePlace
  <2>2. x.step = "finish" /\ x.rec = scribe[w].rec
    BY <1>1, <2>1 DEF ScribePlace
  <2> QED BY <2>1, <2>2
<1>4. Stand(w, x) /\ UNCHANGED <<rows, jobs, tries, claimed, requests>>
  BY <1>3 DEF SourceUnavailable, analysisVars
<1> QED BY <1>2, <1>3, <1>4, OnlyMoves

\* No attempt, no claim and no request.
LEMMA JobInitially == TranscriptionInit => JobInv
PROOF
<1> SUFFICES ASSUME TranscriptionInit PROVE JobInv
  OBVIOUS
<1>1. /\ NewJob \in Job /\ NewJob.status = "pending" /\ NewJob.attempts = 0
      /\ NewJob.claim = NoClaim /\ NewJob.due = NoDue
  BY DEF NewJob, Job, NoDue, NoClaim
<1>2. Resting \in ScribePlace /\ Resting.step = "idle"
  BY DEF Resting, ScribePlace, Results, NoClaim
<1>3. /\ <<>> \in Seq(Try) /\ Len(<<>>) = 0
  OBVIOUS
<1>4. TranscriptionTypeOK
  BY <1>1, <1>2, <1>3 DEF TranscriptionInit, TranscriptionTypeOK
<1>5. StoryInv
  <2>1. MaxTries \in Nat \ {0}
    BY TranscriptionAssumption
  <2>2. Story(NewJob, <<>>, 0)
    BY <1>1, <2>1 DEF Story
  <2> QED BY <2>2 DEF TranscriptionInit, StoryInv
<1>6. ScribesInv
  BY <1>2 DEF TranscriptionInit, ScribesInv
<1>7. JobsInv
  BY <1>1 DEF TranscriptionInit, JobsInv, AnalysisInit, Absent
<1>8. RequestsInv
  <2> SUFFICES ASSUME NEW r \in Recordings
               PROVE  requests[r] + Cardinality(Asking(r)) <= jobs[r].attempts
    BY DEF RequestsInv
  <2>1. Asking(r) = {}
    BY <1>2 DEF TranscriptionInit, Asking
  <2> QED BY <1>1, <2>1, FS_EmptySet DEF TranscriptionInit
<1> QED BY <1>4, <1>5, <1>6, <1>7, <1>8 DEF JobInv

\* JobInv is inductive, beside the invariant of the analysis.
LEMMA JobStep ==
  TypesInv /\ OwnershipInv /\ JobInv /\ [TranscriptionNext]_transcriptionVars => JobInv'
PROOF
<1> SUFFICES ASSUME TypesInv, OwnershipInv, JobInv, [TranscriptionNext]_transcriptionVars
             PROVE  JobInv'
  OBVIOUS
<1>1. CASE UNCHANGED transcriptionVars
  BY <1>1 DEF transcriptionVars, analysisVars, jobVars, JobInv, TranscriptionTypeOK, ScribesInv,
     StoryInv, JobsInv, RequestsInv, Owned, Asking
<1>2. CASE WithTrigger(AnalysisNext)
  BY <1>2, TriggerStep
<1>3. ASSUME NEW w \in Scribes, Choose(w) PROVE JobInv'
  BY <1>3, ChooseStep
<1>4. ASSUME NEW w \in Scribes, TakeJob(w) \/ ClaimUnanswered(w) PROVE JobInv'
  BY <1>4, TakeStep
<1>5. ASSUME NEW w \in Scribes, SourceUnavailable(w) PROVE JobInv'
  BY <1>5, SourceStep
<1>6. ASSUME NEW w \in Scribes, Transcribe(w) PROVE JobInv'
  BY <1>6, TranscribeStep
<1>7. ASSUME NEW w \in Scribes, Finish(w) PROVE JobInv'
  BY <1>7, FinishStep
<1>8. ASSUME NEW w \in Scribes, Drop(w) PROVE JobInv'
  BY <1>8, RestStep DEF Drop, analysisVars
<1>9. CASE TimeGoesBy
  BY <1>9, TimeStep
<1> QED BY <1>1, <1>2, <1>3, <1>4, <1>5, <1>6, <1>7, <1>8, <1>9 DEF TranscriptionNext, ScribeStep

-----------------------------------------------------------------------------
(* Theorems.                                                               *)

\* The inductive invariant, beside that of the analysis it rests on.
THEOREM JobInvariant == TranscriptionSpec => [](TypesInv /\ OwnershipInv /\ JobInv)
PROOF
<1>1. TranscriptionSpec => [](TypesInv /\ OwnershipInv)
  BY TranscriptionKeepsAnalysis, AnalysisInvariant, PTL
<1> QED BY <1>1, JobInitially, JobStep, PTL DEF TranscriptionSpec

\* The columns, the attempts and the workers keep their types, for any number
\* of workers, tries and backoffs.
THEOREM TranscriptionTypeCorrect == TranscriptionSpec => []TranscriptionTypeOK
PROOF
<1>1. JobInv => TranscriptionTypeOK
  BY DEF JobInv
<1> QED BY <1>1, JobInvariant, PTL

\* Row and attempts tell one story, and the provider hears a recording at most
\* once for each counted attempt (claim_transcription, finish_transcription).
THEOREM RowsTellTheirTries == TranscriptionSpec => []TriesMatchJob
PROOF
<1>1. JobInv => TriesMatchJob
  <2> SUFFICES ASSUME JobInv, NEW r \in Recordings
               PROVE  /\ Story(jobs[r], tries[r], claimed)
                      /\ requests[r] <= jobs[r].attempts
                      /\ tries[r] = <<>> <=> Len(tries[r]) = 0
    BY DEF TriesMatchJob, Story
  <2>1. /\ TranscriptionTypeOK /\ tries[r] \in Seq(Try) /\ requests[r] \in Nat
        /\ jobs[r].attempts \in Nat /\ Story(jobs[r], tries[r], claimed)
        /\ requests[r] + Cardinality(Asking(r)) <= jobs[r].attempts
    BY JobFields DEF JobInv, TranscriptionTypeOK, StoryInv, RequestsInv
  <2>2. Cardinality(Asking(r)) \in Nat
    BY AskingFinite
  <2>3. tries[r] = <<>> <=> Len(tries[r]) = 0
    BY <2>1
  <2> QED BY <2>1, <2>2, <2>3
<1> QED BY <1>1, JobInvariant, PTL

\* No alias and no recording whose analysis is not final is ever claimed or
\* sent (the condition of claim_transcription and the trigger together).
THEOREM OnlyOwnersAreSent == TranscriptionSpec => []OnlyOwnersAreTranscribed
PROOF
<1>1. JobInv => OnlyOwnersAreTranscribed
  BY DEF JobInv, JobsInv, Owned, OnlyOwnersAreTranscribed
<1> QED BY <1>1, JobInvariant, PTL

\* What no step does: write a completed job or its attempts.
TranscriptsKept ==
  \A r \in Recordings : jobs[r].status = "completed" => jobs'[r] = jobs[r] /\ tries'[r] = tries[r]

\* No step writes a completed job.
LEMMA TranscriptStep ==
  TypesInv /\ OwnershipInv /\ JobInv /\ [TranscriptionNext]_transcriptionVars
    => [TranscriptsKept]_transcriptionVars
PROOF
<1> SUFFICES ASSUME TypesInv, OwnershipInv, JobInv, TranscriptionNext,
                    NEW r \in Recordings, jobs[r].status = "completed"
             PROVE  jobs'[r] = jobs[r] /\ tries'[r] = tries[r]
  BY DEF TranscriptsKept
<1>0. TranscriptionTypeOK /\ StoryInv /\ ~ Eligible(r) /\ jobs[r].due = NoDue /\ Owned(r)
  BY DEF JobInv, StoryInv, Story, Eligible, JobsInv
<1>1. CASE WithTrigger(AnalysisNext)
  <2>1. rows'[r] = rows[r]
    BY <1>0, <1>1, OwnedStays DEF WithTrigger
  <2> QED BY <1>1, <2>1 DEF WithTrigger
<1>2. ASSUME NEW s \in Recordings, Claim(s)
      PROVE  jobs'[r] = jobs[r] /\ tries'[r] = tries[r]
  <2>1. s # r
    BY <1>0, <1>2 DEF Claim
  <2> QED BY <1>0, <1>2, <2>1, StoryOfClaim
<1>3. ASSUME NEW w \in Scribes, TakeJob(w) \/ ClaimUnanswered(w)
      PROVE  jobs'[r] = jobs[r] /\ tries'[r] = tries[r]
  <2>1. scribe[w].rec \in Recordings
    BY <1>3 DEF JobInv, ScribesInv, TakeJob, ClaimUnanswered
  <2> QED BY <1>2, <1>3, <2>1 DEF TakeJob, ClaimUnanswered
<1>4. ASSUME NEW w \in Scribes, Finish(w)
      PROVE  jobs'[r] = jobs[r] /\ tries'[r] = tries[r]
  <2>1. scribe[w] \in ScribePlace /\ scribe[w].rec \in Recordings /\ scribe[w].claim \in Nat
        /\ scribe[w].result \in Results
    BY <1>0, <1>4, Places DEF JobInv, ScribesInv, Finish, TranscriptionTypeOK
  <2>2. PICK retry \in BOOLEAN, delay \in Backoffs :
          FinishTranscription(scribe[w].rec, scribe[w].claim, scribe[w].result, retry, delay)
    <3>1. WantsRetry(w) \in BOOLEAN
      BY DEF WantsRetry
    <3> QED BY <1>4, <3>1 DEF Finish
  <2>3. claimed' = claimed
    BY <1>4 DEF Finish
  <2>4. ~ Holds(r, scribe[w].claim)
    BY DEF Holds
  <2>5. CASE scribe[w].rec = r
    BY <2>2, <2>4, <2>5 DEF FinishTranscription
  <2>6. CASE scribe[w].rec # r
    BY <1>0, <2>1, <2>2, <2>3, <2>6, StoryOfFinish
  <2> QED BY <2>5, <2>6
<1>5. CASE TimeGoesBy
  <2>1. ~ (jobs[r].due > 0)
    BY <1>0 DEF NoDue
  <2> QED BY <1>5, <2>1 DEF TimeGoesBy
<1>6. ASSUME NEW w \in Scribes, Choose(w) \/ SourceUnavailable(w) \/ Transcribe(w) \/ Drop(w)
      PROVE  jobs'[r] = jobs[r] /\ tries'[r] = tries[r]
  BY <1>6 DEF Choose, SourceUnavailable, Transcribe, Drop
<1> QED BY <1>1, <1>3, <1>4, <1>5, <1>6 DEF TranscriptionNext, ScribeStep

\* A transcript is never overwritten, withdrawn or reopened, whichever worker
\* comes back late and whatever the analysis of other recordings does.
THEOREM TranscriptsStay == TranscriptionSpec => TranscriptStays
PROOF
<1> QED BY JobInvariant, TranscriptStep, PTL
        DEF TranscriptionSpec, TranscriptStays, TranscriptsKept

-----------------------------------------------------------------------------
(* The number a worker read before its claim.                              *)

\* It may fall behind the tries that were counted, and is never ahead of them.
Counted ==
  \A w \in Scribes :
    /\ scribe[w].step = "claim" => scribe[w].attempt <= jobs[scribe[w].rec].attempts + 1
    /\ scribe[w].step \in {"request", "finish"} =>
         scribe[w].attempt <= jobs[scribe[w].rec].attempts

\* A claim counts a try, or finds none left.
LEMMA ClaimCounts ==
  ASSUME TranscriptionTypeOK, NEW s \in Recordings, Claim(s)
  PROVE  /\ \A r \in Recordings : r # s => jobs'[r] = jobs[r]
         /\ jobs'[s].attempts =
              IF Exhausted(s) THEN jobs[s].attempts ELSE jobs[s].attempts + 1
PROOF
<1>0. jobs[s] \in Job /\ claimed \in Nat /\ jobs \in [Recordings -> Job]
  BY DEF TranscriptionTypeOK
<1>1. CASE Exhausted(s)
  <2>1. jobs' = [jobs EXCEPT ![s] = ExhaustedJob(s)]
    BY <1>1 DEF Claim
  <2>2. ExhaustedJob(s).attempts = jobs[s].attempts
    BY <1>0, ExhaustedFields
  <2> QED BY <1>0, <1>1, <2>1, <2>2
<1>2. CASE ~ Exhausted(s)
  <2>1. jobs' = [jobs EXCEPT ![s] = ClaimedJob(s, claimed + 1)]
    BY <1>2 DEF Claim
  <2>2. ClaimedJob(s, claimed + 1).attempts = jobs[s].attempts + 1
    BY <1>0, ClaimedFields
  <2> QED BY <1>0, <1>2, <2>1, <2>2
<1> QED BY <1>1, <1>2

\* A finish writes the row it is about, and counts nothing.
LEMMA FinishWrites ==
  ASSUME JobInv, NEW w \in Scribes, Finish(w)
  PROVE  /\ scribe[w].rec \in Recordings
         /\ \A r \in Recordings : r # scribe[w].rec => jobs'[r] = jobs[r]
         /\ jobs'[scribe[w].rec].attempts = jobs[scribe[w].rec].attempts
         /\ jobs'[scribe[w].rec] # jobs[scribe[w].rec] =>
              (jobs'[scribe[w].rec].retryable <=> scribe[w].result # "text" /\ WantsRetry(w))
PROOF
<1>. DEFINE r == scribe[w].rec
<1>0. TranscriptionTypeOK /\ scribe[w] \in ScribePlace /\ scribe[w].step = "finish"
  BY DEF JobInv, Finish, TranscriptionTypeOK
<1>1. r \in Recordings /\ jobs[r] \in Job /\ scribe[w].result \in Results
  BY <1>0, Places DEF JobInv, ScribesInv, TranscriptionTypeOK
<1>2. PICK retry \in BOOLEAN : retry = WantsRetry(w)
  BY DEF WantsRetry
<1>3. PICK delay \in Backoffs :
        FinishTranscription(r, scribe[w].claim, scribe[w].result, retry, delay)
  BY <1>2 DEF Finish
<1>4. PICK job \in Job :
        /\ job = FinishedJob(r, scribe[w].result, retry, delay)
        /\ job.attempts = jobs[r].attempts
        /\ job.retryable <=> (scribe[w].result # "text" /\ retry)
  BY <1>1, FinishedFields
<1>. HIDE DEF r
<1>5. \/ jobs' = jobs
      \/ jobs' = [jobs EXCEPT ![r] = job]
  BY <1>3, <1>4 DEF FinishTranscription
<1>6. /\ \A s \in Recordings : s # r => jobs'[s] = jobs[s]
      /\ jobs'[r] \in {jobs[r], job}
  BY <1>0, <1>1, <1>5 DEF TranscriptionTypeOK
<1>7. jobs'[r] # jobs[r] => (jobs'[r].retryable <=> scribe[w].result # "text" /\ WantsRetry(w))
  BY <1>2, <1>4, <1>6
<1> QED BY <1>1, <1>4, <1>6, <1>7 DEF r

\* No try is taken back.
LEMMA TriesGrow ==
  ASSUME JobInv, TranscriptionNext, NEW r \in Recordings
  PROVE  jobs[r].attempts <= jobs'[r].attempts
PROOF
<1>0. TranscriptionTypeOK /\ jobs[r] \in Job /\ jobs[r].attempts \in Nat
  BY JobFields DEF JobInv, TranscriptionTypeOK
<1>a. ASSUME NEW s \in Recordings, Claim(s) PROVE jobs[r].attempts <= jobs'[r].attempts
  <2>1. r # s => jobs'[r] = jobs[r]
    BY <1>0, <1>a, ClaimCounts
  <2>2. jobs'[s].attempts \in {jobs[s].attempts, jobs[s].attempts + 1}
    BY <1>0, <1>a, ClaimCounts
  <2> QED BY <1>0, <2>1, <2>2
<1>1. CASE WithTrigger(AnalysisNext)
  <2>1. [jobs[r] EXCEPT !.status = "skipped", !.retryable = FALSE].attempts = jobs[r].attempts
    BY <1>0, SkippedFields
  <2>2. jobs'[r] \in {jobs[r], [jobs[r] EXCEPT !.status = "skipped", !.retryable = FALSE]}
    BY <1>1 DEF WithTrigger
  <2>3. jobs'[r].attempts = jobs[r].attempts
    <3>1. CASE jobs'[r] = jobs[r]
      BY <3>1
    <3>2. CASE jobs'[r] = [jobs[r] EXCEPT !.status = "skipped", !.retryable = FALSE]
      BY <2>1, <3>2, Zenon
    <3> QED BY <2>2, <3>1, <3>2, Zenon
  <2> QED BY <1>0, <2>3
<1>2. ASSUME NEW w \in Scribes, TakeJob(w) \/ ClaimUnanswered(w)
      PROVE  jobs[r].attempts <= jobs'[r].attempts
  <2>1. scribe[w].rec \in Recordings
    BY <1>2 DEF JobInv, ScribesInv, TakeJob, ClaimUnanswered
  <2> QED BY <1>0, <1>2, <1>a, <2>1 DEF TakeJob, ClaimUnanswered
<1>3. ASSUME NEW w \in Scribes, Finish(w) PROVE jobs[r].attempts <= jobs'[r].attempts
  <2>1. r # scribe[w].rec => jobs'[r] = jobs[r]
    BY <1>3, FinishWrites
  <2>2. jobs'[scribe[w].rec].attempts = jobs[scribe[w].rec].attempts
    BY <1>3, FinishWrites
  <2> QED BY <1>0, <2>1, <2>2
<1>4. CASE TimeGoesBy
  <2>1. jobs'[r] = IF jobs[r].due > 0 THEN [jobs[r] EXCEPT !.due = @ - 1] ELSE jobs[r]
    BY <1>4 DEF TimeGoesBy
  <2>2. jobs'[r].attempts = jobs[r].attempts
    BY <1>0, <2>1 DEF Job
  <2> QED BY <1>0, <2>2
<1>5. ASSUME NEW w \in Scribes, Choose(w) \/ SourceUnavailable(w) \/ Transcribe(w) \/ Drop(w)
      PROVE  jobs[r].attempts <= jobs'[r].attempts
  <2>1. jobs' = jobs
    BY <1>5 DEF Choose, SourceUnavailable, Transcribe, Drop
  <2> QED BY <1>0, <2>1
<1> QED BY <1>1, <1>2, <1>3, <1>4, <1>5 DEF TranscriptionNext, ScribeStep

\* The number is one more than what was counted when it was read; the claim
\* counts one more itself.
LEMMA CountedStep ==
  ASSUME JobInv, JobInv', Counted, TranscriptionNext PROVE Counted'
PROOF
<1>0. TranscriptionTypeOK
  BY DEF JobInv
<1>1. \A r \in Recordings : /\ jobs[r].attempts <= jobs'[r].attempts
                            /\ jobs[r].attempts \in Nat /\ jobs'[r].attempts \in Nat
  BY TriesGrow, JobFields DEF JobInv, TranscriptionTypeOK
<1>2. \A w \in Scribes : scribe[w].step # "idle" => scribe[w].rec \in Recordings
  BY DEF JobInv, ScribesInv
<1>3. \A w \in Scribes : scribe[w].attempt \in Nat
  BY <1>0 DEF TranscriptionTypeOK, ScribePlace
<1>4. ASSUME NEW w \in Scribes, scribe'[w] = scribe[w]
      PROVE  /\ scribe'[w].step = "claim" =>
                  scribe'[w].attempt <= jobs'[scribe'[w].rec].attempts + 1
             /\ scribe'[w].step \in {"request", "finish"} =>
                  scribe'[w].attempt <= jobs'[scribe'[w].rec].attempts
  <2>1. CASE scribe[w].step \in {"claim", "request", "finish"}
    <3>1. scribe[w].rec \in Recordings
      BY <1>2, <2>1
    <3> QED BY <1>1, <1>3, <1>4, <3>1 DEF Counted
  <2>2. CASE scribe[w].step \notin {"claim", "request", "finish"}
    BY <1>4, <2>2
  <2> QED BY <2>1, <2>2
<1>5. ASSUME NEW w \in Scribes, NEW x, Stand(w, x),
             x.step = "claim" => x.attempt <= jobs'[x.rec].attempts + 1,
             x.step \in {"request", "finish"} => x.attempt <= jobs'[x.rec].attempts
      PROVE  Counted'
  <2>1. scribe'[w] = x /\ \A v \in Scribes : v # w => scribe'[v] = scribe[v]
    BY <1>0, <1>5 DEF Stand, TranscriptionTypeOK
  <2> QED BY <1>4, <1>5, <2>1 DEF Counted
<1>6. CASE WithTrigger(AnalysisNext) \/ TimeGoesBy
  BY <1>4, <1>6 DEF WithTrigger, TimeGoesBy, Counted
<1>7. ASSUME NEW w \in Scribes, Stand(w, Resting) PROVE Counted'
  <2>1. Resting.step = "idle"
    BY DEF Resting
  <2> QED BY <1>5, <1>7, <2>1
<1>8. ASSUME NEW w \in Scribes, Choose(w) PROVE Counted'
  <2>1. PICK r \in Recordings :
          Stand(w, [Resting EXCEPT !.step = "claim", !.rec = r, !.attempt = jobs[r].attempts + 1])
    BY <1>8 DEF Choose
  <2>. DEFINE x == [Resting EXCEPT !.step = "claim", !.rec = r, !.attempt = jobs[r].attempts + 1]
  <2>2. x.step = "claim" /\ x.rec = r /\ x.attempt = jobs[r].attempts + 1
    BY DEF Resting
  <2>. HIDE DEF x
  <2>3. Stand(w, x)
    BY <2>1 DEF x
  <2> QED BY <1>1, <1>5, <2>2, <2>3
<1>9. ASSUME NEW w \in Scribes, TakeJob(w) PROVE Counted'
  <2>. DEFINE r == scribe[w].rec
  <2>1. scribe[w].step = "claim" /\ r \in Recordings /\ scribe[w] \in ScribePlace
    BY <1>0, <1>2, <1>9 DEF TakeJob, TranscriptionTypeOK
  <2>2. CASE Eligible(r) /\ ~ Exhausted(r)
    <3>. DEFINE x == [scribe[w] EXCEPT !.step = "request", !.claim = claimed']
    <3>1. Claim(r) /\ Stand(w, x)
      BY <1>9, <2>2 DEF TakeJob
    <3>2. x.step = "request" /\ x.rec = r /\ x.attempt = scribe[w].attempt
      BY <2>1 DEF ScribePlace
    <3>3. jobs'[r].attempts = jobs[r].attempts + 1
      BY <1>0, <2>1, <2>2, <3>1, ClaimCounts
    <3>4. x.attempt <= jobs'[x.rec].attempts
      BY <2>1, <3>2, <3>3 DEF Counted
    <3>. HIDE DEF x
    <3> QED BY <1>5, <3>1, <3>2, <3>4
  <2>3. CASE ~ (Eligible(r) /\ ~ Exhausted(r))
    BY <1>7, <1>9, <2>3 DEF TakeJob
  <2> QED BY <2>2, <2>3
<1>10. ASSUME NEW w \in Scribes, SourceUnavailable(w) \/ Transcribe(w) PROVE Counted'
  <2>1. PICK result : Stand(w, [scribe[w] EXCEPT !.step = "finish", !.result = result])
    BY <1>10 DEF SourceUnavailable, Transcribe
  <2>. DEFINE x == [scribe[w] EXCEPT !.step = "finish", !.result = result]
  <2>2. scribe[w].step = "request" /\ scribe[w].rec \in Recordings /\ scribe[w] \in ScribePlace
    BY <1>0, <1>2, <1>10 DEF SourceUnavailable, Transcribe, TranscriptionTypeOK
  <2>3. x.step = "finish" /\ x.rec = scribe[w].rec /\ x.attempt = scribe[w].attempt
    BY <2>2 DEF ScribePlace
  <2>4. jobs' = jobs
    BY <1>10 DEF SourceUnavailable, Transcribe
  <2>5. x.attempt <= jobs'[x.rec].attempts
    BY <2>2, <2>3, <2>4 DEF Counted
  <2>6. Stand(w, x)
    BY <2>1
  <2>. HIDE DEF x
  <2> QED BY <1>5, <2>3, <2>5, <2>6
<1>11. ASSUME NEW w \in Scribes, Finish(w) \/ ClaimUnanswered(w) \/ Drop(w) PROVE Counted'
  BY <1>7, <1>11 DEF Finish, ClaimUnanswered, Drop
<1> QED BY <1>6, <1>8, <1>9, <1>10, <1>11 DEF TranscriptionNext, ScribeStep

\* What a worker that gives up has found.
GivenUp ==
  \A w \in Scribes :
    (/\ scribe[w].step = "finish" /\ scribe'[w].step = "idle"
     /\ scribe[w].result \in {"temporary", "canceled"}
     /\ jobs'[scribe[w].rec] # jobs[scribe[w].rec])
    => jobs'[scribe[w].rec].retryable \/ Exhausted(scribe[w].rec)

\* The step in which a worker comes to rest is its own finish.
LEMMA GivenUpStep ==
  ASSUME JobInv, Counted, TranscriptionNext PROVE GivenUp
PROOF
<1> SUFFICES ASSUME NEW w \in Scribes, scribe[w].step = "finish", scribe'[w].step = "idle",
                    scribe[w].result \in {"temporary", "canceled"},
                    jobs'[scribe[w].rec] # jobs[scribe[w].rec]
             PROVE  jobs'[scribe[w].rec].retryable \/ Exhausted(scribe[w].rec)
  BY DEF GivenUp
<1>0. TranscriptionTypeOK /\ scribe[w] \in ScribePlace /\ scribe[w].rec \in Recordings
  BY DEF JobInv, TranscriptionTypeOK, ScribesInv
<1>1. scribe'[w] # scribe[w]
  OBVIOUS
<1>2. \A v \in Scribes : v # w => \A x : ~ Stand(v, x)
  BY <1>0, <1>1 DEF Stand, TranscriptionTypeOK
<1>3. Finish(w)
  <2>1. ~ WithTrigger(AnalysisNext) /\ ~ TimeGoesBy
    BY <1>1 DEF WithTrigger, TimeGoesBy
  <2>2. \A v \in Scribes : v # w =>
          ~ (ScribeStep(v) \/ ClaimUnanswered(v) \/ Drop(v))
    BY <1>2 DEF ScribeStep, Choose, TakeJob, SourceUnavailable, Transcribe, Finish,
       ClaimUnanswered, Drop
  <2>3. ~ (Choose(w) \/ TakeJob(w) \/ SourceUnavailable(w) \/ Transcribe(w) \/ ClaimUnanswered(w))
    BY DEF Choose, TakeJob, SourceUnavailable, Transcribe, ClaimUnanswered
  <2>4. ~ Drop(w)
    BY DEF Drop
  <2> QED BY <2>1, <2>2, <2>3, <2>4 DEF TranscriptionNext, ScribeStep
<1>4. CASE WantsRetry(w)
  BY <1>3, <1>4, FinishWrites
<1>5. CASE ~ WantsRetry(w)
  <2>1. MaxTries <= scribe[w].attempt /\ scribe[w].attempt \in Nat /\ MaxTries \in Nat
    BY <1>0, <1>5, TranscriptionAssumption DEF WantsRetry, ScribePlace
  <2>2. scribe[w].attempt <= jobs[scribe[w].rec].attempts
    BY DEF Counted
  <2>3. jobs[scribe[w].rec].attempts \in Nat
    BY <1>0, JobFields DEF TranscriptionTypeOK
  <2> QED BY <2>1, <2>2, <2>3 DEF Exhausted
<1> QED BY <1>4, <1>5

\* A worker that is late or whose row was claimed meanwhile gives up no
\* recording that has a try left: the number it read is never ahead.
THEOREM RetriesAreUsedUp == TranscriptionSpec => NotGivenUpEarly
PROOF
<1>1. TranscriptionInit => Counted
  BY DEF TranscriptionInit, Resting, Counted
<1>2. JobInv /\ JobInv' /\ Counted /\ [TranscriptionNext]_transcriptionVars => Counted'
  <2>1. ASSUME JobInv, JobInv', Counted, UNCHANGED transcriptionVars PROVE Counted'
    BY <2>1 DEF transcriptionVars, jobVars, Counted
  <2> QED BY <2>1, CountedStep
<1>3. JobInv /\ Counted /\ [TranscriptionNext]_transcriptionVars => [GivenUp]_transcriptionVars
  BY GivenUpStep
<1> QED BY <1>1, <1>2, <1>3, JobInvariant, PTL DEF TranscriptionSpec, NotGivenUpEarly, GivenUp
=============================================================================
