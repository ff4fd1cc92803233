---------------------------- MODULE AudioAnalysis ----------------------------
(***************************************************************************)
(* Recording ingestion and audio analysis: the watchers of                 *)
(* backend/internal/recordings, the processors of audioanalysis, and the   *)
(* statements of database/audio.go with complete_audio_analysis (migration *)
(* 000003) on radio_transmissions.                                         *)
(*                                                                         *)
(* A processor waits two seconds for a statement.  When it gives up, the   *)
(* statement may have taken effect, may take effect at any later time, or  *)
(* never will: `late` holds the single UPDATEs given up on, and a          *)
(* completing transaction lives on in `txs`.  There is no lease and no     *)
(* token; everything rests on the status column.                           *)
(***************************************************************************)
EXTENDS Integers, FiniteSets

CONSTANTS
  Recordings,   \* the source identities (paths) of the directory
  Processors,   \* the API processes, each with its watcher and processor
  Contents,     \* what a file may decode to: fingerprint and measurements
  MaxAttempts,  \* GFR_AUDIO_MAX_ATTEMPTS
  None          \* SQL NULL

ASSUME AnalysisAssumption ==
  /\ MaxAttempts \in Nat \ {0}
  /\ None \notin Recordings \cup Contents

VARIABLES
  rows,      \* rows[r]: the analysis columns of radio_transmissions
  files,     \* the names present in the directory
  handled,   \* handled[p]: the names p's watcher is done with
  at,        \* at[p]: where processor p stands
  txs,       \* the complete_audio_analysis transactions not yet ended
  late,      \* the UPDATEs whose caller has stopped waiting
  analyses   \* analyses[r]: how often the audio of r was decoded

analysisVars == <<rows, files, handled, at, txs, late, analyses>>

Final == {"completed", "skipped"}

AnalysisRow ==
  [status    : {"absent", "pending", "processing", "failed"} \cup Final,
   attempts  : Nat,
   retryable : BOOLEAN,
   print     : Contents \cup {None},     \* audio_fingerprint
   measured  : Contents \cup {None},     \* duration, RMS, peak, audio_probe
   aliasOf   : Recordings \cup {None}]   \* audio_duplicate_of

Absent  == [status |-> "absent", attempts |-> 0, retryable |-> TRUE,
            print |-> None, measured |-> None, aliasOf |-> None]
Pending == [Absent EXCEPT !.status = "pending"]

Idle == [step |-> "idle", rec |-> None, turn |-> 0, retry |-> FALSE]
Place == [step : {"idle", "claim", "analyze", "complete", "fail"},
          rec : Recordings \cup {None}, turn : Nat, retry : BOOLEAN]

Tx == [by : Processors, rec : Recordings, content : Contents, turn : Nat,
       awaited : BOOLEAN, stage : {"begun", "locked", "looked"},
       owner : Recordings \cup {None}]
Update == [op : {"claim"}, rec : Recordings]
            \cup [op : {"fail"}, rec : Recordings, retry : BOOLEAN]

-----------------------------------------------------------------------------
(* The statements.                                                         *)

\* SELECT ... FOR UPDATE: an UPDATE waits for the transaction that has the row.
Unlocked(r) == \A tx \in txs : tx.rec = r => tx.stage = "begun"

\* Faulty variant: a processing row may be claimed again.
Claimable_Again(r) ==
  /\ rows[r].status \in {"pending", "processing", "failed"}
  /\ rows[r].retryable
  /\ rows[r].attempts < MaxAttempts
  /\ rows[r].aliasOf = None

\* The WHERE clause of ClaimAudio.
Claimable(r) ==
  /\ rows[r].status \in {"pending", "failed"}
  /\ rows[r].retryable
  /\ rows[r].attempts < MaxAttempts
  /\ rows[r].aliasOf = None

ClaimRow(r) ==
  rows' = IF Claimable(r)
            THEN [rows EXCEPT ![r].status = "processing", ![r].attempts = @ + 1]
            ELSE rows

\* Faulty variant: FailAudio writes whatever row it finds.
FailRow_AnyStatus(r, retry) ==
  rows' = [rows EXCEPT ![r].status = "failed", ![r].retryable = retry]

\* FailAudio only touches a processing row.
FailRow(r, retry) ==
  rows' = IF rows[r].status = "processing"
            THEN [rows EXCEPT ![r].status = "failed", ![r].retryable = retry]
            ELSE rows

\* INSERT ... ON CONFLICT (source_identity) DO NOTHING.
InsertRow(r) ==
  rows' = IF rows[r].status = "absent" THEN [rows EXCEPT ![r] = Pending] ELSE rows

-----------------------------------------------------------------------------
(* Processor.Process.                                                      *)

Move(p, place) == at' = [at EXCEPT ![p] = place]

\* Faulty variant: the turn is not counted.
NextTurn_Uncounted(p) ==
  Move(p, IF at[p].turn + 1 < MaxAttempts
            THEN [at[p] EXCEPT !.step = "claim"] ELSE Idle)

\* for attempt := 0; attempt < MaxAttempts: try again, or return.
NextTurn(p) ==
  Move(p, IF at[p].turn + 1 < MaxAttempts
            THEN [at[p] EXCEPT !.step = "claim", !.turn = @ + 1] ELSE Idle)

\* A failure; it is retried if it may be and a turn is left.
ToFail(p, retryable) ==
  Move(p, [at[p] EXCEPT !.step  = "fail",
                        !.retry = retryable /\ at[p].turn + 1 < MaxAttempts])

\* The watcher found the file stable and stored it; Process begins.
Ingest(p, r) ==
  /\ at[p] = Idle
  /\ r \in files \ handled[p]
  /\ InsertRow(r)
  /\ handled' = [handled EXCEPT ![p] = @ \cup {r}]
  /\ Move(p, [Idle EXCEPT !.step = "claim", !.rec = r])
  /\ UNCHANGED <<files, txs, late, analyses>>

\* InsertRecording fails, whether or not it took effect; the watcher tries the
\* name again, or at its limit is done with it.
IngestFails(p, r) ==
  /\ at[p] = Idle
  /\ r \in files \ handled[p]
  /\ InsertRow(r) \/ UNCHANGED rows
  /\ \/ handled' = [handled EXCEPT ![p] = @ \cup {r}]
     \/ UNCHANGED handled
  /\ UNCHANGED <<files, at, txs, late, analyses>>

ClaimAudio(p) ==
  LET r == at[p].rec IN
  /\ at[p].step = "claim"
  /\ Unlocked(r)
  /\ ClaimRow(r)
  /\ Move(p, IF Claimable(r) THEN [at[p] EXCEPT !.step = "analyze"] ELSE Idle)
  /\ analyses' = IF Claimable(r) THEN [analyses EXCEPT ![r] = @ + 1] ELSE analyses
  /\ UNCHANGED <<files, handled, txs, late>>

\* No answer: the claim may still be made, but not for this processor.
ClaimFails(p) ==
  /\ at[p].step = "claim"
  /\ late' = late \cup {[op |-> "claim", rec |-> at[p].rec]}
  /\ NextTurn(p)
  /\ UNCHANGED <<rows, files, handled, txs, analyses>>

\* The file may have been replaced under its name: any content.
Analyzed(p) ==
  /\ at[p].step = "analyze"
  /\ \E c \in Contents :
       txs' = txs \cup {[by |-> p, rec |-> at[p].rec, content |-> c, turn |-> at[p].turn,
                         awaited |-> TRUE, stage |-> "begun", owner |-> None]}
  /\ Move(p, [at[p] EXCEPT !.step = "complete"])
  /\ UNCHANGED <<rows, files, handled, late, analyses>>

AnalysisFails(p) ==
  /\ at[p].step = "analyze"
  /\ \E retryable \in BOOLEAN : ToFail(p, retryable)
  /\ UNCHANGED <<rows, files, handled, txs, late, analyses>>

\* No answer to CompleteAudio: it counts as a retryable failure.
CompleteFails(p) ==
  /\ at[p].step = "complete"
  /\ txs' = {IF tx.by = p THEN [tx EXCEPT !.awaited = FALSE] ELSE tx : tx \in txs}
  /\ ToFail(p, TRUE)
  /\ UNCHANGED <<rows, files, handled, late, analyses>>

FailAudio(p) ==
  /\ at[p].step = "fail"
  /\ Unlocked(at[p].rec)
  /\ FailRow(at[p].rec, at[p].retry)
  /\ IF at[p].retry THEN NextTurn(p) ELSE Move(p, Idle)
  /\ UNCHANGED <<files, handled, txs, late, analyses>>

FailFails(p) ==
  /\ at[p].step = "fail"
  /\ late' = late \cup {[op |-> "fail", rec |-> at[p].rec, retry |-> at[p].retry]}
  /\ Move(p, Idle)
  /\ UNCHANGED <<rows, files, handled, txs, analyses>>

\* The process ends; its successor ignores every name its snapshot finds.
Restart(p) ==
  /\ Move(p, Idle)
  /\ txs' = {IF tx.by = p THEN [tx EXCEPT !.awaited = FALSE] ELSE tx : tx \in txs}
  /\ handled' = [handled EXCEPT ![p] = files]
  /\ UNCHANGED <<rows, files, late, analyses>>

-----------------------------------------------------------------------------
(* complete_audio_analysis, one transaction in the database.               *)

Advance(tx, next) == txs' = (txs \ {tx}) \cup {next}

\* Faulty variant: without the advisory lock.
Lock_RowOnly(tx) ==
  /\ tx.stage = "begun"
  /\ Unlocked(tx.rec)
  /\ Advance(tx, [tx EXCEPT !.stage = "locked"])
  /\ UNCHANGED <<rows, files, handled, at, late, analyses>>

\* pg_advisory_xact_lock on the fingerprint, then the row FOR UPDATE.
Lock(tx) ==
  /\ tx.stage = "begun"
  /\ \A other \in txs : other.content = tx.content => other.stage = "begun"
  /\ Unlocked(tx.rec)
  /\ Advance(tx, [tx EXCEPT !.stage = "locked"])
  /\ UNCHANGED <<rows, files, handled, at, late, analyses>>

\* SELECT id ... WHERE audio_fingerprint = p_fingerprint.
LookUp(tx) ==
  /\ tx.stage = "locked"
  /\ \E owner \in {r \in Recordings : rows[r].print = tx.content} \cup {None} :
       /\ owner = None => \A r \in Recordings : rows[r].print # tx.content
       /\ Advance(tx, [tx EXCEPT !.stage = "looked", !.owner = owner])
  /\ UNCHANGED <<rows, files, handled, at, late, analyses>>

\* The row as the function leaves it: an alias of the owner found, or itself
\* the owner.
CompletedRow(tx) ==
  IF tx.owner \notin {None, tx.rec}
    THEN [rows[tx.rec] EXCEPT !.status = "skipped", !.retryable = FALSE,
            !.measured = tx.content, !.print = None, !.aliasOf = tx.owner]
    ELSE [rows[tx.rec] EXCEPT !.status = "completed", !.retryable = FALSE,
            !.measured = tx.content, !.print = tx.content]

\* A final row returns 'already-processed'; an unclaimed one raises, and the
\* processor takes that for a retryable failure.
Commit(tx) ==
  /\ tx.stage = "looked"
  /\ rows' = IF rows[tx.rec].status = "processing"
               THEN [rows EXCEPT ![tx.rec] = CompletedRow(tx)] ELSE rows
  /\ IF ~ tx.awaited                                              THEN UNCHANGED at
     ELSE IF rows[tx.rec].status \in Final \cup {"processing"} THEN Move(tx.by, Idle)
     ELSE ToFail(tx.by, TRUE)
  /\ txs' = txs \ {tx}
  /\ UNCHANGED <<files, handled, late, analyses>>

\* The connection of a caller that gave up is closed.
Rollback(tx) ==
  /\ ~ tx.awaited
  /\ txs' = txs \ {tx}
  /\ UNCHANGED <<rows, files, handled, at, late, analyses>>

-----------------------------------------------------------------------------
(* UPDATEs given up on, and the directory.                                 *)

LateUpdate(u) ==
  /\ Unlocked(u.rec)
  /\ \/ u.op = "claim" /\ ClaimRow(u.rec)
     \/ u.op = "fail" /\ FailRow(u.rec, u.retry)
     \/ UNCHANGED rows
  /\ late' = late \ {u}
  /\ UNCHANGED <<files, handled, at, txs, analyses>>

FileAppears(r) ==
  /\ r \notin files
  /\ files' = files \cup {r}
  /\ UNCHANGED <<rows, handled, at, txs, late, analyses>>

\* The name was gone in one scan of an idle watcher and is there again.
FileReappears(p, r) ==
  /\ at[p] = Idle
  /\ r \in handled[p]
  /\ handled' = [handled EXCEPT ![p] = @ \ {r}]
  /\ UNCHANGED <<rows, files, at, txs, late, analyses>>

-----------------------------------------------------------------------------
AnalysisInit ==
  /\ rows     = [r \in Recordings |-> Absent]
  /\ files    = {}
  /\ handled  = [p \in Processors |-> {}]
  /\ at       = [p \in Processors |-> Idle]
  /\ txs      = {}
  /\ late     = {}
  /\ analyses = [r \in Recordings |-> 0]

\* What Process does once begun, whether its statements are answered or not.
ProcessStep(p) ==
  \/ ClaimAudio(p) \/ ClaimFails(p)
  \/ Analyzed(p) \/ AnalysisFails(p) \/ CompleteFails(p)
  \/ FailAudio(p) \/ FailFails(p)

TxStep(tx) == Lock(tx) \/ LookUp(tx) \/ Commit(tx) \/ Rollback(tx)

AnalysisNext ==
  \/ \E p \in Processors : ProcessStep(p) \/ Restart(p)
  \/ \E p \in Processors, r \in Recordings :
       Ingest(p, r) \/ IngestFails(p, r) \/ FileReappears(p, r)
  \/ \E tx \in txs : TxStep(tx)
  \/ \E u \in late : LateUpdate(u)
  \/ \E r \in Recordings : FileAppears(r)

AnalysisSpec == AnalysisInit /\ [][AnalysisNext]_analysisVars

-----------------------------------------------------------------------------
(* Properties.                                                             *)

\* The columns, the processors and the statements in flight keep their types.
AnalysisTypeOK ==
  /\ rows \in [Recordings -> AnalysisRow]
  /\ files \subseteq Recordings
  /\ handled \in [Processors -> SUBSET Recordings]
  /\ at \in [Processors -> Place]
  /\ txs \subseteq Tx
  /\ late \subseteq Update
  /\ analyses \in [Recordings -> Nat]

\* One recording owns a fingerprint, the UNIQUE index is never tripped, and an
\* alias names the owner of exactly the content it was measured to have, never
\* another alias and never itself, in whatever order two processors complete.
OneOwnerPerContent ==
  \A r \in Recordings :
    /\ rows[r].print # None =>
         /\ rows[r].status = "completed"
         /\ \A s \in Recordings : rows[s].print = rows[r].print => s = r
    /\ rows[r].aliasOf # None =>
         /\ rows[r].status = "skipped" /\ rows[r].print = None
         /\ rows[rows[r].aliasOf].print = rows[r].measured

\* A final analysis is never written again: not by a late failure or claim, a
\* completion its caller gave up on, or a file that comes back changed.
FinalAnalysisStays ==
  [][\A r \in Recordings : rows[r].status \in Final => rows'[r] = rows[r]]_analysisVars

\* No lease and no token, and yet no recording is analyzed by two processors
\* at once: a row leaves "processing" only by a statement of the one processor
\* that was answered for it, or for good.  And every decoding was paid for by
\* an attempt, of which "bounded attempts, also counted in PostgreSQL" allows so
\* many across restarts, reappearances and lost answers.
AnalysisIsExclusive ==
  /\ \A p, q \in Processors :
       (at[p].step = "analyze" /\ at[q].step = "analyze" /\ at[p].rec = at[q].rec) => p = q
  /\ \A r \in Recordings : analyses[r] <= rows[r].attempts /\ rows[r].attempts <= MaxAttempts

\* "Process is synchronous and bounded": the watcher, which waits for it, is
\* never held up for ever by a file, whatever the database answers.
ProcessIsBounded ==
  \A p \in Processors : at[p] # Idle ~> at[p] = Idle

=============================================================================
