---------------------------- MODULE Transcription ----------------------------
(***************************************************************************)
(* Transcription of analyzed recordings: claim_transcription and           *)
(* finish_transcription (migration 000004), the queries that call them     *)
(* (database/transcription.go) and the workers of transcription/worker.go, *)
(* over the recordings AudioAnalysis completes.                            *)
(*                                                                         *)
(* Choosing a recording and claiming it are two statements, so what a      *)
(* worker read may be stale when it claims.  Only the database's own clock *)
(* is ever consulted, so transcription_next_at is modelled by the time     *)
(* that remains until it.  Which of several eligible recordings is the     *)
(* oldest is left open: a worker may choose any of them.                   *)
(***************************************************************************)
EXTENDS AudioAnalysis, Sequences

CONSTANTS
  Scribes,       \* the transcription workers, one to an API process
  MaxTries,      \* transcription.Options.MaxAttempts
  JobLease,      \* the lease of a claim: Timeout + 30 s
  Backoffs       \* what Options.Backoff may return

ASSUME TranscriptionAssumption ==
  /\ MaxTries \in 1 .. 5
  /\ JobLease \in Nat \ {0}
  /\ Backoffs \subseteq Nat \ {0}
  /\ IsFiniteSet(Scribes)

VARIABLES
  jobs,      \* jobs[r]: the transcription columns of radio_transmissions
  tries,     \* tries[r]: the transcription_attempts rows of r, by number
  scribe,    \* scribe[w]: where worker w stands
  claimed,   \* the last claim a transcription_attempts row was made for
  requests   \* requests[r]: how often r was sent to the provider

jobVars == <<jobs, tries, scribe, claimed, requests>>
transcriptionVars == <<analysisVars, jobVars>>

NoDue   == -1   \* transcription_next_at IS NULL
NoClaim == 0    \* transcription_claim IS NULL

\* A transcript, a failure worth another try, one that is not, and shutdown.
Results == {"text", "temporary", "permanent", "canceled"}

Job == [status    : {"pending", "processing", "completed", "failed", "skipped"},
        attempts  : Nat, retryable : BOOLEAN, claim : Nat,
        due       : Nat \cup {NoDue}]   \* time left; 0 once the moment is reached
Try == [claim : Nat,
        outcome : {"processing", "completed", "retry", "failed", "canceled", "interrupted"}]

NewJob == [status |-> "pending", attempts |-> 0, retryable |-> TRUE, due |-> NoDue,
           claim |-> NoClaim]

Resting == [step |-> "idle", rec |-> None, attempt |-> 0, claim |-> NoClaim, result |-> "text"]
ScribePlace == [step : {"idle", "claim", "request", "finish"}, rec : Recordings \cup {None},
                attempt : Nat, claim : Nat, result : Results]

-----------------------------------------------------------------------------
(* The statements.                                                         *)

\* Faulty variant: an alias is a recording like any other.
Eligible_AliasToo(r) ==
  /\ rows[r].status \in Final
  /\ jobs[r].status # "completed"
  /\ jobs[r].retryable \/ jobs[r].status = "skipped"
  /\ jobs[r].due \in {NoDue, 0}

\* Faulty variant: nobody comes back for a lapsed claim.
Eligible_NeverRecovered(r) ==
  /\ rows[r].status = "completed" /\ rows[r].aliasOf = None /\ rows[r].print # None
  /\ jobs[r].status \in {"pending", "failed"}
  /\ jobs[r].retryable
  /\ jobs[r].due \in {NoDue, 0}

\* The condition both statements test: NULL <= now is not a reason to wait.
Eligible(r) ==
  /\ rows[r].status = "completed" /\ rows[r].aliasOf = None /\ rows[r].print # None
  /\ jobs[r].status \notin {"completed", "skipped"}
  /\ jobs[r].retryable
  /\ jobs[r].due \in {NoDue, 0}

Exhausted(r) == jobs[r].attempts >= MaxTries

\* Faulty variant: the displaced attempt stays open.
Interrupt_Forgotten(r) == tries[r]

\* The attempt a new claim displaces is closed as interrupted.
Interrupt(r) ==
  [i \in 1 .. Len(tries[r]) |->
     IF /\ jobs[r].status = "processing"
        /\ tries[r][i].claim = jobs[r].claim /\ tries[r][i].outcome = "processing"
       THEN [tries[r][i] EXCEPT !.outcome = "interrupted"] ELSE tries[r][i]]

\* The columns under a new claim; a retryable recording with no try left ends.
ClaimedJob(r, claim) ==
  [jobs[r] EXCEPT !.status = "processing", !.attempts = @ + 1, !.claim = claim,
                  !.due = JobLease]
ExhaustedJob(r) ==
  [jobs[r] EXCEPT !.status = "failed", !.retryable = FALSE, !.claim = NoClaim, !.due = NoDue]

\* claim_transcription on an eligible recording.
Claim(r) ==
  /\ Eligible(r)
  /\ IF Exhausted(r)
       THEN /\ jobs' = [jobs EXCEPT ![r] = ExhaustedJob(r)]
            /\ tries' = [tries EXCEPT ![r] = Interrupt(r)]
            /\ UNCHANGED claimed
       ELSE /\ claimed' = claimed + 1
            /\ jobs' = [jobs EXCEPT ![r] = ClaimedJob(r, claimed')]
            /\ tries' = [tries EXCEPT ![r] =
                 Append(Interrupt(r), [claim |-> claimed', outcome |-> "processing"])]

\* Faulty variant: the attempt is found by its claim, the row is not fenced.
Holds_NoFence(r, claim) == jobs[r].attempts > 0

\* The fence of finish_transcription.
Holds(r, claim) == jobs[r].status = "processing" /\ jobs[r].claim = claim

OutcomeOf(result, retry) ==
  CASE result = "text"                        -> "completed"
    [] result = "canceled"                    -> "canceled"
    [] result \notin {"text", "canceled"} /\ retry   -> "retry"
    [] result \notin {"text", "canceled"} /\ ~ retry -> "failed"

FinishedJob(r, result, retry, delay) ==
  [jobs[r] EXCEPT !.status    = IF result = "text" THEN "completed" ELSE "failed",
                  !.retryable = result # "text" /\ retry,
                  !.due       = IF result # "text" /\ retry THEN delay ELSE NoDue,
                  !.claim     = NoClaim]

\* finish_transcription: row and attempt together, or nothing.
FinishTranscription(r, claim, result, retry, delay) ==
  IF Holds(r, claim)
    THEN /\ jobs' = [jobs EXCEPT ![r] = FinishedJob(r, result, retry, delay)]
         /\ tries' = [tries EXCEPT ![r] = [i \in 1 .. Len(@) |->
              IF @[i].claim = claim
                THEN [@[i] EXCEPT !.outcome = OutcomeOf(result, retry)] ELSE @[i]]]
    ELSE UNCHANGED <<jobs, tries>>

-----------------------------------------------------------------------------
(* Worker.Run and process.                                                 *)

Stand(w, place) == scribe' = [scribe EXCEPT ![w] = place]

\* Faulty variant: the attempt is counted twice.
Choose_CountsTwice(w) ==
  /\ scribe[w].step = "idle"
  /\ \E r \in Recordings :
       /\ Eligible(r)
       /\ Stand(w, [Resting EXCEPT !.step = "claim", !.rec = r,
                                   !.attempt = jobs[r].attempts + 2])
  /\ UNCHANGED <<analysisVars, jobs, tries, claimed, requests>>

\* The SELECT of NextTranscription, which also reads the attempt's number.
Choose(w) ==
  /\ scribe[w].step = "idle"
  /\ \E r \in Recordings :
       /\ Eligible(r)
       /\ Stand(w, [Resting EXCEPT !.step = "claim", !.rec = r,
                                   !.attempt = jobs[r].attempts + 1])
  /\ UNCHANGED <<analysisVars, jobs, tries, claimed, requests>>

\* claim_transcription is answered: with the job, or with false.
TakeJob(w) ==
  LET r == scribe[w].rec IN
  /\ scribe[w].step = "claim"
  /\ IF Eligible(r) THEN Claim(r) ELSE UNCHANGED <<jobs, tries, claimed>>
  /\ Stand(w, IF Eligible(r) /\ ~ Exhausted(r)
                THEN [scribe[w] EXCEPT !.step = "request", !.claim = claimed'] ELSE Resting)
  /\ UNCHANGED <<analysisVars, requests>>

\* The claim is made and its answer lost: nobody works on it.
ClaimUnanswered(w) ==
  /\ scribe[w].step = "claim"
  /\ Claim(scribe[w].rec)
  /\ Stand(w, Resting)
  /\ UNCHANGED <<analysisVars, requests>>

\* OpenSource finds the file gone or changed: no request is made.
SourceUnavailable(w) ==
  /\ scribe[w].step = "request"
  /\ Stand(w, [scribe[w] EXCEPT !.step = "finish", !.result = "permanent"])
  /\ UNCHANGED <<analysisVars, jobs, tries, claimed, requests>>

Transcribe(w) ==
  /\ scribe[w].step = "request"
  /\ \E result \in Results :
       Stand(w, [scribe[w] EXCEPT !.step = "finish", !.result = result])
  /\ requests' = [requests EXCEPT ![scribe[w].rec] = @ + 1]
  /\ UNCHANGED <<analysisVars, jobs, tries, claimed>>

\* The worker's own decision, on the attempt number it read before claiming.
WantsRetry(w) ==
  scribe[w].result \in {"temporary", "canceled"} /\ scribe[w].attempt < MaxTries

Finish(w) ==
  /\ scribe[w].step = "finish"
  /\ \E delay \in Backoffs :
       FinishTranscription(scribe[w].rec, scribe[w].claim, scribe[w].result,
                           WantsRetry(w), delay)
  /\ Stand(w, Resting)
  /\ UNCHANGED <<analysisVars, claimed, requests>>

\* The process ends, or a statement that did not take effect is not answered.
Drop(w) ==
  /\ scribe[w].step # "idle"
  /\ Stand(w, Resting)
  /\ UNCHANGED <<analysisVars, jobs, tries, claimed, requests>>

-----------------------------------------------------------------------------
\* protect_transcription_evidence, fired by the UPDATEs of AudioAnalysis: an
\* alias is not transcribed.
WithTrigger(step) ==
  /\ step
  /\ jobs' = [r \in Recordings |->
       IF rows'[r] # rows[r] /\ rows'[r].aliasOf # None
         THEN [jobs[r] EXCEPT !.status = "skipped", !.retryable = FALSE] ELSE jobs[r]]
  /\ UNCHANGED <<tries, scribe, claimed, requests>>

TimeGoesBy ==
  /\ \E r \in Recordings : jobs[r].due > 0
  /\ jobs' = [r \in Recordings |->
       IF jobs[r].due > 0 THEN [jobs[r] EXCEPT !.due = @ - 1] ELSE jobs[r]]
  /\ UNCHANGED <<analysisVars, tries, scribe, claimed, requests>>

TranscriptionInit ==
  /\ AnalysisInit
  /\ jobs     = [r \in Recordings |-> NewJob]
  /\ tries    = [r \in Recordings |-> <<>>]
  /\ scribe   = [w \in Scribes |-> Resting]
  /\ claimed  = 0
  /\ requests = [r \in Recordings |-> 0]

ScribeStep(w) ==
  \/ Choose(w) \/ TakeJob(w) \/ SourceUnavailable(w) \/ Transcribe(w) \/ Finish(w)

TranscriptionNext ==
  \/ WithTrigger(AnalysisNext)
  \/ \E w \in Scribes : ScribeStep(w) \/ ClaimUnanswered(w) \/ Drop(w)
  \/ TimeGoesBy

TranscriptionSpec == TranscriptionInit /\ [][TranscriptionNext]_transcriptionVars

\* Run's timer fires for ever and time goes by.  Workers may be lost for ever
\* and again, but a claim that is tried for ever is at some time answered.  A
\* processor with a file in hand goes on.
TranscriptionFairSpec ==
  /\ TranscriptionSpec
  /\ \A w \in Scribes : WF_transcriptionVars(ScribeStep(w)) /\ SF_transcriptionVars(TakeJob(w))
  /\ WF_transcriptionVars(TimeGoesBy)
  /\ \A p \in Processors : WF_transcriptionVars(WithTrigger(ProcessStep(p)))

-----------------------------------------------------------------------------
(* Properties.                                                             *)

\* The columns, the attempts and the workers keep their types.
TranscriptionTypeOK ==
  /\ jobs \in [Recordings -> Job]
  /\ tries \in [Recordings -> Seq(Try)]
  /\ scribe \in [Scribes -> ScribePlace]
  /\ claimed \in Nat
  /\ requests \in [Recordings -> Nat]

\* transcription_attempts tells the story of the row: an attempt for every one
\* counted, at most one open and then the last and the row's own, a transcript
\* exactly where the last attempt completed, and never more tries than allowed.
\* The provider hears a recording at most once for each, through lapsed leases,
\* lost answers and workers that come back late.
TriesMatchJob ==
  \A r \in Recordings :
    LET job == jobs[r]
        log == tries[r]
    IN  /\ Len(log) = job.attempts /\ job.attempts <= MaxTries
        /\ requests[r] <= job.attempts
        /\ \A i \in 1 .. Len(log) - 1 :
             log[i].outcome \notin {"processing", "completed", "failed"}
        /\ job.claim # NoClaim <=> job.status = "processing"
        /\ IF log = <<>> THEN job.status \in {"pending", "skipped"}
           ELSE LET last == log[Len(log)] IN
                /\ last.outcome = "processing" <=> job.status = "processing"
                /\ job.status = "processing" => last.claim = job.claim
                /\ last.outcome = "completed" <=> job.status = "completed"
                /\ last.outcome = "failed" => job.status = "failed" /\ ~ job.retryable

\* "completed evidence is protected": a transcript is never overwritten or
\* withdrawn, by a late finish, a retry or the analysis of another recording.
TranscriptStays ==
  [][\A r \in Recordings : jobs[r].status = "completed" =>
       jobs'[r] = jobs[r] /\ tries'[r] = tries[r]]_transcriptionVars

\* "Successful aliases never become new transcription jobs": audio that another
\* recording owns is never sent to the provider, whichever was analyzed first.
OnlyOwnersAreTranscribed ==
  \A r \in Recordings :
    /\ rows[r].aliasOf # None => jobs[r].status = "skipped"
    /\ (tries[r] # <<>> \/ requests[r] > 0) =>
         rows[r].status = "completed" /\ rows[r].print # None

\* The worker decides on a number it read before its claim.  It may be too low,
\* which costs a claim that finds the tries exhausted; it is never too high, so
\* a failure worth another try is not made final while a try is left.
NotGivenUpEarly ==
  [][\A w \in Scribes :
       (/\ scribe[w].step = "finish" /\ scribe'[w].step = "idle"
        /\ scribe[w].result \in {"temporary", "canceled"}
        /\ jobs'[scribe[w].rec] # jobs[scribe[w].rec])
       => jobs'[scribe[w].rec].retryable \/ Exhausted(scribe[w].rec)]_transcriptionVars

Settled(job) == job.status = "completed" \/ (job.status = "failed" /\ ~ job.retryable)

\* Every recording that owns its audio ends with a transcript or a final
\* failure, wherever workers were lost: a lapsed lease brings the next one.
EveryOwnerIsSettled ==
  \A r \in Recordings : rows[r].status = "completed" ~> Settled(jobs[r])

=============================================================================
