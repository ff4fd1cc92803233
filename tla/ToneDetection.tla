---------------------------- MODULE ToneDetection ----------------------------
(***************************************************************************)
(* detectOne (tonedetection.go): one tone set is sought in the analysis    *)
(* windows of one recording, by a walk that never turns back.              *)
(*                                                                         *)
(* A window is the pitch it carries and its concentration, the score in    *)
(* tenths or whatever fraction Full is one of; how the spectrum yields     *)
(* them is arithmetic left out.  Detect walks the tone sets of a channel   *)
(* one after the other and independently, so one stands for all.           *)
(***************************************************************************)
EXTENDS Integers, Sequences, FiniteSetsExt

CONSTANTS
  ToneSets,    \* the tone sets that may be configured
  Windows,     \* what a window may carry: its pitch and its concentration
  Full,        \* a concentration of 1
  WindowMS,    \* Registry.windowMS
  MaxWindows,  \* bound on the length of a recording
  Parts        \* a confidence is counted in this many parts of a concentration

\* validateToneSet, for what the walk depends on.
ValidToneSet(set) ==
  /\ set.segments \in Seq([pitch : Int, min : Nat, max : Nat]) /\ set.segments # <<>>
  /\ \A i \in DOMAIN set.segments :
       /\ set.segments[i].min > 0
       /\ set.segments[i].min <= set.segments[i].max
  /\ set.tolerance \in Nat /\ set.maxGap \in Nat
  /\ set.accept \in 0 .. Full
  /\ set.presence \in 0 .. set.accept

ASSUME ToneAssumption ==
  /\ \A set \in ToneSets : ValidToneSet(set)
  /\ Full \in Nat /\ Windows \subseteq [pitch : Int, score : 0 .. Full]
  /\ WindowMS \in Nat \ {0} /\ MaxWindows \in Nat /\ Parts \in Nat
  /\ \A n \in 1 .. MaxWindows : Parts % n = 0    \* averages are whole numbers

VARIABLES
  set,      \* the tone set sought
  sound,    \* the windows of the recording; what is left over is not looked at
  cursor,   \* how many windows the walk has passed
  skipped,  \* milliseconds passed over in search of this segment
  run,      \* the scores of the run of this segment, or <<>> while it is sought
  found,    \* the average confidence of each segment found
  measured, \* MeasuredDurationsMS
  verdict   \* Reason, or "none" while the walk goes on

toneVars == <<set, sound, cursor, skipped, run, found, measured, verdict>>

Reasons == {"matched", "segment_not_found", "gap_exceeded", "segment_too_short",
            "low_confidence"}

Total(scores) == FoldSet(LAMBDA i, sum : sum + scores[i], 0, DOMAIN scores)

\* The average of some scores, in Parts.
Average(scores) == (Total(scores) * Parts) \div Len(scores)

\* concentration: the pitch of the window lies in the band of the segment.
Score(window, segment) ==
  IF window.pitch \in segment.pitch - set.tolerance .. segment.pitch + set.tolerance
  THEN window.score ELSE 0

Present(w, i) == Score(sound[w], set.segments[i]) >= set.presence

-----------------------------------------------------------------------------

Segment == Len(found) + 1

Walking == verdict = "none"
AtEnd   == cursor = Len(sound)
Here    == ~ AtEnd /\ Present(cursor + 1, Segment)

Conclude(reason) == verdict' = reason

\* Faulty variant: the window is counted after the look at the gap.
GapExceeded_Late(ms) == Segment > 1 /\ ms - WindowMS > set.maxGap

\* "Gap tolerance applies only between segments".
GapExceeded(ms) == Segment > 1 /\ ms > set.maxGap

Skip ==
  /\ Walking /\ run = <<>>
  /\ ~ AtEnd /\ ~ Here
  /\ cursor' = cursor + 1
  /\ skipped' = skipped + WindowMS
  /\ IF GapExceeded(skipped + WindowMS) THEN Conclude("gap_exceeded") ELSE UNCHANGED verdict
  /\ UNCHANGED <<set, sound, run, found, measured>>

Absent ==
  /\ Walking /\ run = <<>>
  /\ AtEnd
  /\ Conclude("segment_not_found")
  /\ UNCHANGED <<set, sound, cursor, skipped, run, found, measured>>

\* A run is cut once it is as long as the segment may be.
Cut == Len(run) * WindowMS >= set.segments[Segment].max

Lengthen ==
  /\ Walking
  /\ Here /\ (run = <<>> \/ ~ Cut)
  /\ run' = Append(run, Score(sound[cursor + 1], set.segments[Segment]))
  /\ cursor' = cursor + 1
  /\ UNCHANGED <<set, sound, skipped, found, measured, verdict>>

\* Faulty variant: a segment of just the minimum is too short.
TooShort_Strict(ms) == ms <= set.segments[Segment].min

TooShort(ms) == ms < set.segments[Segment].min

\* Faulty variant, and the words of the documents: every tone is clear enough.
LowConfidence_EachTone(all) == \E i \in DOMAIN all : all[i] < set.accept * Parts

\* The acceptance threshold is compared once, with the average of all tones.
LowConfidence(all) == Total(all) < set.accept * Parts * Len(all)

\* The run has ended: the next segment is sought, or there is none.
EndRun ==
  LET ms  == Len(run) * WindowMS
      all == Append(found, Average(run))
  IN
  /\ Walking
  /\ run # <<>> /\ (~ Here \/ Cut)
  /\ measured' = Append(measured, ms)
  /\ IF TooShort(ms) THEN Conclude("segment_too_short") /\ UNCHANGED found
     ELSE /\ found' = all
          /\ IF Segment < Len(set.segments) THEN UNCHANGED verdict
             ELSE IF LowConfidence(all) THEN Conclude("low_confidence")
             ELSE Conclude("matched")
  /\ run' = <<>> /\ skipped' = 0
  /\ UNCHANGED <<set, sound, cursor>>

ToneInit ==
  /\ set \in ToneSets
  /\ sound \in UNION {[1 .. n -> Windows] : n \in 0 .. MaxWindows}
  /\ cursor = 0 /\ skipped = 0 /\ run = <<>>
  /\ found = <<>> /\ measured = <<>>
  /\ verdict = "none"

ToneNext == Skip \/ Absent \/ Lengthen \/ EndRun

ToneSpec == ToneInit /\ [][ToneNext]_toneVars

-----------------------------------------------------------------------------
(* Properties: what a pattern is, said of the whole recording at once.     *)

\* The windows from starts[i] on, lengths[i] of them, are tone i of the set.
Tones(starts, lengths) ==
  \A i \in DOMAIN set.segments :
    /\ starts[i] + lengths[i] - 1 <= Len(sound)
    /\ \A w \in starts[i] .. starts[i] + lengths[i] - 1 : Present(w, i)
    /\ lengths[i] * WindowMS >= set.segments[i].min
    /\ (lengths[i] - 1) * WindowMS < set.segments[i].max

InOrder(starts, lengths) ==
  \A i \in DOMAIN set.segments \ {1} :
    LET end == starts[i - 1] + lengths[i - 1] IN
    end <= starts[i] /\ (starts[i] - end) * WindowMS <= set.maxGap

\* The scores a run of tone i has that begins at a window.
Scores(start, length, i) ==
  [k \in 1 .. length |-> Score(sound[start + k - 1], set.segments[i])]

\* On average over its tones the pattern is fainter than the set asks for.
Faint(starts, lengths) ==
  Total([i \in DOMAIN set.segments |-> Average(Scores(starts[i], lengths[i], i))])
    < set.accept * Parts * Len(set.segments)

Places == [DOMAIN set.segments -> 1 .. Len(sound)]

\* Only a recording that holds the whole pattern is matched, in order, with no
\* gap too long and as long as measured; low_confidence is the answer exactly
\* where the tones' average alone falls short.  This is what detectOne promises
\* by overallConf.  The engine's document, and the comment on MinConfidence, ask
\* it of each segment: a faint tone beside a clear one is matched here.
MatchIsReal ==
  verdict \in {"matched", "low_confidence"} =>
    LET lengths == [i \in DOMAIN set.segments |-> measured[i] \div WindowMS] IN
    \E starts \in Places :
      /\ Tones(starts, lengths) /\ InOrder(starts, lengths)
      /\ verdict = "low_confidence" <=> Faint(starts, lengths)

\* The recording carries the pattern and nothing like it besides: a tone of the
\* set is in no window but the pattern's, and each of its tones is marked off.
Clean(starts, lengths) ==
  /\ Tones(starts, lengths) /\ InOrder(starts, lengths)
  /\ \A w \in DOMAIN sound, i \in DOMAIN set.segments :
       Present(w, i) => \E k \in DOMAIN set.segments :
                          w \in starts[k] .. starts[k] + lengths[k] - 1
  /\ \A i \in DOMAIN set.segments :
       LET end == starts[i] + lengths[i] IN end <= Len(sound) => ~ Present(end, i)

\* Though the walk never turns back, it does not miss a pattern that is clean,
\* wherever in the recording it lies and however its tones and gaps fall on the
\* bounds: it is refused for its average confidence only.  (A tone's transient
\* before it ends the walk: that is missed.)
CleanPatternsMatch ==
  verdict \notin {"none", "matched"} =>
    \A starts, lengths \in Places :
      Clean(starts, lengths) => verdict = "low_confidence" /\ Faint(starts, lengths)
=============================================================================
