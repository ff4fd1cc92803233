----------------------------- MODULE MCDetection -----------------------------
(* The two detectors on small instances.  Neither looks at what the other  *)
(* is given: a behaviour is of one of them, and the other is at rest.      *)
EXTENDS ToneDetection, KeywordDetection, TLC

CONSTANTS w1, w2

Seg(pitch, min, max) == [pitch |-> pitch, min |-> min, max |-> max]

ToneSet(segments, tolerance, maxGap, presence, accept) ==
  [segments |-> segments, tolerance |-> tolerance, maxGap |-> maxGap,
   presence |-> presence, accept |-> accept]

\* A long tone; two tones whose bounds are no multiples of a window, one of
\* which may be faint if the other is clear; one tone twice, of which a faint
\* window is no part; two tones that overlap within their tolerance.
SomeToneSets ==
  {ToneSet(<<Seg(1, 4, 6)>>, 0, 0, 1, 2),
   ToneSet(<<Seg(1, 2, 5), Seg(2, 3, 6)>>, 0, 3, 1, 2),
   ToneSet(<<Seg(1, 4, 4), Seg(1, 2, 4)>>, 0, 4, 2, 2),
   ToneSet(<<Seg(1, 4, 4), Seg(3, 4, 4)>>, 1, 2, 1, 2)}

\* Silence, and two pitches that are faint or clear: 2 is just their average.
SomeWindows == {[pitch |-> 0, score |-> 0]} \cup [pitch : {1, 2}, score : {1, 3}]

Entry(phrase, required, excluded, window) ==
  [phrase |-> phrase, required |-> required, excluded |-> excluded, window |-> window]

\* With no context, with either, with both; phrases that overlap themselves or
\* their context.
SomeKeywords ==
  {Entry(<<w1>>, {}, {}, 0),
   Entry(<<w1, w1>>, {<<w2, w2>>}, {}, 0),
   Entry(<<w1, w2>>, {<<w1>>}, {<<w2, w2>>}, 1),
   Entry(<<w2, w1>>, {<<w1, w2>>, <<w2, w2, w2>>}, {<<w1, w1>>}, 2)}

DetectionInit ==
  \/ /\ ToneInit
     /\ tokens = Blank /\ list = <<>> /\ configured = FALSE
     /\ looked = 0 /\ matches = <<>> /\ outcome = "error"
  \/ /\ KeywordInit
     /\ set = CHOOSE s \in SomeToneSets : TRUE
     /\ sound = <<>> /\ cursor = 0 /\ skipped = 0 /\ run = <<>>
     /\ found = <<>> /\ measured = <<>> /\ verdict = "segment_not_found"

DetectionNext ==
  \/ ToneNext /\ UNCHANGED keywordVars
  \/ KeywordNext /\ UNCHANGED toneVars

DetectionSpec == DetectionInit /\ [][DetectionNext]_<<toneVars, keywordVars>>
=============================================================================
