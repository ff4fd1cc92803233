--------------------------- MODULE DetectionProofs ---------------------------
(***************************************************************************)
(* The two detectors, for every tone set, keyword list, recording and      *)
(* transcript, of whatever length.                                         *)
(*                                                                         *)
(* The walk of detectOne keeps three things in step with the windows it    *)
(* has passed: the segments found lie where FoundAt says, the run in       *)
(* progress is the windows since RunStart, and the gap counted is the one  *)
(* since the last segment.  MatchIsReal reads them off when the last run   *)
(* ends.  That the walk does not miss a clean pattern is an invariant of   *)
(* its own, OnPattern: along every clean pattern the segments found are    *)
(* the pattern's, so neither the gap nor the shortest run can end it.      *)
(*                                                                         *)
(* The look-up of a list keeps the results in step with the keywords       *)
(* looked up; what is left is that a window cut out of the transcript      *)
(* holds a context exactly when the context is near the keyword.           *)
(***************************************************************************)
EXTENDS ToneDetection, KeywordDetection, SequenceTheorems, WellFoundedInduction, TLAPS

-----------------------------------------------------------------------------
(* The walk: what it has found, and where it stands.                       *)

\* How many windows the i-th segment found is long.
Length(i) == measured[i] \div WindowMS

\* The window at which the run begins, or at which the search stands.
RunStart == cursor - Len(run) + 1

\* What is known of the run in progress.
RunInv ==
  /\ Len(run) <= cursor
  /\ \A k \in 1 .. Len(run) :
       /\ run[k] = Score(sound[RunStart + k - 1], set.segments[Segment])
       /\ Present(RunStart + k - 1, Segment)
  /\ run # <<>> => (Len(run) - 1) * WindowMS < set.segments[Segment].max

\* The segments found begin at starts.
FoundAt(starts) ==
  /\ \A i \in 1 .. Len(found) :
       /\ Length(i) \in 1 .. Len(sound) /\ measured[i] = Length(i) * WindowMS
       /\ starts[i] + Length(i) <= RunStart
       /\ \A w \in starts[i] .. starts[i] + Length(i) - 1 : Present(w, i)
       /\ measured[i] >= set.segments[i].min
       /\ (Length(i) - 1) * WindowMS < set.segments[i].max
       /\ found[i] = Average(Scores(starts[i], Length(i), i))
  /\ \A i \in 2 .. Len(found) :
       LET end == starts[i - 1] + Length(i - 1) IN
       end <= starts[i] /\ (starts[i] - end) * WindowMS <= set.maxGap

\* The gap since the last segment.
GapAfter(end) == skipped = (RunStart - end) * WindowMS

FoundInv ==
  \E starts \in [1 .. Len(found) -> 1 .. Len(sound)] :
    /\ FoundAt(starts)
    /\ Segment > 1 => /\ GapAfter(starts[Len(found)] + Length(Len(found)))
                      /\ skipped <= set.maxGap

\* A clean pattern is being followed.
OnPattern(starts, lengths) ==
  /\ \A i \in 1 .. Len(found) :
       /\ starts[i] + lengths[i] <= RunStart
       /\ found[i] = Average(Scores(starts[i], lengths[i], i))
  /\ run = <<>> => cursor < starts[Segment]
  /\ run # <<>> => RunStart = starts[Segment] /\ Len(run) <= lengths[Segment]
  /\ Segment > 1 => GapAfter(starts[Len(found)] + lengths[Len(found)])

CleanInv ==
  \A starts, lengths \in Places : Clean(starts, lengths) => OnPattern(starts, lengths)

WalkTypes ==
  /\ cursor \in 0 .. Len(sound) /\ skipped \in Nat
  /\ run \in Seq(0 .. Full)
  /\ Len(measured) = Len(found) /\ Segment \in DOMAIN set.segments

WalkInv == Walking => WalkTypes /\ RunInv /\ FoundInv /\ CleanInv

\* The averages that runs have.
Averages == {Average(scores) : scores \in Seq(0 .. Full)}

ToneTypes ==
  /\ set \in ToneSets /\ sound \in Seq(Windows)
  /\ found \in Seq(Averages) /\ measured \in Seq(Nat)

ToneInv == ToneTypes /\ WalkInv /\ MatchIsReal /\ CleanPatternsMatch

-----------------------------------------------------------------------------
(* Arithmetic.                                                             *)

\* More windows last longer.
LEMMA LastsLonger ==
  ASSUME NEW a \in Int, NEW b \in Int, a <= b, NEW w \in Nat
  PROVE  a * w <= b * w
OBVIOUS

\* One window more.
LEMMA OneMoreWindow ==
  ASSUME NEW a \in Int, NEW b \in Int, NEW w \in Nat
  PROVE  (a - b) * w + w = (a + 1 - b) * w
OBVIOUS

\* A duration is that of so many windows.
LEMMA WindowsOf ==
  ASSUME NEW k \in Nat, NEW w \in Nat \ {0}
  PROVE  (k * w) \div w = k
OBVIOUS

\* Segments that follow each other pairwise follow each other all along: the
\* least segment that overlaps an earlier one would do so with its predecessor.
LEMMA InOrderChain ==
  ASSUME NEW n \in Nat, NEW starts \in [1 .. n -> Int], NEW lengths \in [1 .. n -> Nat],
         \A i \in 1 .. n \ {1} : starts[i - 1] + lengths[i - 1] <= starts[i]
  PROVE  \A j \in 1 .. n : \A i \in 1 .. j - 1 : starts[i] + lengths[i] <= starts[j]
<1> DEFINE Bad == {j \in 1 .. n : \E i \in 1 .. j - 1 : ~ starts[i] + lengths[i] <= starts[j]}
<1>1. SUFFICES ASSUME Bad # {}  PROVE FALSE
  OBVIOUS
<1>2. /\ Bad \subseteq Nat
      /\ \A j \in Bad : j \in 1 .. n /\ \E i \in 1 .. j - 1 : ~ starts[i] + lengths[i] <= starts[j]
      /\ \A j \in 1 .. n : \A i \in 1 .. j - 1 : starts[i] + lengths[i] <= starts[j] \/ j \in Bad
  OBVIOUS
<1> HIDE DEF Bad
<1>3. PICK j \in Bad : \A k \in Bad : ~ <<k, j>> \in OpToRel(<, Nat)
  BY <1>1, <1>2, NatLessThanWellFounded, WFMin
<1>4. \A k \in Bad : ~ k < j
  BY <1>2, <1>3 DEF OpToRel
<1>5. PICK i \in 1 .. j - 1 : ~ starts[i] + lengths[i] <= starts[j]
  BY <1>2
<1>6. j \in 1 .. n \ {1} /\ j - 1 \in 1 .. n
  BY <1>2, <1>5
<1>7. starts[j - 1] + lengths[j - 1] <= starts[j]
  BY <1>6
<1>8. i # j - 1
  BY <1>5, <1>7
<1>9. i \in 1 .. (j - 1) - 1 /\ j - 1 \notin Bad
  BY <1>4, <1>5, <1>6, <1>8
<1>10. starts[i] + lengths[i] <= starts[j - 1]
  BY <1>2, <1>6, <1>9
<1>11. /\ starts[i] \in Int /\ lengths[i] \in Int /\ starts[j] \in Int
       /\ starts[j - 1] \in Int /\ lengths[j - 1] \in Nat
  BY <1>6, <1>9
<1>12. starts[j - 1] <= starts[j]
  BY <1>6, <1>7, <1>11
<1>13. starts[i] + lengths[i] <= starts[j]
  <2> DEFINE end == starts[i] + lengths[i]
  <2>1. end \in Int /\ end <= starts[j - 1]
    BY <1>10, <1>11
  <2> HIDE DEF end
  <2>2. end <= starts[j]
    BY <1>6, <1>11, <1>12, <2>1
  <2> QED
    BY <2>2 DEF end
<1> QED
  BY <1>5, <1>13

-----------------------------------------------------------------------------
(* The tone set and the recording.                                         *)

\* A validated tone set, segment by segment.
LEMMA ToneSetFacts ==
  ASSUME ToneTypes
  PROVE  /\ Len(set.segments) \in Nat \ {0}
         /\ DOMAIN set.segments = 1 .. Len(set.segments)
         /\ \A i \in DOMAIN set.segments :
              /\ set.segments[i] \in [pitch : Int, min : Nat, max : Nat]
              /\ set.segments[i].min > 0 /\ set.segments[i].min <= set.segments[i].max
         /\ set.maxGap \in Nat
         /\ Len(sound) \in Nat /\ DOMAIN sound = 1 .. Len(sound)
         /\ WindowMS \in Nat \ {0} /\ Full \in Nat
<1>1. ValidToneSet(set)
  BY ToneAssumption DEF ToneTypes
<1> DEFINE Band == [pitch : Int, min : Nat, max : Nat]
<1>2. set.segments \in Seq(Band) /\ set.segments # <<>> /\ set.maxGap \in Nat
  BY <1>1 DEF ValidToneSet
<1>3. \A i \in DOMAIN set.segments :
        set.segments[i].min > 0 /\ set.segments[i].min <= set.segments[i].max
  BY <1>1 DEF ValidToneSet
<1> HIDE DEF Band
<1>4. /\ Len(set.segments) \in Nat \ {0} /\ DOMAIN set.segments = 1 .. Len(set.segments)
      /\ \A i \in DOMAIN set.segments : set.segments[i] \in Band
  BY <1>2
<1>5. Len(sound) \in Nat /\ DOMAIN sound = 1 .. Len(sound)
  BY DEF ToneTypes
<1> QED
  BY <1>2, <1>3, <1>4, <1>5, ToneAssumption DEF Band

\* A score is a concentration.
LEMMA ScoreRange ==
  ASSUME ToneTypes, NEW w \in DOMAIN sound, NEW i \in DOMAIN set.segments
  PROVE  Score(sound[w], set.segments[i]) \in 0 .. Full
<1>1. sound[w] \in Windows
  BY DEF ToneTypes
<1>2. sound[w].score \in 0 .. Full /\ Full \in Nat
  BY <1>1, ToneAssumption
<1> QED
  BY <1>2 DEF Score

-----------------------------------------------------------------------------
(* Along a clean pattern.                                                  *)

\* Where the windows are that carry tone i: at or after the start of the
\* segment sought and of no other before it.
LEMMA CleanBounds ==
  ASSUME ToneTypes, Walking, WalkTypes, NEW starts \in Places, NEW lengths \in Places,
         Clean(starts, lengths)
  PROVE  /\ starts[Segment] \in 1 .. Len(sound) /\ lengths[Segment] \in 1 .. Len(sound)
         /\ starts[Segment] + lengths[Segment] - 1 <= Len(sound)
         /\ \A w \in starts[Segment] .. starts[Segment] + lengths[Segment] - 1 :
              Present(w, Segment)
         /\ lengths[Segment] * WindowMS >= set.segments[Segment].min
         /\ (lengths[Segment] - 1) * WindowMS < set.segments[Segment].max
         /\ starts[Segment] + lengths[Segment] <= Len(sound) =>
              ~ Present(starts[Segment] + lengths[Segment], Segment)
BY ToneSetFacts DEF Clean, Tones, WalkTypes, Places

\* No window between the segments found and the next one carries a tone.
LEMMA CleanBetween ==
  ASSUME ToneTypes, Walking, WalkTypes, NEW starts \in Places, NEW lengths \in Places,
         Clean(starts, lengths),
         NEW w \in DOMAIN sound, w < starts[Segment],
         \A i \in 1 .. Len(found) : starts[i] + lengths[i] <= w
  PROVE  ~ Present(w, Segment)
<1> DEFINE n == Len(set.segments)
           m == Segment
<1>1. /\ n \in Nat /\ DOMAIN set.segments = 1 .. n /\ m \in 1 .. n /\ Len(found) = m - 1
      /\ Len(sound) \in Nat
  BY ToneSetFacts DEF WalkTypes, ToneTypes, Segment
<1>2. starts \in [1 .. n -> 1 .. Len(sound)] /\ lengths \in [1 .. n -> 1 .. Len(sound)]
  BY <1>1 DEF Places
<1>3. \A i \in 1 .. n \ {1} : starts[i - 1] + lengths[i - 1] <= starts[i]
  BY <1>1 DEF Clean, InOrder
<1>4. Present(w, Segment) => \E k \in 1 .. n : w \in starts[k] .. starts[k] + lengths[k] - 1
  BY <1>1 DEF Clean
<1> HIDE DEF n, m
<1>5. \A i \in m + 1 .. n : starts[m] + lengths[m] <= starts[i]
  <2>1. starts \in [1 .. n -> Int] /\ lengths \in [1 .. n -> Nat]
    BY <1>1, <1>2
  <2>2. \A j \in 1 .. n : \A i \in 1 .. j - 1 : starts[i] + lengths[i] <= starts[j]
    BY <1>1, <1>3, <2>1, InOrderChain
  <2> QED
    BY <1>1, <2>2
<1>6. ASSUME NEW k \in 1 .. n, w \in starts[k] .. starts[k] + lengths[k] - 1  PROVE FALSE
  <2>1. starts[k] \in 1 .. Len(sound) /\ lengths[k] \in 1 .. Len(sound)
        /\ starts[m] \in 1 .. Len(sound) /\ lengths[m] \in 1 .. Len(sound)
    BY <1>1, <1>2
  <2>2. CASE k \in 1 .. m - 1
    BY <1>1, <1>6, <2>1, <2>2
  <2>3. CASE k = m
    BY <1>6, <2>1, <2>3 DEF m
  <2>4. CASE k \in m + 1 .. n
    <3>1. starts[m] + lengths[m] <= starts[k]
      BY <1>5, <2>4
    <3> QED
      BY <1>6, <2>1, <3>1 DEF m
  <2> QED
    BY <1>1, <2>2, <2>3, <2>4
<1> QED
  BY <1>4, <1>6

\* What a state of the walk is made of.
LEMMA WalkFacts ==
  ASSUME ToneTypes, Walking, WalkTypes
  PROVE  /\ cursor \in 0 .. Len(sound) /\ skipped \in Nat /\ Len(sound) \in Nat
         /\ DOMAIN sound = 1 .. Len(sound)
         /\ Len(run) \in Nat /\ (run = <<>> <=> Len(run) = 0) /\ DOMAIN run = 1 .. Len(run)
         /\ Len(found) \in Nat /\ Segment = Len(found) + 1
         /\ Segment \in 1 .. Len(set.segments) /\ Segment \in DOMAIN set.segments
         /\ set.maxGap \in Nat /\ WindowMS \in Nat \ {0}
         /\ set.segments[Segment].min \in Nat /\ set.segments[Segment].max \in Nat
         /\ set.segments[Segment].max > 0
<1>1. run = <<>> <=> Len(run) = 0
  BY DEF WalkTypes
<1>2. Len(run) \in Nat /\ DOMAIN run = 1 .. Len(run)
  BY DEF WalkTypes
<1>3. Len(found) \in Nat
  BY DEF ToneTypes
<1> QED
  BY <1>1, <1>2, <1>3, ToneSetFacts DEF WalkTypes, Segment

\* The walk skips no window of the pattern, and the gap it counts is within
\* what the pattern leaves.
LEMMA SkipOnPattern ==
  ASSUME ToneTypes, Walking, WalkTypes, NEW starts \in Places, NEW lengths \in Places,
         Clean(starts, lengths), OnPattern(starts, lengths), run = <<>>, ~ AtEnd, ~ Here
  PROVE  cursor + 1 < starts[Segment] /\ ~ GapExceeded(skipped + WindowMS)
<1> DEFINE s == starts[Segment]
           l == lengths[Segment]
           m == Len(found)
           e == starts[m] + lengths[m]
<1>1. /\ s \in 1 .. Len(sound) /\ l \in 1 .. Len(sound)
      /\ \A w \in s .. s + l - 1 : Present(w, Segment)
  BY CleanBounds
<1>2. cursor < s /\ cursor \in Nat /\ skipped \in Nat /\ WindowMS \in Nat /\ set.maxGap \in Nat
  BY WalkFacts DEF OnPattern
<1>3. ~ Present(cursor + 1, Segment)
  BY DEF Here
<1>4. cursor + 1 < s
  <2>1. s \in s .. s + l - 1
    BY <1>1
  <2>2. cursor + 1 # s
    BY <1>1, <1>3, <2>1
  <2> QED
    BY <1>1, <1>2, <2>2
<1>5. ASSUME Segment > 1  PROVE skipped + WindowMS <= set.maxGap
  <2>1. m \in DOMAIN set.segments /\ Segment \in DOMAIN set.segments \ {1} /\ m = Segment - 1
    BY <1>5, WalkFacts, ToneSetFacts
  <2>2. e <= s /\ (s - e) * WindowMS <= set.maxGap
    BY <2>1 DEF Clean, InOrder
  <2>4. e \in Int
    BY <2>1 DEF Places
  <2>3. skipped = (cursor + 1 - e) * WindowMS
    <3>1. RunStart = cursor + 1
      BY WalkFacts DEF RunStart
    <3>2. skipped = (RunStart - e) * WindowMS
      BY <1>5 DEF OnPattern, GapAfter
    <3> HIDE DEF e
    <3>3. RunStart - e = cursor + 1 - e
      BY <1>2, <2>4, <3>1
    <3> QED
      BY <3>2, <3>3
  <2>7. s \in Int
    BY <1>1
  <2> HIDE DEF s, e
  <2>5. (cursor + 1 - e) * WindowMS + WindowMS = (cursor + 2 - e) * WindowMS
    BY <1>2, <2>4
  <2>6. (cursor + 2 - e) * WindowMS <= (s - e) * WindowMS
    <3>1. cursor + 2 - e \in Int /\ s - e \in Int /\ cursor + 2 - e <= s - e
      BY <1>2, <1>4, <2>4, <2>7
    <3> HIDE DEF m
    <3> QED
      BY <1>2, <3>1, LastsLonger
  <2> QED
    BY <1>2, <2>2, <2>3, <2>5, <2>6, <2>4, <2>7
<1> QED
  BY <1>2, <1>4, <1>5 DEF GapExceeded

\* The recording does not end while the pattern goes on.
LEMMA EndsAfterPattern ==
  ASSUME ToneTypes, Walking, WalkTypes, NEW starts \in Places, NEW lengths \in Places,
         Clean(starts, lengths), OnPattern(starts, lengths), run = <<>>
  PROVE  ~ AtEnd
BY CleanBounds, WalkFacts DEF OnPattern, AtEnd

\* A window is counted exactly if it is one of the segment's.
LEMMA LengthenOnPattern ==
  ASSUME ToneTypes, Walking, WalkTypes, NEW starts \in Places, NEW lengths \in Places,
         Clean(starts, lengths), OnPattern(starts, lengths), Here
  PROVE  /\ run = <<>> => cursor + 1 = starts[Segment]
         /\ run # <<>> => Len(run) < lengths[Segment]
<1> DEFINE s == starts[Segment]
           l == lengths[Segment]
<1>1. /\ s \in 1 .. Len(sound) /\ l \in 1 .. Len(sound)
      /\ s + l <= Len(sound) => ~ Present(s + l, Segment)
  BY CleanBounds
<1>2. cursor + 1 \in DOMAIN sound /\ cursor \in Nat /\ Len(run) \in Nat /\ DOMAIN sound = 1 .. Len(sound)
  BY WalkFacts DEF Here, AtEnd
<1>3. Present(cursor + 1, Segment)
  BY DEF Here
<1>4. CASE run = <<>>
  <2>1. cursor < s /\ RunStart = cursor + 1
    BY <1>4, WalkFacts DEF OnPattern, RunStart
  <2>2. \A i \in 1 .. Len(found) : starts[i] + lengths[i] <= cursor + 1
    BY <2>1 DEF OnPattern
  <2>3. ~ cursor + 1 < s
    BY <1>2, <1>3, <2>2, CleanBetween
  <2> QED
    BY <1>1, <1>2, <1>4, <2>1, <2>3
<1>5. CASE run # <<>>
  <2>1. cursor - Len(run) + 1 = s /\ Len(run) <= l
    BY <1>5 DEF OnPattern, RunStart
  <2>2. Len(run) # l
    BY <1>1, <1>2, <1>3, <2>1
  <2> QED
    BY <1>1, <1>2, <1>5, <2>1, <2>2
<1> QED
  BY <1>4, <1>5

\* A run ends with its segment, and is measured as one.
LEMMA EndRunOnPattern ==
  ASSUME ToneTypes, Walking, WalkTypes, RunInv, NEW starts \in Places, NEW lengths \in Places,
         Clean(starts, lengths), OnPattern(starts, lengths), run # <<>>, ~ Here \/ Cut
  PROVE  /\ RunStart = starts[Segment] /\ Len(run) = lengths[Segment]
         /\ ~ TooShort(Len(run) * WindowMS)
<1> DEFINE s == starts[Segment]
           l == lengths[Segment]
<1>1. /\ s \in 1 .. Len(sound) /\ l \in 1 .. Len(sound) /\ s + l - 1 <= Len(sound)
      /\ \A w \in s .. s + l - 1 : Present(w, Segment)
      /\ l * WindowMS >= set.segments[Segment].min
      /\ (l - 1) * WindowMS < set.segments[Segment].max
  BY CleanBounds
<1>2. /\ cursor \in Nat /\ Len(run) \in Nat /\ Len(sound) \in Nat /\ WindowMS \in Nat
      /\ set.segments[Segment].max \in Nat /\ set.segments[Segment].min \in Nat
  BY WalkFacts
<1>3. cursor - Len(run) + 1 = s /\ Len(run) <= l
  BY DEF OnPattern, RunStart
<1>4. ASSUME Len(run) < l  PROVE FALSE
  <2>1. cursor + 1 \in s .. s + l - 1 /\ cursor # Len(sound)
    BY <1>1, <1>2, <1>3, <1>4
  <2>2. Here
    BY <1>1, <2>1 DEF Here, AtEnd
  <2>3. Len(run) * WindowMS >= set.segments[Segment].max
    BY <2>2 DEF Cut
  <2>4. Len(run) * WindowMS <= (l - 1) * WindowMS
    <3>1. Len(run) \in Int /\ l - 1 \in Int /\ Len(run) <= l - 1
      BY <1>1, <1>2, <1>4
    <3> HIDE DEF l
    <3> QED
      BY <1>2, <3>1, LastsLonger
  <2> QED
    BY SMTT(20), <1>1, <1>2, <2>3, <2>4
<1>5. Len(run) = l
  BY <1>1, <1>2, <1>3, <1>4
<1> QED
  BY <1>1, <1>2, <1>3, <1>5 DEF RunStart, TooShort

-----------------------------------------------------------------------------
(* The steps.                                                              *)

\* No step changes what is sought or where.
LEMMA SameRecording ==
  ASSUME UNCHANGED <<set, sound>>
  PROVE  /\ Places' = Places
         /\ \A w, i : Present(w, i)' <=> Present(w, i)
         /\ \A start, length, i : Scores(start, length, i)' = Scores(start, length, i)
         /\ \A starts, lengths : (Tones(starts, lengths) /\ InOrder(starts, lengths))'
                                   <=> Tones(starts, lengths) /\ InOrder(starts, lengths)
         /\ \A starts, lengths : Clean(starts, lengths)' <=> Clean(starts, lengths)
         /\ \A starts, lengths : Faint(starts, lengths)' <=> Faint(starts, lengths)
<1>1. Places' = Places
  BY DEF Places
<1>2. \A w, i : Score(w, i)' = Score(w, i)
  BY DEF Score
<1>3. \A w, i : Present(w, i)' <=> Present(w, i)
  BY DEF Present, Score
<1>4. \A start, length, i : Scores(start, length, i)' = Scores(start, length, i)
  BY DEF Scores, Score
<1>5. \A starts, lengths : Clean(starts, lengths)' <=> Clean(starts, lengths)
  BY <1>3 DEF Clean, Tones, InOrder
<1>6. \A starts, lengths : Faint(starts, lengths)' <=> Faint(starts, lengths)
  BY <1>4 DEF Faint
<1>7. \A starts, lengths : (Tones(starts, lengths) /\ InOrder(starts, lengths))'
                            <=> Tones(starts, lengths) /\ InOrder(starts, lengths)
  BY <1>3 DEF Tones, InOrder
<1> QED
  BY <1>1, <1>3, <1>4, <1>5, <1>6, <1>7

\* The segments found stay where they are.
LEMMA FoundAtKept ==
  ASSUME ToneTypes, UNCHANGED <<set, sound, found, measured>>,
         RunStart \in Int, RunStart' \in Int, RunStart <= RunStart',
         NEW starts \in [1 .. Len(found) -> 1 .. Len(sound)], FoundAt(starts)
  PROVE  FoundAt(starts)'
<1>1. \A i : Length(i)' = Length(i)
  BY DEF Length
<1>2. ASSUME NEW i \in 1 .. Len(found)
      PROVE  starts[i] + Length(i) <= RunStart'
  <2>1. starts[i] \in Int /\ Length(i) \in Int /\ starts[i] + Length(i) <= RunStart
    <3>1. Len(sound) \in Nat
      BY ToneSetFacts
    <3>2. Length(i) \in 1 .. Len(sound) /\ starts[i] + Length(i) <= RunStart
      BY DEF FoundAt
    <3> QED
      BY <3>1, <3>2
  <2> QED
    BY <2>1
<1> QED
  BY <1>1, <1>2, SameRecording DEF FoundAt

\* A window without the segment is passed over: the gap grows by it.
LEMMA SkipStep ==
  ASSUME ToneInv, Skip
  PROVE  ToneInv'
<1> USE DEF ToneInv
<1>1. /\ Walking /\ WalkTypes /\ RunInv /\ FoundInv /\ CleanInv /\ ToneTypes
      /\ run = <<>> /\ ~ AtEnd /\ ~ Here
      /\ UNCHANGED <<set, sound, run, found, measured>>
  BY DEF Skip, WalkInv
<1>2. /\ cursor' = cursor + 1 /\ skipped' = skipped + WindowMS
      /\ verdict' = IF GapExceeded(skipped + WindowMS) THEN "gap_exceeded" ELSE "none"
  BY DEF Skip, Conclude, Walking
<1>3. ToneTypes'
  BY <1>1 DEF ToneTypes
<1>4. MatchIsReal'
  BY <1>2 DEF MatchIsReal
<1>5. RunStart = cursor + 1 /\ RunStart' = RunStart + 1 /\ RunStart \in Int /\ Segment' = Segment
  BY <1>1, <1>2, WalkFacts DEF RunStart, Segment
<1>6. CASE GapExceeded(skipped + WindowMS)
  <2>1. verdict' = "gap_exceeded"
    BY <1>2, <1>6
  <2>2. \A starts, lengths \in Places : ~ Clean(starts, lengths)
    BY <1>1, <1>6, SkipOnPattern DEF CleanInv
  <2>3. CleanPatternsMatch'
    BY <1>1, <2>2, SameRecording DEF CleanPatternsMatch
  <2> QED
    BY <1>3, <1>4, <2>1, <2>3 DEF WalkInv, Walking
<1>7. CASE ~ GapExceeded(skipped + WindowMS)
  <2>1. verdict' = "none" /\ CleanPatternsMatch'
    BY <1>2, <1>7 DEF CleanPatternsMatch
  <2>2. WalkTypes'
    <3>1. cursor' \in 0 .. Len(sound) /\ skipped' \in Nat
      BY <1>1, <1>2, WalkFacts DEF AtEnd
    <3> QED
      BY <1>1, <1>5, <3>1 DEF WalkTypes
  <2>3. RunInv'
    BY <1>1, <1>2, WalkFacts DEF RunInv
  <2>4. FoundInv'
    <3>1. PICK starts \in [1 .. Len(found) -> 1 .. Len(sound)] :
            /\ FoundAt(starts)
            /\ Segment > 1 => /\ GapAfter(starts[Len(found)] + Length(Len(found)))
                              /\ skipped <= set.maxGap
      BY <1>1 DEF FoundInv
    <3>2. FoundAt(starts)'
      BY <1>1, <1>5, <3>1, FoundAtKept
    <3>3. ASSUME Segment > 1
          PROVE  /\ GapAfter(starts[Len(found)] + Length(Len(found)))'
                 /\ skipped' <= set.maxGap
      <4> DEFINE e == starts[Len(found)] + Length(Len(found))
      <4>1. e \in Int
        <5>1. Len(found) \in 1 .. Len(found)
          BY <1>1, <3>3, WalkFacts
        <5>2. Length(Len(found)) \in 1 .. Len(sound)
          BY <3>1, <5>1 DEF FoundAt
        <5>3. starts[Len(found)] \in 1 .. Len(sound)
          BY <5>1
        <5> QED
          BY <1>1, <5>2, <5>3, ToneSetFacts
      <4>2. Length(Len(found))' = Length(Len(found))
        BY <1>1 DEF Length
      <4>3. skipped = (RunStart - e) * WindowMS
        BY <3>1, <3>3 DEF GapAfter
      <4> HIDE DEF e
      <4>4. skipped + WindowMS = (RunStart + 1 - e) * WindowMS
        <5>1. RunStart \in Int /\ WindowMS \in Nat
          BY <1>1, <1>5, WalkFacts
        <5> QED
          BY <4>3, <4>1, <5>1, OneMoreWindow
      <4>5. skipped' = (RunStart' - e) * WindowMS
        <5>1. RunStart' - e = RunStart + 1 - e
          BY <1>5, <4>1
        <5> QED
          BY <1>2, <4>4, <5>1
      <4>6. skipped' <= set.maxGap
        BY <1>1, <1>2, <1>7, <3>3, WalkFacts DEF GapExceeded
      <4>7. GapAfter(starts[Len(found)] + Length(Len(found)))'
        BY <1>1, <4>2, <4>5 DEF GapAfter, e
      <4> QED
        BY <4>6, <4>7
    <3> QED
      BY <1>1, <1>5, <3>1, <3>2, <3>3 DEF FoundInv
  <2>5. CleanInv'
    <3> SUFFICES ASSUME NEW starts \in Places, NEW lengths \in Places, Clean(starts, lengths)
                 PROVE  OnPattern(starts, lengths)'
      BY <1>1, SameRecording DEF CleanInv
    <3>1. OnPattern(starts, lengths) /\ cursor + 1 < starts[Segment]
      BY <1>1, SkipOnPattern DEF CleanInv
    <3> DEFINE e == starts[Len(found)] + lengths[Len(found)]
    <3>2. ASSUME NEW i \in 1 .. Len(found)
          PROVE  /\ starts[i] \in Int /\ lengths[i] \in Int
                 /\ starts[i] + lengths[i] <= RunStart'
                 /\ found'[i] = Average(Scores(starts[i], lengths[i], i)')
      <4>1. i \in DOMAIN set.segments
        BY <1>1, WalkFacts, ToneSetFacts
      <4>2. starts[i] \in Int /\ lengths[i] \in Int
        BY <1>1, <4>1, WalkFacts DEF Places
      <4> QED
        BY <1>1, <1>5, <3>1, <4>2, SameRecording DEF OnPattern
    <3>3. ASSUME Segment > 1  PROVE GapAfter(starts[Len(found)] + lengths[Len(found)])'
      <4>1. Len(found) \in 1 .. Len(found)
        BY <1>1, <3>3, WalkFacts
      <4>2. e \in Int
        BY <3>2, <4>1
      <4>3. skipped = (RunStart - e) * WindowMS
        BY <3>1, <3>3 DEF OnPattern, GapAfter
      <4> HIDE DEF e
      <4>4. skipped + WindowMS = (RunStart + 1 - e) * WindowMS
        <5>1. RunStart \in Int /\ WindowMS \in Nat
          BY <1>1, <1>5, WalkFacts
        <5> QED
          BY <4>3, <4>2, <5>1, OneMoreWindow
      <4>5. skipped' = (RunStart' - e) * WindowMS
        <5>1. RunStart' - e = RunStart + 1 - e
          BY <1>5, <4>2
        <5> QED
          BY <1>2, <4>4, <5>1
      <4> QED
        BY <1>1, <4>5 DEF GapAfter, e
    <3> QED
      BY <1>1, <1>2, <1>5, <3>1, <3>2, <3>3 DEF OnPattern
  <2> QED
    BY <1>3, <1>4, <2>1, <2>2, <2>3, <2>4, <2>5 DEF WalkInv
<1> QED
  BY <1>6, <1>7

\* The recording has ended, so no clean pattern is in it.
LEMMA AbsentStep ==
  ASSUME ToneInv, Absent
  PROVE  ToneInv'
<1> USE DEF ToneInv
<1>1. /\ Walking /\ WalkTypes /\ CleanInv /\ ToneTypes /\ run = <<>> /\ AtEnd
      /\ verdict' = "segment_not_found"
      /\ UNCHANGED <<set, sound, cursor, skipped, run, found, measured>>
  BY DEF Absent, WalkInv, Conclude
<1>2. \A starts, lengths \in Places : ~ Clean(starts, lengths)
  BY <1>1, EndsAfterPattern DEF CleanInv
<1>3. CleanPatternsMatch'
  BY <1>1, <1>2, SameRecording DEF CleanPatternsMatch
<1> QED
  BY <1>1, <1>3 DEF ToneTypes, WalkInv, Walking, MatchIsReal

\* A window with the segment joins the run.
LEMMA LengthenStep ==
  ASSUME ToneInv, Lengthen
  PROVE  ToneInv'
<1> USE DEF ToneInv
<1> DEFINE score == Score(sound[cursor + 1], set.segments[Segment])
<1>1. /\ Walking /\ WalkTypes /\ RunInv /\ FoundInv /\ CleanInv /\ ToneTypes
      /\ Here /\ (run = <<>> \/ ~ Cut)
      /\ run' = Append(run, score) /\ cursor' = cursor + 1
      /\ UNCHANGED <<set, sound, skipped, found, measured, verdict>>
  BY DEF Lengthen, WalkInv
<1>2. cursor + 1 \in DOMAIN sound /\ Present(cursor + 1, Segment)
  BY <1>1, WalkFacts DEF Here, AtEnd
<1>3. score \in 0 .. Full
  BY <1>1, <1>2, ScoreRange, WalkFacts
<1> HIDE DEF score
<1>4. /\ run' \in Seq(0 .. Full) /\ Len(run') = Len(run) + 1 /\ run'[Len(run) + 1] = score
      /\ \A k \in 1 .. Len(run) : run'[k] = run[k]
  BY <1>1, <1>3 DEF WalkTypes
<1>5. /\ RunStart' = RunStart /\ RunStart \in Int /\ Segment' = Segment
      /\ RunStart + Len(run) = cursor + 1 /\ run' # <<>>
  <2>1. Len(run) \in Nat /\ cursor \in Nat
    BY <1>1, WalkFacts
  <2>2. run' # <<>>
    BY <1>4, <2>1
  <2>3. Segment' = Segment
    BY <1>1 DEF Segment
  <2> QED
    BY <1>1, <1>4, <2>1, <2>2, <2>3 DEF RunStart
<1>6. /\ verdict' = "none" /\ ToneTypes' /\ MatchIsReal' /\ CleanPatternsMatch'
  BY <1>1 DEF Walking, ToneTypes, MatchIsReal, CleanPatternsMatch
<1>7. WalkTypes'
  <2>1. cursor' \in 0 .. Len(sound)
    BY <1>1, <1>2, WalkFacts
  <2> QED
    BY <1>1, <1>4, <1>5, <2>1 DEF WalkTypes
<1>8. RunInv'
  <2>1. Len(run') <= cursor'
    BY <1>1, <1>4, WalkFacts DEF RunInv
  <2>2. ASSUME NEW k \in 1 .. Len(run')
        PROVE  /\ run'[k] = Score(sound[RunStart + k - 1], set.segments[Segment])
               /\ Present(RunStart + k - 1, Segment)
    <3>1. CASE k \in 1 .. Len(run)
      BY <1>1, <1>4, <3>1 DEF RunInv
    <3>2. CASE k = Len(run) + 1
      <4>1. RunStart + k - 1 = cursor + 1
        BY <1>1, <1>5, <3>2, WalkFacts
      <4> QED
        BY <1>2, <1>4, <3>2, <4>1 DEF score
    <3> QED
      BY SMTT(20), <1>1, <1>4, <3>1, <3>2, WalkFacts
  <2>3. (Len(run') - 1) * WindowMS < set.segments[Segment].max
    <3>1. Len(run') - 1 = Len(run)
      BY <1>1, <1>4, WalkFacts
    <3>2. Len(run) * WindowMS < set.segments[Segment].max
      <4>1. CASE run = <<>>
        <5>1. Len(run) = 0 /\ 0 * WindowMS = 0 /\ set.segments[Segment].max > 0
          BY <1>1, <4>1, WalkFacts
        <5> QED
          BY <1>1, <5>1, WalkFacts
      <4>2. CASE ~ Cut
        BY SMTT(20), <1>1, <4>2, WalkFacts DEF Cut
      <4> QED
        BY <1>1, <4>1, <4>2
    <3> QED
      BY <3>1, <3>2
  <2> QED
    BY <1>1, <1>5, <2>1, <2>2, <2>3, SameRecording DEF RunInv, Score
<1>9. FoundInv'
  <2>1. PICK starts \in [1 .. Len(found) -> 1 .. Len(sound)] :
          /\ FoundAt(starts)
          /\ Segment > 1 => /\ GapAfter(starts[Len(found)] + Length(Len(found)))
                            /\ skipped <= set.maxGap
    BY <1>1 DEF FoundInv
  <2>2. FoundAt(starts)'
    BY <1>1, <1>5, <2>1, FoundAtKept
  <2> QED
    BY <1>1, <1>5, <2>1, <2>2 DEF FoundInv, GapAfter, Length
<1>10. CleanInv'
  <2> SUFFICES ASSUME NEW starts \in Places, NEW lengths \in Places, Clean(starts, lengths)
               PROVE  OnPattern(starts, lengths)'
    BY <1>1, SameRecording DEF CleanInv
  <2>1. OnPattern(starts, lengths)
    BY <1>1 DEF CleanInv
  <2>2. /\ run = <<>> => cursor + 1 = starts[Segment]
        /\ run # <<>> => Len(run) < lengths[Segment]
    BY <1>1, <2>1, LengthenOnPattern
  <2>3. lengths[Segment] \in 1 .. Len(sound)
    BY <1>1, CleanBounds
  <2>4. RunStart = starts[Segment] /\ Len(run') <= lengths[Segment]
    <3>1. CASE run = <<>>
      BY <1>1, <1>4, <1>5, <2>2, <2>3, <3>1, WalkFacts
    <3>2. CASE run # <<>>
      <4>1. RunStart = starts[Segment]
        BY <2>1, <3>2 DEF OnPattern
      <4>2. Len(run) + 1 <= lengths[Segment]
        BY SMTT(20), <1>1, <2>2, <2>3, <3>2, WalkFacts
      <4> QED
        BY <1>4, <4>1, <4>2
    <3> QED
      BY <3>1, <3>2
  <2> QED
    BY <1>1, <1>5, <2>1, <2>4, SameRecording DEF OnPattern, GapAfter
<1> QED
  BY <1>6, <1>7, <1>8, <1>9, <1>10 DEF WalkInv

\* What the end of a run leaves.
LEMMA EndRunFacts ==
  ASSUME ToneInv, EndRun
  PROVE  /\ ToneTypes /\ Walking /\ WalkTypes /\ RunInv /\ FoundInv /\ CleanInv
         /\ run # <<>> /\ (~ Here \/ Cut)
         /\ UNCHANGED <<set, sound, cursor>> /\ run' = <<>> /\ skipped' = 0
         /\ measured' = Append(measured, Len(run) * WindowMS)
         /\ RunStart' = cursor + 1 /\ RunStart + Len(run) = cursor + 1
         /\ Average(run) \in Averages /\ ToneTypes'
<1>1. /\ ToneTypes /\ Walking /\ WalkTypes /\ RunInv /\ FoundInv /\ CleanInv
      /\ run # <<>> /\ (~ Here \/ Cut)
      /\ UNCHANGED <<set, sound, cursor>> /\ run' = <<>> /\ skipped' = 0
      /\ measured' = Append(measured, Len(run) * WindowMS)
      /\ found' = found \/ found' = Append(found, Average(run))
  BY DEF ToneInv, WalkInv, EndRun
<1>2. RunStart' = cursor + 1 /\ RunStart + Len(run) = cursor + 1
  BY SMTT(20), <1>1, WalkFacts DEF RunStart
<1>3. Average(run) \in Averages
  BY <1>1 DEF WalkTypes, Averages
<1>4. Len(run) * WindowMS \in Nat
  BY <1>1, WalkFacts
<1>5. ToneTypes'
  <2>1. measured' \in Seq(Nat)
    BY <1>1, <1>4 DEF ToneTypes
  <2>2. found' \in Seq(Averages)
    <3>1. found \in Seq(Averages)
      BY <1>1 DEF ToneTypes
    <3>2. Append(found, Average(run)) \in Seq(Averages)
      BY <1>3, <3>1
    <3> QED
      BY <1>1, <3>1, <3>2
  <2> QED
    BY <1>1, <2>1, <2>2 DEF ToneTypes
<1> QED
  BY <1>1, <1>2, <1>3, <1>5

\* A run that is long enough is one segment more, and it was there.
LEMMA FoundAtExtended ==
  ASSUME ToneInv, EndRun, ~ TooShort(Len(run) * WindowMS), found' = Append(found, Average(run))
  PROVE  \E starts \in [1 .. Segment -> 1 .. Len(sound)] :
           /\ FoundAt(starts)'
           /\ starts[Segment] + (measured'[Segment] \div WindowMS) = cursor + 1
<1> DEFINE m == Len(found)
           l == Len(run)
<1>0. PICK n : n = Segment
  OBVIOUS
<1>1. /\ ToneTypes /\ Walking /\ WalkTypes /\ RunInv /\ FoundInv /\ run # <<>>
      /\ UNCHANGED <<set, sound, cursor>> /\ measured' = Append(measured, l * WindowMS)
      /\ RunStart' = cursor + 1 /\ RunStart + l = cursor + 1
  BY EndRunFacts
<1>2. PICK old \in [1 .. m -> 1 .. Len(sound)] :
        /\ FoundAt(old)
        /\ n > 1 => GapAfter(old[m] + Length(m)) /\ skipped <= set.maxGap
  BY <1>1, <1>0 DEF FoundInv
<1>3. /\ m \in Nat /\ n = m + 1 /\ n \in 1 .. Len(set.segments) /\ n \in DOMAIN set.segments
      /\ Len(sound) \in Nat /\ cursor \in 0 .. Len(sound) /\ WindowMS \in Nat \ {0}
      /\ l \in 1 .. Len(sound) /\ RunStart \in 1 .. Len(sound) /\ RunStart = cursor - l + 1
      /\ set.segments[n].min \in Nat
  <2>1. l <= cursor
    BY <1>1 DEF RunInv
  <2>2. RunStart = cursor - l + 1
    BY DEF RunStart
  <2>3. /\ m \in Nat /\ n = m + 1 /\ n \in 1 .. Len(set.segments) /\ n \in DOMAIN set.segments
        /\ Len(sound) \in Nat /\ cursor \in 0 .. Len(sound) /\ WindowMS \in Nat \ {0}
        /\ l \in Nat /\ l # 0 /\ set.segments[n].min \in Nat
    BY <1>1, <1>0, WalkFacts
  <2> QED
    BY <2>1, <2>2, <2>3
<1>3a. m \in Nat /\ n = m + 1
  BY <1>3
<1>4. PICK starts \in [1 .. n -> 1 .. Len(sound)] :
        \A i \in 1 .. n : starts[i] = IF i = n THEN RunStart ELSE old[i]
  <2> DEFINE new == [i \in 1 .. n |-> IF i = n THEN RunStart ELSE old[i]]
  <2>1. new \in [1 .. n -> 1 .. Len(sound)]
    BY <1>2, <1>3
  <2> QED
    BY <2>1
<1>5. /\ Len(measured) = m /\ measured \in Seq(Nat) /\ found \in Seq(Averages)
      /\ Average(run) \in Averages /\ l * WindowMS \in Nat
  BY <1>1, <1>3, EndRunFacts DEF WalkTypes, ToneTypes
<1>6. /\ Len(found') = n /\ found'[n] = Average(run) /\ measured'[n] = l * WindowMS
      /\ \A i \in 1 .. m : found'[i] = found[i] /\ measured'[i] = measured[i]
  BY SMTT(20), <1>1, <1>3, <1>5
<1>7. Length(n)' = l /\ \A i \in 1 .. m : Length(i)' = Length(i)
  <2>1. (l * WindowMS) \div WindowMS = l
    BY <1>3, WindowsOf
  <2> QED
    BY <1>6, <2>1 DEF Length
<1>8. run = Scores(RunStart, l, n)
  <2>1. DOMAIN run = 1 .. l /\ run \in Seq(0 .. Full)
    BY <1>1 DEF WalkTypes
  <2>2. \A k \in 1 .. l : run[k] = Score(sound[RunStart + k - 1], set.segments[n])
    BY <1>1, <1>0 DEF RunInv
  <2> QED
    BY <2>1, <2>2 DEF Scores
<1>9. \A w \in RunStart .. RunStart + l - 1 : Present(w, n)
  <2>1. \A k \in 1 .. l : Present(RunStart + k - 1, n)
    BY <1>1, <1>0 DEF RunInv
  <2> SUFFICES ASSUME NEW w \in RunStart .. RunStart + l - 1  PROVE Present(w, n)
    OBVIOUS
  <2> DEFINE k == w - RunStart + 1
  <2>2. k \in 1 .. l /\ RunStart + k - 1 = w
    BY <1>3
  <2> QED
    BY <2>1, <2>2
<1>10. l * WindowMS >= set.segments[n].min /\ (l - 1) * WindowMS < set.segments[n].max
  <2>1. set.segments[n].min \in Nat /\ l * WindowMS \in Nat
    BY <1>3, <1>5
  <2>2. ~ l * WindowMS < set.segments[n].min
    BY <1>0 DEF TooShort
  <2>3. (l - 1) * WindowMS < set.segments[n].max
    BY <1>1, <1>0 DEF RunInv
  <2> QED
    BY <2>1, <2>2, <2>3
<1>11. n > 1 =>
         /\ old[m] + Length(m) <= RunStart
         /\ (RunStart - (old[m] + Length(m))) * WindowMS <= set.maxGap
  <2> SUFFICES ASSUME n > 1  PROVE /\ old[m] + Length(m) <= RunStart
                                   /\ (RunStart - (old[m] + Length(m))) * WindowMS <= set.maxGap
    OBVIOUS
  <2>1. m \in 1 .. m
    BY <1>3a
  <2>2. old[m] + Length(m) <= RunStart
    BY <1>2, <2>1 DEF FoundAt
  <2> QED
    BY <1>2, <2>2 DEF GapAfter
<1> HIDE DEF l, m
<1>12. ASSUME NEW i \in 1 .. n
       PROVE  /\ Length(i)' \in 1 .. Len(sound) /\ measured'[i] = Length(i)' * WindowMS
              /\ starts[i] + Length(i)' <= RunStart'
              /\ \A w \in starts[i] .. starts[i] + Length(i)' - 1 : Present(w, i)
              /\ measured'[i] >= set.segments[i].min
              /\ (Length(i)' - 1) * WindowMS < set.segments[i].max
              /\ found'[i] = Average(Scores(starts[i], Length(i)', i))
  <2>1. CASE i = n
    <3>1. starts[i] = RunStart
      BY <1>4, <2>1
    <3>2. Length(i)' = l /\ measured'[i] = l * WindowMS /\ found'[i] = Average(run)
      BY <1>6, <1>7, <2>1
    <3>3. RunStart + l <= RunStart' /\ l \in 1 .. Len(sound)
      BY <1>1, <1>3
    <3>4. /\ \A w \in RunStart .. RunStart + l - 1 : Present(w, i)
          /\ l * WindowMS >= set.segments[i].min /\ (l - 1) * WindowMS < set.segments[i].max
          /\ run = Scores(RunStart, l, i)
      BY <1>8, <1>9, <1>10, <2>1
    <3> QED
      BY <3>1, <3>2, <3>3, <3>4
  <2>2. CASE i # n
    <3>1. i \in 1 .. m /\ starts[i] = old[i] /\ old[i] \in 1 .. Len(sound)
      BY <1>4, <1>3a, <2>2
    <3>2. /\ Length(i) \in 1 .. Len(sound) /\ measured[i] = Length(i) * WindowMS
          /\ old[i] + Length(i) <= RunStart
          /\ \A w \in old[i] .. old[i] + Length(i) - 1 : Present(w, i)
          /\ measured[i] >= set.segments[i].min
          /\ (Length(i) - 1) * WindowMS < set.segments[i].max
          /\ found[i] = Average(Scores(old[i], Length(i), i))
      BY <1>2, <3>1 DEF FoundAt, m
    <3>3. old[i] + Length(i) <= cursor + 1
      <4>1. RunStart <= cursor + 1 /\ RunStart \in Int /\ cursor \in Int
        BY <1>3
      <4>2. old[i] \in Int /\ Length(i) \in Int
        BY <1>3, <3>1, <3>2
      <4> QED
        BY <3>2, <4>1, <4>2
    <3> QED
      BY <1>1, <1>6, <1>7, <3>1, <3>2, <3>3
  <2> QED
    BY <2>1, <2>2
<1>13. ASSUME NEW i \in 2 .. n
       PROVE  LET end == starts[i - 1] + Length(i - 1)' IN
              end <= starts[i] /\ (starts[i] - end) * WindowMS <= set.maxGap
  <2>1. i - 1 \in 1 .. m /\ starts[i - 1] = old[i - 1] /\ Length(i - 1)' = Length(i - 1)
    <3>1. i - 1 \in 1 .. m /\ i - 1 \in 1 .. n /\ i - 1 # n
      BY <1>3a
    <3> QED
      BY <1>4, <1>7, <3>1
  <2>2. CASE i = n
    <3>1. starts[i] = RunStart /\ i - 1 = m /\ n > 1
      BY <1>4, <1>3a, <2>2
    <3> QED
      BY <1>11, <2>1, <3>1
  <2>3. CASE i # n
    <3>1. starts[i] = old[i] /\ i \in 2 .. m
      <4>1. i \in 2 .. m /\ i \in 1 .. n
        BY <1>3a, <2>3
      <4> QED
        BY <1>4, <2>3, <4>1
    <3> QED
      BY <1>2, <2>1, <3>1 DEF FoundAt, m
  <2> QED
    BY <2>2, <2>3
<1>14. FoundAt(starts)'
  <2>1. \A w, i : Present(w, i)' <=> Present(w, i)
    BY <1>1, SameRecording
  <2>2. \A start, length, i : Scores(start, length, i)' = Scores(start, length, i)
    BY <1>1, SameRecording
  <2>3. /\ Len(found') = n /\ Len(sound') = Len(sound) /\ set' = set
    BY <1>1, <1>6
  <2>4. \A i \in 2 .. n :
          LET end == starts[i - 1] + Length(i - 1)' IN
          end <= starts[i] /\ (starts[i] - end) * WindowMS <= set.maxGap
    BY <1>13
  <2>5. \A i \in 1 .. n :
          /\ Length(i)' \in 1 .. Len(sound) /\ measured'[i] = Length(i)' * WindowMS
          /\ starts[i] + Length(i)' <= RunStart'
          /\ \A w \in starts[i] .. starts[i] + Length(i)' - 1 : Present(w, i)'
          /\ measured'[i] >= set.segments[i].min
          /\ (Length(i)' - 1) * WindowMS < set.segments[i].max
          /\ found'[i] = Average(Scores(starts[i], Length(i), i)')
    BY <1>12, <2>1, <2>2
  <2> QED
    BY <2>3, <2>4, <2>5 DEF FoundAt
<1>15. starts[n] + (measured'[n] \div WindowMS) = cursor + 1
  <2>1. starts[n] = RunStart /\ measured'[n] \div WindowMS = l
    BY <1>3, <1>4, <1>7 DEF Length
  <2> QED
    BY <1>1, <2>1
<1> QED
  <2>1. /\ starts \in [1 .. Segment -> 1 .. Len(sound)]
        /\ starts[Segment] + (measured'[Segment] \div WindowMS) = cursor + 1
    BY <1>4, <1>15, <1>0
  <2> QED
    BY <1>14, <2>1

\* Averages that are those of the pattern decide as the pattern does.
LEMMA AveragesDecide ==
  ASSUME ToneTypes, NEW all \in Seq(Averages), Len(all) = Len(set.segments),
         NEW starts, NEW lengths,
         \A i \in 1 .. Len(all) : all[i] = Average(Scores(starts[i], lengths[i], i))
  PROVE  LowConfidence(all) <=> Faint(starts, lengths)
<1>1. DOMAIN all = 1 .. Len(all) /\ DOMAIN set.segments = 1 .. Len(all)
  BY ToneSetFacts
<1>2. all = [i \in DOMAIN set.segments |-> Average(Scores(starts[i], lengths[i], i))]
  BY <1>1
<1> QED
  BY <1>2 DEF Faint, LowConfidence

\* A run that ends on a clean pattern is one segment more of it.
LEMMA OnPatternExtended ==
  ASSUME ToneInv, EndRun, NEW starts \in Places, NEW lengths \in Places,
         Clean(starts, lengths)
  PROVE  /\ ~ TooShort(Len(run) * WindowMS)
         /\ starts[Segment] + lengths[Segment] = cursor + 1
         /\ \A i \in 1 .. Segment :
              /\ starts[i] + lengths[i] <= cursor + 1
              /\ Append(found, Average(run))[i] = Average(Scores(starts[i], lengths[i], i))
<1> DEFINE all == Append(found, Average(run))
<1>1. /\ ToneTypes /\ Walking /\ WalkTypes /\ RunInv /\ CleanInv
      /\ run # <<>> /\ (~ Here \/ Cut) /\ RunStart + Len(run) = cursor + 1
      /\ Average(run) \in Averages
  BY EndRunFacts
<1>2. OnPattern(starts, lengths)
  BY <1>1 DEF CleanInv
<1>3. /\ RunStart = starts[Segment] /\ Len(run) = lengths[Segment]
      /\ ~ TooShort(Len(run) * WindowMS)
  BY <1>1, <1>2, EndRunOnPattern
<1>4. /\ Len(found) \in Nat /\ Segment = Len(found) + 1 /\ all[Segment] = Average(run)
      /\ \A i \in 1 .. Len(found) : all[i] = found[i]
  BY <1>1, WalkFacts DEF ToneTypes
<1>5. run = Scores(starts[Segment], lengths[Segment], Segment)
  <2>1. DOMAIN run = 1 .. Len(run) /\ run \in Seq(0 .. Full)
    BY <1>1 DEF WalkTypes
  <2>2. \A k \in 1 .. Len(run) : run[k] = Score(sound[RunStart + k - 1], set.segments[Segment])
    BY <1>1 DEF RunInv
  <2> QED
    BY <1>3, <2>1, <2>2 DEF Scores
<1> HIDE DEF all
<1>6. ASSUME NEW i \in 1 .. Segment
      PROVE  /\ starts[i] + lengths[i] <= cursor + 1
             /\ all[i] = Average(Scores(starts[i], lengths[i], i))
  <2>1. CASE i = Segment
    BY <1>1, <1>3, <1>4, <1>5, <2>1, WalkFacts
  <2>2. CASE i # Segment
    <3>1. i \in 1 .. Len(found) /\ i \in DOMAIN set.segments
      <4>1. /\ Len(found) \in Nat /\ Segment = Len(found) + 1
            /\ Segment \in 1 .. Len(set.segments)
        BY <1>1, WalkFacts
      <4>2. DOMAIN set.segments = 1 .. Len(set.segments) /\ Len(set.segments) \in Nat
        BY <1>1, ToneSetFacts
      <4> QED
        BY <2>2, <4>1, <4>2
    <3>2. starts[i] + lengths[i] <= RunStart
      BY <1>2, <3>1 DEF OnPattern
    <3>3. starts[i] \in Nat /\ lengths[i] \in Nat /\ Len(run) \in Nat /\ cursor \in Nat
      <4>1. Len(sound) \in Nat /\ cursor \in 0 .. Len(sound) /\ Len(run) \in Nat
        BY <1>1, WalkFacts
      <4>2. starts[i] \in 1 .. Len(sound) /\ lengths[i] \in 1 .. Len(sound)
        BY <3>1 DEF Places
      <4> QED
        BY <4>1, <4>2
    <3>4. RunStart \in Int /\ RunStart <= cursor + 1
      BY <3>3, <1>1 DEF RunStart
    <3> QED
      BY <1>2, <1>4, <3>1, <3>2, <3>3, <3>4 DEF OnPattern
  <2> QED
    BY <2>1, <2>2
<1> QED
  BY <1>1, <1>3, <1>6 DEF all

\* The last segment is found: the averages decide.
LEMMA LastRunStep ==
  ASSUME ToneInv, EndRun, ~ TooShort(Len(run) * WindowMS), Segment = Len(set.segments)
  PROVE  verdict' # "none" /\ MatchIsReal' /\ CleanPatternsMatch'
<1> DEFINE all == Append(found, Average(run))
<1>1. /\ ToneTypes /\ Walking /\ WalkTypes /\ UNCHANGED <<set, sound, cursor>>
      /\ RunStart' = cursor + 1 /\ Average(run) \in Averages /\ ToneTypes'
  BY EndRunFacts
<1>2. /\ found' = all
      /\ verdict' = IF LowConfidence(all) THEN "low_confidence" ELSE "matched"
  BY DEF EndRun, Conclude
<1>3. all \in Seq(Averages) /\ Len(all) = Len(set.segments) /\ Len(all) = Segment
  BY <1>1, WalkFacts DEF ToneTypes
<1>4. MatchIsReal'
  <2>1. PICK starts \in [1 .. Segment -> 1 .. Len(sound)] : FoundAt(starts)'
    BY <1>2, FoundAtExtended
  <2>2. PICK lengths : lengths = [i \in DOMAIN set.segments |-> measured'[i] \div WindowMS]
    OBVIOUS
  <2>3. DOMAIN set.segments = 1 .. Segment /\ Segment \in Nat
    BY <1>1, <1>3, ToneSetFacts
  <2>4. \A i \in 1 .. Segment :
          /\ lengths[i] \in 1 .. Len(sound) /\ measured'[i] = lengths[i] * WindowMS
          /\ starts[i] + lengths[i] <= cursor + 1
          /\ \A w \in starts[i] .. starts[i] + lengths[i] - 1 : Present(w, i)'
          /\ measured'[i] >= set.segments[i].min
          /\ (lengths[i] - 1) * WindowMS < set.segments[i].max
          /\ found'[i] = Average(Scores(starts[i], lengths[i], i)')
    BY <1>1, <1>2, <1>3, <2>1, <2>2, <2>3 DEF FoundAt, Length
  <2>5. \A i \in 2 .. Segment :
          LET end == starts[i - 1] + lengths[i - 1] IN
          end <= starts[i] /\ (starts[i] - end) * WindowMS <= set.maxGap
    <3> SUFFICES ASSUME NEW i \in 2 .. Segment
                 PROVE  /\ starts[i - 1] + lengths[i - 1] <= starts[i]
                        /\ (starts[i] - (starts[i - 1] + lengths[i - 1])) * WindowMS <= set.maxGap
      OBVIOUS
    <3>1. i - 1 \in DOMAIN set.segments
      BY <2>3
    <3>2. lengths[i - 1] = measured'[i - 1] \div WindowMS
      BY <2>2, <3>1
    <3>3. i \in 2 .. Len(found')
      BY <1>2, <1>3
    <3> QED
      BY <1>1, <2>1, <3>2, <3>3 DEF FoundAt, Length
  <2>6. starts \in Places
    BY <2>3 DEF Places
  <2>7. Tones(starts, lengths)
    <3> SUFFICES ASSUME NEW i \in 1 .. Segment
                 PROVE  /\ starts[i] + lengths[i] - 1 <= Len(sound)
                        /\ \A w \in starts[i] .. starts[i] + lengths[i] - 1 : Present(w, i)
                        /\ lengths[i] * WindowMS >= set.segments[i].min
                        /\ (lengths[i] - 1) * WindowMS < set.segments[i].max
      BY <2>3 DEF Tones
    <3>1. cursor \in 0 .. Len(sound) /\ Len(sound) \in Nat /\ starts[i] \in Int /\ lengths[i] \in Int
      <4>1. cursor \in 0 .. Len(sound) /\ Len(sound) \in Nat
        BY <1>1, WalkFacts
      <4>2. starts[i] \in 1 .. Len(sound) /\ lengths[i] \in 1 .. Len(sound)
        BY <2>4
      <4> QED
        BY <4>1, <4>2
    <3>2. starts[i] + lengths[i] - 1 <= Len(sound)
      BY <2>4, <3>1
    <3>3. \A w \in starts[i] .. starts[i] + lengths[i] - 1 : Present(w, i)
      BY <1>1, <2>4, SameRecording
    <3> QED
      BY <2>4, <3>2, <3>3
  <2>8. InOrder(starts, lengths)
    <3>1. \A i \in DOMAIN set.segments \ {1} : i \in 2 .. Segment
      BY <2>3
    <3> QED
      BY <2>5, <3>1 DEF InOrder
  <2>9. verdict' = "low_confidence" <=> Faint(starts, lengths)
    <3>1. \A i \in 1 .. Len(all) : all[i] = Average(Scores(starts[i], lengths[i], i))
      BY <1>1, <1>2, <1>3, <2>4, SameRecording
    <3>2. LowConfidence(all) <=> Faint(starts, lengths)
      BY <1>1, <1>3, <3>1, AveragesDecide
    <3> QED
      BY <1>2, <3>2
  <2> QED
    BY <1>1, <2>2, <2>6, <2>7, <2>8, <2>9, SameRecording DEF MatchIsReal, Tones, InOrder
<1>5. CleanPatternsMatch'
  <2> SUFFICES ASSUME NEW starts \in Places, NEW lengths \in Places, Clean(starts, lengths),
                      verdict' # "matched"
               PROVE  verdict' = "low_confidence" /\ Faint(starts, lengths)
    BY <1>1, SameRecording DEF CleanPatternsMatch
  <2>1. \A i \in 1 .. Len(all) : all[i] = Average(Scores(starts[i], lengths[i], i))
    BY <1>3, OnPatternExtended
  <2>2. LowConfidence(all) <=> Faint(starts, lengths)
    BY <1>1, <1>3, <2>1, AveragesDecide
  <2> QED
    BY <1>2, <2>2
<1> QED
  BY <1>2, <1>4, <1>5

\* Another segment is to be sought, from where the run ended.
LEMMA NextSegmentStep ==
  ASSUME ToneInv, EndRun, ~ TooShort(Len(run) * WindowMS), Segment < Len(set.segments)
  PROVE  verdict' = "none" /\ WalkTypes' /\ RunInv' /\ FoundInv' /\ CleanInv'
<1> DEFINE all == Append(found, Average(run))
           ms  == Len(run) * WindowMS
<1>1. /\ ToneTypes /\ Walking /\ WalkTypes /\ RunInv
      /\ UNCHANGED <<set, sound, cursor>> /\ run' = <<>> /\ skipped' = 0
      /\ measured' = Append(measured, ms) /\ RunStart' = cursor + 1
      /\ Average(run) \in Averages /\ ToneTypes'
  BY EndRunFacts
<1>2. found' = all /\ verdict' = "none"
  BY <1>1 DEF EndRun, Walking
<1>3. /\ cursor \in 0 .. Len(sound) /\ Len(found) \in Nat /\ Segment = Len(found) + 1
      /\ WindowMS \in Nat \ {0} /\ Len(run) \in Nat /\ ms \in Nat
  BY SMTT(20), <1>1, WalkFacts
<1>4. Len(found') = Segment /\ Len(measured') = Segment /\ Len(run') = 0 /\ run' \in Seq(0 .. Full)
  <2>1. found \in Seq(Averages) /\ measured \in Seq(Nat) /\ Len(measured) = Len(found)
    BY <1>1 DEF ToneTypes, WalkTypes
  <2> QED
    BY <1>1, <1>2, <1>3, <2>1
<1>5. Segment' = Segment + 1 /\ Segment' \in DOMAIN set.segments /\ Segment \in DOMAIN set.segments
  BY SMTT(20), <1>1, <1>3, <1>4, ToneSetFacts DEF Segment
<1>6. WalkTypes'
  BY <1>1, <1>3, <1>4, <1>5 DEF WalkTypes
<1>7. RunInv'
  BY <1>1, <1>3, <1>4 DEF RunInv
<1>8. ASSUME NEW end, end = cursor + 1  PROVE skipped' = (RunStart' - end) * WindowMS
  <2>1. RunStart' - end = 0
    BY <1>1, <1>3, <1>8
  <2> QED
    BY <1>1, <1>3, <2>1
<1>9. FoundInv'
  <2>1. PICK starts \in [1 .. Segment -> 1 .. Len(sound)] :
          /\ FoundAt(starts)'
          /\ starts[Segment] + (measured'[Segment] \div WindowMS) = cursor + 1
    BY <1>2, FoundAtExtended
  <2>2. GapAfter(starts[Len(found)] + Length(Len(found)))'
    BY <1>4, <1>8, <2>1 DEF GapAfter, Length
  <2>3. skipped' <= set'.maxGap
    BY <1>1, ToneSetFacts
  <2>4. starts \in [1 .. Len(found') -> 1 .. Len(sound')]
    BY <1>1, <1>4
  <2> QED
    BY <2>1, <2>2, <2>3, <2>4 DEF FoundInv
<1>10. CleanInv'
  <2> SUFFICES ASSUME NEW starts \in Places, NEW lengths \in Places, Clean(starts, lengths)
               PROVE  OnPattern(starts, lengths)'
    BY <1>1, SameRecording DEF CleanInv
  <2>1. /\ starts[Segment] + lengths[Segment] = cursor + 1
        /\ \A i \in 1 .. Segment :
             starts[i] + lengths[i] <= cursor + 1
             /\ found'[i] = Average(Scores(starts[i], lengths[i], i))
    BY <1>2, OnPatternExtended
  <2>2. GapAfter(starts[Len(found)] + lengths[Len(found)])'
    BY <1>4, <1>8, <2>1 DEF GapAfter
  <2>3. cursor < starts[Segment + 1]
    <3>1. Segment + 1 \in DOMAIN set.segments \ {1} /\ Segment + 1 - 1 = Segment
      BY <1>3, <1>5
    <3>2. starts[Segment] + lengths[Segment] <= starts[Segment + 1]
      <4>1. \A i \in DOMAIN set.segments \ {1} : starts[i - 1] + lengths[i - 1] <= starts[i]
        BY DEF Clean, InOrder
      <4>2. PICK next : next = Segment + 1
        OBVIOUS
      <4>3. next \in DOMAIN set.segments \ {1} /\ next - 1 = Segment
        <5>1. next \in DOMAIN set.segments \ {1}
          BY <3>1, <4>2, Zenon
        <5>2. Segment \in Int
          BY <1>1, ToneSetFacts DEF Segment
        <5> QED
          BY <4>2, <5>1, <5>2
      <4>4. starts[next - 1] + lengths[next - 1] <= starts[next]
        BY <4>1, <4>3, Zenon
      <4> QED
        BY <4>2, <4>3, <4>4, Zenon
    <3>3. starts[Segment + 1] \in Int
      BY <3>1 DEF Places
    <3> QED
      BY <1>3, <2>1, <3>2, <3>3
  <2> QED
    BY <1>1, <1>4, <1>5, <2>1, <2>2, <2>3, SameRecording DEF OnPattern
<1> QED
  BY <1>2, <1>6, <1>7, <1>9, <1>10

\* A run has ended: too short, before another segment, or the last.
LEMMA EndRunStep ==
  ASSUME ToneInv, EndRun
  PROVE  ToneInv'
<1>1. /\ ToneTypes /\ Walking /\ WalkTypes /\ UNCHANGED <<set, sound>> /\ ToneTypes'
      /\ Len(set.segments) \in Nat /\ Segment \in 1 .. Len(set.segments)
  BY EndRunFacts, WalkFacts, ToneSetFacts
<1>2. CASE TooShort(Len(run) * WindowMS)
  <2>1. verdict' = "segment_too_short"
    BY <1>2 DEF EndRun, Conclude
  <2>2. CleanPatternsMatch'
    BY <1>1, <1>2, OnPatternExtended, SameRecording DEF CleanPatternsMatch
  <2> QED
    BY <1>1, <2>1, <2>2 DEF ToneInv, WalkInv, Walking, MatchIsReal
<1>3. CASE ~ TooShort(Len(run) * WindowMS) /\ Segment < Len(set.segments)
  BY <1>1, <1>3, NextSegmentStep DEF ToneInv, WalkInv, MatchIsReal, CleanPatternsMatch
<1>4. CASE ~ TooShort(Len(run) * WindowMS) /\ Segment = Len(set.segments)
  BY <1>1, <1>4, LastRunStep DEF ToneInv, WalkInv, Walking
<1> QED
  BY <1>1, <1>2, <1>3, <1>4

\* A step that leaves the walk alone.
LEMMA StutterStep ==
  ASSUME ToneInv, UNCHANGED toneVars
  PROVE  ToneInv'
<1> USE DEF ToneInv
<1>1. /\ UNCHANGED <<set, sound, cursor, skipped, run, found, measured, verdict>>
      /\ UNCHANGED <<RunStart, Segment>> /\ \A i : Length(i)' = Length(i)
  BY DEF toneVars, RunStart, Segment, Length
<1>2. ToneTypes'
  BY <1>1 DEF ToneTypes
<1>3. MatchIsReal'
  BY <1>1, SameRecording DEF MatchIsReal
<1>4. CleanPatternsMatch'
  BY <1>1, SameRecording DEF CleanPatternsMatch
<1>5. ASSUME Walking  PROVE WalkTypes' /\ RunInv' /\ FoundInv' /\ CleanInv'
  <2>1. WalkTypes /\ RunInv /\ FoundInv /\ CleanInv /\ RunStart \in Int
    BY <1>5, WalkFacts DEF WalkInv, RunStart
  <2>2. WalkTypes'
    BY <1>1, <2>1 DEF WalkTypes
  <2>3. RunInv'
    BY <1>1, <2>1, SameRecording DEF RunInv, Score
  <2>4. FoundInv'
    <3>1. PICK starts \in [1 .. Len(found) -> 1 .. Len(sound)] :
            /\ FoundAt(starts)
            /\ Segment > 1 => /\ GapAfter(starts[Len(found)] + Length(Len(found)))
                              /\ skipped <= set.maxGap
      BY <2>1 DEF FoundInv
    <3>2. FoundAt(starts)'
      BY <1>1, <2>1, <3>1, FoundAtKept
    <3> QED
      BY <1>1, <3>1, <3>2 DEF FoundInv, GapAfter
  <2>5. CleanInv'
    BY <1>1, <2>1, SameRecording DEF CleanInv, OnPattern, GapAfter
  <2> QED
    BY <2>2, <2>3, <2>4, <2>5
<1> QED
  BY <1>1, <1>2, <1>3, <1>4, <1>5 DEF WalkInv, Walking

\* Nothing is found yet.
LEMMA ToneInvInit == ToneInit => ToneInv
<1> SUFFICES ASSUME ToneInit  PROVE ToneInv
  OBVIOUS
<1> USE DEF ToneInit
<1>1. ToneTypes
  <2>1. PICK n \in 0 .. MaxWindows : sound \in [1 .. n -> Windows]
    OBVIOUS
  <2>2. sound \in Seq(Windows)
    BY <2>1, ToneAssumption
  <2> QED
    BY <2>2 DEF ToneTypes
<1>2. Len(found) = 0 /\ Len(run) = 0 /\ Len(measured) = 0 /\ Segment = 1 /\ RunStart = 1
  BY DEF Segment, RunStart
<1>3. /\ Len(sound) \in Nat /\ DOMAIN set.segments = 1 .. Len(set.segments)
      /\ Len(set.segments) \in Nat \ {0}
  BY <1>1, ToneSetFacts
<1>4. WalkTypes
  <2>1. run \in Seq(0 .. Full)
    OBVIOUS
  <2> QED
    BY <1>2, <1>3, <2>1 DEF WalkTypes
<1>5. RunInv
  BY <1>2 DEF RunInv
<1>6. FoundInv
  <2>1. PICK starts : starts \in [1 .. Len(found) -> 1 .. Len(sound)]
    <3>1. [i \in 1 .. Len(found) |-> 1] \in [1 .. Len(found) -> 1 .. Len(sound)]
      BY <1>2
    <3> QED
      BY <3>1
  <2>2. FoundAt(starts)
    BY <1>2 DEF FoundAt
  <2>3. ~ (Segment > 1)
    BY <1>2
  <2> QED
    BY <2>1, <2>2, <2>3, Zenon DEF FoundInv
<1>7. CleanInv
  <2> SUFFICES ASSUME NEW starts \in Places  PROVE cursor < starts[Segment]
    BY <1>2 DEF CleanInv, OnPattern
  <2> QED
    BY <1>2, <1>3 DEF Places
<1> QED
  BY <1>1, <1>4, <1>5, <1>6, <1>7 DEF ToneInv, WalkInv, MatchIsReal, CleanPatternsMatch

\* The inductive invariant of the walk: where the segments found lie, what the
\* run and the gap in progress stand for, and where on a clean pattern it is.
THEOREM ToneInvariant == ToneSpec => []ToneInv
<1>1. ToneInv /\ [ToneNext]_toneVars => ToneInv'
  <2> SUFFICES ASSUME ToneInv, [ToneNext]_toneVars  PROVE ToneInv'
    OBVIOUS
  <2>1. CASE UNCHANGED toneVars
    BY <2>1, StutterStep
  <2> QED
    BY <2>1, SkipStep, AbsentStep, LengthenStep, EndRunStep DEF ToneNext
<1> QED
  BY <1>1, ToneInvInit, PTL DEF ToneSpec

\* Whatever the tone sets, the recording and the bounds, only a recording that
\* holds the whole pattern is matched.
THEOREM MatchesAreReal == ToneSpec => []MatchIsReal
<1>1. ToneInv => MatchIsReal
  BY DEF ToneInv
<1> QED
  BY <1>1, ToneInvariant, PTL

\* And a pattern that is clean is not missed, however its tones and gaps fall on
\* the bounds.
THEOREM CleanPatternsAreMatched == ToneSpec => []CleanPatternsMatch
<1>1. ToneInv => CleanPatternsMatch
  BY DEF ToneInv
<1> QED
  BY <1>1, ToneInvariant, PTL

-----------------------------------------------------------------------------
(* The look-up of a keyword.                                               *)

\* The lesser of two.
LEMMA LesserOf ==
  ASSUME NEW a \in Int, NEW b \in Int
  PROVE  Min({a, b}) \in {a, b} /\ Min({a, b}) <= a /\ Min({a, b}) <= b
<1>1. \E x \in {a, b} : \A y \in {a, b} : x <= y
  OBVIOUS
<1> QED
  BY <1>1 DEF Min

\* The greater of two.
LEMMA GreaterOf ==
  ASSUME NEW a \in Int, NEW b \in Int
  PROVE  Max({a, b}) \in {a, b} /\ Max({a, b}) >= a /\ Max({a, b}) >= b
<1>1. \E x \in {a, b} : \A y \in {a, b} : x >= y
  OBVIOUS
<1> QED
  BY <1>1 DEF Max

\* Where a phrase occurs in a text, token by token.
LEMMA OccursWhere ==
  ASSUME NEW text \in Seq(Words), NEW phrase \in Seq(Words) \ {<<>>}
  PROVE  Occurrences(text, phrase) =
           {i \in DOMAIN text : \A k \in DOMAIN phrase :
              i + k - 1 \in DOMAIN text /\ text[i + k - 1] = phrase[k]}
<1> DEFINE t == Len(text)
           p == Len(phrase)
           AtText(i) == \A k \in DOMAIN phrase :
                          i + k - 1 \in DOMAIN text /\ text[i + k - 1] = phrase[k]
<1>1. t \in Nat /\ p \in Nat \ {0} /\ DOMAIN text = 1 .. t /\ DOMAIN phrase = 1 .. p
  OBVIOUS
<1>2. ASSUME NEW i \in 1 .. t - p + 1
      PROVE  SubSeq(text, i, i + p - 1) = phrase <=> AtText(i)
  <2>1. \A k \in i .. i + p - 1 : text[k] \in Words
    BY <1>1
  <2>2. /\ SubSeq(text, i, i + p - 1) \in Seq(Words)
        /\ Len(SubSeq(text, i, i + p - 1)) = p
        /\ \A k \in 1 .. p : SubSeq(text, i, i + p - 1)[k] = text[i + k - 1]
    <3>1. i \in Int /\ i + p - 1 \in Int /\ i <= i + p - 1 /\ (i + p - 1) - i + 1 = p
      BY <1>1
    <3> QED
      BY <2>1, <3>1, SubSeqProperties
  <2>3. \A k \in 1 .. p : i + k - 1 \in 1 .. t
    BY <1>1
  <2>4. SubSeq(text, i, i + p - 1) = phrase <=> \A k \in 1 .. p : text[i + k - 1] = phrase[k]
    <3> DEFINE sub == SubSeq(text, i, i + p - 1)
    <3>1. sub \in Seq(Words) /\ Len(sub) = p /\ \A k \in 1 .. p : sub[k] = text[i + k - 1]
      BY <2>2
    <3> HIDE DEF sub
    <3>2. sub = phrase <=> \A k \in 1 .. p : sub[k] = phrase[k]
      BY <1>1, <3>1, SeqEqual
    <3> QED
      BY <3>1, <3>2 DEF sub
  <2> QED
    BY <1>1, <2>3, <2>4
<1>3. \A i \in 1 .. t : AtText(i) => i \in 1 .. t - p + 1
  <2> SUFFICES ASSUME NEW i \in 1 .. t, AtText(i)  PROVE i \in 1 .. t - p + 1
    OBVIOUS
  <2>1. p \in DOMAIN phrase
    BY <1>1
  <2>2. i + p - 1 \in DOMAIN text
    BY <2>1
  <2> QED
    BY <1>1, <2>2
<1>4. 1 .. t - p + 1 \subseteq 1 .. t
  BY <1>1
<1> HIDE DEF AtText
<1>5. Occurrences(text, phrase) = {i \in 1 .. t : AtText(i)}
  BY <1>2, <1>3, <1>4 DEF Occurrences
<1> QED
  BY <1>1, <1>5 DEF AtText

\* The places of a phrase in the transcript.
LEMMA HeardWhere ==
  ASSUME tokens \in Seq(Words), NEW phrase \in Seq(Words) \ {<<>>}
  PROVE  /\ Occurrences(tokens, phrase) = Heard(phrase)
         /\ \A i \in Heard(phrase) : i \in 1 .. Len(tokens) /\ i + Len(phrase) - 1 <= Len(tokens)
<1>1. Occurrences(tokens, phrase) = Heard(phrase)
  BY OccursWhere DEF Heard, At
<1>2. ASSUME NEW i \in Heard(phrase)
      PROVE  i \in 1 .. Len(tokens) /\ i + Len(phrase) - 1 <= Len(tokens)
  <2>1. Len(phrase) \in DOMAIN phrase /\ Len(tokens) \in Nat /\ DOMAIN tokens = 1 .. Len(tokens)
    OBVIOUS
  <2>2. i + Len(phrase) - 1 \in DOMAIN tokens
    BY <2>1 DEF Heard, At
  <2> QED
    BY <2>1, <2>2 DEF Heard
<1> QED
  BY <1>1, <1>2

\* A stretch of the transcript: what lies around place i.
IsWindow(sub, from, end, i, kw) ==
  /\ sub \in Seq(Words) /\ DOMAIN sub = 1 .. end - from + 1
  /\ \A k \in DOMAIN sub : sub[k] = tokens[from + k - 1]
  /\ \A j \in 1 .. Len(tokens) : j >= from <=> j >= i - kw.window
  /\ \A j \in 1 .. Len(tokens) : j <= end <=> j <= i - 1 + Len(kw.phrase) + kw.window

\* What WindowEnd cuts out is what lies within the window, at the text's edges too.
LEMMA WindowAround ==
  ASSUME tokens \in Seq(Words), NEW kw, ValidKeyword(kw), NEW i \in Heard(kw.phrase),
         NEW sub, sub = SubSeq(tokens, Max({1, i - kw.window}), WindowEnd(i, kw))
  PROVE  \E from \in 1 .. i, end \in i .. Len(tokens) : IsWindow(sub, from, end, i, kw)
<1> DEFINE from == Max({1, i - kw.window})
           end  == WindowEnd(i, kw)
           last == i - 1 + Len(kw.phrase) + kw.window
<1>1. /\ Len(tokens) \in Nat /\ DOMAIN tokens = 1 .. Len(tokens) /\ Len(kw.phrase) \in Nat \ {0}
      /\ kw.window \in Nat /\ i \in 1 .. Len(tokens) /\ i + Len(kw.phrase) - 1 <= Len(tokens)
  BY HeardWhere DEF ValidKeyword
<1>2. from \in {1, i - kw.window} /\ from >= 1 /\ from >= i - kw.window
  <2> DEFINE low == i - kw.window
  <2>1. low \in Int /\ 1 \in Int
    BY <1>1
  <2> HIDE DEF low
  <2>2. /\ Max({1, low}) \in {1, low} /\ Max({1, low}) >= 1 /\ Max({1, low}) >= low
    BY <2>1, GreaterOf
  <2> QED
    BY <2>2 DEF low
<1>3. end \in {Len(tokens), last} /\ end <= Len(tokens) /\ end <= last
  <2>1. Len(tokens) \in Int /\ last \in Int
    BY <1>1
  <2>2. end = Min({Len(tokens), last})
    BY DEF WindowEnd
  <2> HIDE DEF end, last
  <2> QED
    BY <2>1, <2>2, LesserOf
<1>4. sub = SubSeq(tokens, from, end)
  OBVIOUS
<1> HIDE DEF from, end
<1>5. from \in 1 .. i /\ end \in i .. Len(tokens)
  BY <1>1, <1>2, <1>3
<1>6. /\ sub \in Seq(Words) /\ Len(sub) = end - from + 1
      /\ \A k \in 1 .. end - from + 1 : sub[k] = tokens[from + k - 1]
  <2>1. \A k \in from .. end : tokens[k] \in Words
    BY <1>1, <1>5
  <2> QED
    <3>1. from \in Int /\ end \in Int /\ from <= end
      BY <1>1, <1>5
    <3>2. /\ SubSeq(tokens, from, end) \in Seq(Words)
          /\ Len(SubSeq(tokens, from, end)) = end - from + 1
          /\ \A k \in 1 .. end - from + 1 : SubSeq(tokens, from, end)[k] = tokens[from + k - 1]
      BY <2>1, <3>1, SubSeqProperties
    <3> QED
      BY <1>4, <3>2, Zenon
<1>7. \A j \in 1 .. Len(tokens) : j >= from <=> j >= i - kw.window
  BY <1>1, <1>2
<1>8. \A j \in 1 .. Len(tokens) : j <= end <=> j <= last
  BY <1>1, <1>3
<1> QED
  <2>1. DOMAIN sub = 1 .. end - from + 1
    BY <1>6
  <2>2. IsWindow(sub, from, end, i, kw)
    BY <1>6, <1>7, <1>8, <2>1 DEF IsWindow
  <2> QED
    BY <1>5, <2>2

\* The context that is sought within the window is the one that is near.
LEMMA ContextIsNear ==
  ASSUME tokens \in Seq(Words), NEW kw, ValidKeyword(kw), Heard(kw.phrase) # {},
         NEW c \in kw.required \cup kw.excluded
  PROVE  ContextPresent(c, kw) <=> \E i \in Heard(kw.phrase) : Near(c, kw, i)
<1>1. /\ c \in Seq(Words) \ {<<>>} /\ kw.phrase \in Seq(Words) \ {<<>>} /\ kw.window \in Nat
      /\ Len(tokens) \in Nat /\ DOMAIN tokens = 1 .. Len(tokens)
      /\ Len(c) \in Nat \ {0} /\ DOMAIN c = 1 .. Len(c) /\ Len(kw.phrase) \in Nat
  BY DEF ValidKeyword
<1>2. CASE kw.window = 0
  <2>1. Occurrences(tokens, c) = Heard(c)
    BY <1>1, HeardWhere
  <2>2. \A i : Near(c, kw, i) <=> Heard(c) # {}
    BY <1>2 DEF Near, Heard
  <2> QED
    BY <1>2, <2>1, <2>2 DEF ContextPresent
<1>3. CASE kw.window > 0
  <2>1. ASSUME NEW i \in Heard(kw.phrase)
        PROVE  Occurrences(SubSeq(tokens, Max({1, i - kw.window}), WindowEnd(i, kw)), c) # {}
                 <=> Near(c, kw, i)
    <3>1. PICK sub : sub = SubSeq(tokens, Max({1, i - kw.window}), WindowEnd(i, kw))
      OBVIOUS
    <3>a. PICK from \in 1 .. i, end \in i .. Len(tokens) : IsWindow(sub, from, end, i, kw)
      BY <3>1, WindowAround
    <3>2. /\ sub \in Seq(Words) /\ DOMAIN sub = 1 .. end - from + 1
          /\ \A k \in DOMAIN sub : sub[k] = tokens[from + k - 1]
          /\ \A j \in 1 .. Len(tokens) : j >= from <=> j >= i - kw.window
          /\ \A j \in 1 .. Len(tokens) : j <= end <=> j <= i - 1 + Len(kw.phrase) + kw.window
          /\ from \in 1 .. i /\ end \in i .. Len(tokens)
      BY <3>a DEF IsWindow
    <3>3. Occurrences(sub, c) =
            {k \in DOMAIN sub : \A m \in DOMAIN c :
               k + m - 1 \in DOMAIN sub /\ sub[k + m - 1] = c[m]}
      BY <1>1, <3>2, OccursWhere
    <3>4. i \in 1 .. Len(tokens)
      BY <1>1, HeardWhere
    <3>5. ASSUME NEW k \in Occurrences(sub, c)  PROVE Near(c, kw, i)
      <4> DEFINE j == from + k - 1
      <4>1. k \in 1 .. end - from + 1 /\ j \in 1 .. Len(tokens) /\ j >= from
        BY <3>2, <3>3, <3>4
      <4>2. ASSUME NEW m \in 1 .. Len(c)
            PROVE  j + m - 1 \in 1 .. end /\ tokens[j + m - 1] = c[m]
        <5>1. k + m - 1 \in 1 .. end - from + 1 /\ sub[k + m - 1] = c[m]
          BY <1>1, <3>2, <3>3
        <5>2. from + (k + m - 1) - 1 = j + m - 1
          BY <4>1
        <5>3. sub[k + m - 1] = tokens[from + (k + m - 1) - 1]
          BY <3>2, <5>1
        <5>4. j + m - 1 \in 1 .. end
          BY <3>2, <4>1, <5>1
        <5> QED
          BY <5>1, <5>2, <5>3, <5>4
      <4> HIDE DEF j
      <4>3. At(j, c)
        <5>1. \A m \in 1 .. Len(c) : j + m - 1 \in 1 .. Len(tokens)
          BY <1>1, <3>2, <4>2
        <5> QED
          BY <1>1, <4>2, <5>1 DEF At
      <4>4. j + Len(c) - 1 <= i - 1 + Len(kw.phrase) + kw.window
        <5>1. j + Len(c) - 1 \in 1 .. end
          BY <1>1, <4>2
        <5> QED
          BY <1>1, <3>2, <5>1
      <4>5. j >= i - kw.window
        BY <3>2, <4>1
      <4> QED
        <5>1. j + Len(c) <= i + Len(kw.phrase) + kw.window
          BY SMTT(20), <1>1, <3>4, <4>1, <4>4
        <5> QED
          BY <1>1, <4>1, <4>3, <4>5, <5>1 DEF Near
    <3>6. ASSUME Near(c, kw, i)  PROVE Occurrences(sub, c) # {}
      <4>1. PICK j \in 1 .. Len(tokens) :
              /\ At(j, c)
              /\ j >= i - kw.window
              /\ j + Len(c) <= i + Len(kw.phrase) + kw.window
        BY <1>1, <1>3, <3>6 DEF Near
      <4> DEFINE k == j - from + 1
      <4>2. j >= from /\ j + Len(c) - 1 \in 1 .. Len(tokens)
        <5>1. j \in Heard(c)
          BY <1>1, <4>1 DEF Heard
        <5> QED
          BY <1>1, <3>2, <4>1, <5>1, HeardWhere
      <4>3. j + Len(c) - 1 <= end
        <5> DEFINE last == j + Len(c) - 1
        <5>1. last \in 1 .. Len(tokens) /\ last <= i - 1 + Len(kw.phrase) + kw.window
          BY SMTT(20), <1>1, <3>4, <4>1, <4>2
        <5> HIDE DEF last
        <5>2. last <= end
          BY <3>2, <5>1
        <5> QED
          BY <5>2 DEF last
      <4>4. ASSUME NEW m \in 1 .. Len(c)
            PROVE  k + m - 1 \in DOMAIN sub /\ sub[k + m - 1] = c[m]
        <5>1. k + m - 1 \in 1 .. end - from + 1
          BY <1>1, <3>2, <4>2, <4>3
        <5>2. from + (k + m - 1) - 1 = j + m - 1
          BY <1>1, <3>2
        <5>3. tokens[j + m - 1] = c[m]
          BY <1>1, <4>1 DEF At
        <5> QED
          BY <3>2, <5>1, <5>2, <5>3
      <4>5. k \in DOMAIN sub
        BY <1>1, <3>2, <4>2, <4>3
      <4> HIDE DEF k
      <4> QED
        BY <1>1, <3>3, <4>4, <4>5
    <3> QED
      BY <3>1, <3>5, <3>6
  <2>2. Occurrences(tokens, kw.phrase) = Heard(kw.phrase)
    BY <1>1, HeardWhere
  <2> QED
    <3>1. kw.window # 0
      BY <1>1, <1>3
    <3> QED
      BY <2>1, <2>2, <3>1 DEF ContextPresent
<1> QED
  BY <1>1, <1>2, <1>3

\* What is made of a keyword that occurs is what the transcript says of it.
LEMMA EvaluateSays ==
  ASSUME tokens \in Seq(Words), NEW kw, ValidKeyword(kw), Heard(kw.phrase) # {}
  PROVE  Says(Evaluate(kw), kw)
<1>1. Occurrences(tokens, kw.phrase) = Heard(kw.phrase)
  BY HeardWhere DEF ValidKeyword
<1>2. (\E c \in kw.required : ContextPresent(c, kw))
        <=> \E c \in kw.required, i \in Heard(kw.phrase) : Near(c, kw, i)
  BY ContextIsNear
<1>3. (\E c \in kw.excluded : ContextPresent(c, kw))
        <=> \E c \in kw.excluded, i \in Heard(kw.phrase) : Near(c, kw, i)
  BY ContextIsNear
<1>4. Evaluate(kw).state = "matched" <=> Firm(kw)
  BY <1>2, <1>3 DEF Evaluate, Firm
<1> QED
  BY <1>1, <1>4 DEF Evaluate, Says

-----------------------------------------------------------------------------
(* The look-up of a list.                                                  *)

\* The results so far are of the keywords looked up so far.
LookedInv ==
  \E of \in [DOMAIN matches -> 1 .. looked] :
    /\ {of[m] : m \in DOMAIN matches} = {n \in 1 .. looked : Heard(list[n].phrase) # {}}
    /\ \A m, n \in DOMAIN matches : m < n => of[m] < of[n]
    /\ \A m \in DOMAIN matches : Says(matches[m], list[of[m]])

KeywordInv ==
  /\ list \in Seq(Keywords) /\ looked \in 0 .. Len(list)
  /\ matches \in Seq({Evaluate(kw) : kw \in Keywords})
  /\ outcome \in {"none", "error", "done"}
  /\ tokens \in Seq(Words) \cup {Blank}
  /\ outcome = "done" => tokens # Blank /\ (configured => looked = Len(list))
  /\ ~ configured => looked = 0
  /\ tokens # Blank => LookedInv

\* Nothing is looked up yet.
LEMMA KeywordInvInit == KeywordInit => KeywordInv
<1> SUFFICES ASSUME KeywordInit  PROVE KeywordInv
  OBVIOUS
<1> USE DEF KeywordInit
<1>1. tokens \in Seq(Words) \cup {Blank}
  <2> SUFFICES ASSUME tokens # Blank  PROVE tokens \in Seq(Words)
    OBVIOUS
  <2>1. PICK n \in 0 .. MaxTokens : tokens \in [1 .. n -> Words]
    OBVIOUS
  <2> QED
    BY <2>1, KeywordAssumption
<1>2. list \in Seq(Keywords) /\ Len(list) \in Nat
  <2>1. PICK n \in 1 .. MaxEntries : list \in [1 .. n -> Keywords]
    OBVIOUS
  <2> QED
    BY <2>1, KeywordAssumption
<1>3. LookedInv
  <2>1. DOMAIN matches = {} /\ 1 .. looked = {}
    OBVIOUS
  <2>2. PICK of : of \in [DOMAIN matches -> 1 .. looked]
    <3>1. [m \in DOMAIN matches |-> 1] \in [DOMAIN matches -> 1 .. looked]
      BY <2>1
    <3> QED
      BY <3>1
  <2> QED
    BY <2>1, <2>2 DEF LookedInv
<1>4. matches \in Seq({Evaluate(kw) : kw \in Keywords})
  OBVIOUS
<1> QED
  BY <1>1, <1>2, <1>3, <1>4 DEF KeywordInv

\* No step changes the transcript or the list.
LEMMA SameTranscript ==
  ASSUME UNCHANGED tokens
  PROVE  /\ \A phrase : Heard(phrase)' = Heard(phrase)
         /\ \A kw : Evaluate(kw)' = Evaluate(kw)
         /\ \A match, kw : Says(match, kw)' <=> Says(match, kw)
<1>1. \A i, phrase : At(i, phrase)' <=> At(i, phrase)
  BY DEF At
<1>2. \A phrase : Heard(phrase)' = Heard(phrase)
  BY <1>1 DEF Heard
<1>3. \A kw : Evaluate(kw)' = Evaluate(kw)
  BY DEF Evaluate, ContextPresent, Occurrences, WindowEnd
<1>4. \A c, kw, i : Near(c, kw, i)' <=> Near(c, kw, i)
  BY <1>1 DEF Near
<1>5. \A kw : Firm(kw)' <=> Firm(kw)
  BY <1>2, <1>4 DEF Firm
<1>6. \A match, kw : Says(match, kw)' <=> Says(match, kw)
  BY <1>2, <1>5 DEF Says
<1> QED
  BY <1>2, <1>3, <1>6

\* Nothing but the outcome changes.
LEMMA LookedKept ==
  ASSUME LookedInv, UNCHANGED <<tokens, list, looked, matches>>
  PROVE  LookedInv'
<1>1. PICK of \in [DOMAIN matches -> 1 .. looked] :
        /\ {of[m] : m \in DOMAIN matches} = {n \in 1 .. looked : Heard(list[n].phrase) # {}}
        /\ \A m, n \in DOMAIN matches : m < n => of[m] < of[n]
        /\ \A m \in DOMAIN matches : Says(matches[m], list[of[m]])
  BY DEF LookedInv
<1> QED
  BY <1>1, SameTranscript DEF LookedInv

\* A blank text has no results.
LEMMA RefuseStep ==
  ASSUME KeywordInv, Refuse
  PROVE  KeywordInv'
BY SameTranscript DEF KeywordInv, Refuse

\* The whole list has been looked up, or none of it.
LEMMA DetectedStep ==
  ASSUME KeywordInv, Detected
  PROVE  KeywordInv'
<1>1. LookedInv'
  BY LookedKept DEF KeywordInv, Detected
<1> QED
  BY <1>1, SameTranscript DEF KeywordInv, Detected

\* One keyword more: its result, if it occurs, comes last.
LEMMA LookUpStep ==
  ASSUME KeywordInv, LookUp
  PROVE  KeywordInv'
<1> DEFINE next == looked + 1
           kw   == list[next]
           l    == Len(matches)
<1>1. /\ UNCHANGED <<tokens, list, configured, outcome>> /\ looked' = next
      /\ tokens \in Seq(Words) /\ tokens # Blank /\ configured /\ outcome = "none"
      /\ list \in Seq(Keywords) /\ looked \in Nat /\ next \in 1 .. Len(list) /\ Len(list) \in Nat
      /\ matches \in Seq({Evaluate(k) : k \in Keywords}) /\ LookedInv
      /\ matches' = IF Occurrences(tokens, kw.phrase) = {} THEN matches
                    ELSE Append(matches, Evaluate(kw))
  BY DEF KeywordInv, LookUp
<1>2. kw \in Keywords /\ ValidKeyword(kw)
  BY <1>1, KeywordAssumption
<1>3. Occurrences(tokens, kw.phrase) = Heard(kw.phrase)
  BY <1>1, <1>2, HeardWhere DEF ValidKeyword
<1>4. PICK of \in [DOMAIN matches -> 1 .. looked] :
        /\ {of[m] : m \in DOMAIN matches} = {n \in 1 .. looked : Heard(list[n].phrase) # {}}
        /\ \A m, n \in DOMAIN matches : m < n => of[m] < of[n]
        /\ \A m \in DOMAIN matches : Says(matches[m], list[of[m]])
  BY <1>1 DEF LookedInv
<1>5. l \in Nat /\ DOMAIN matches = 1 .. l
  BY <1>1
<1>6. {n \in 1 .. next : Heard(list[n].phrase) # {}} =
        {n \in 1 .. looked : Heard(list[n].phrase) # {}}
          \cup (IF Heard(kw.phrase) = {} THEN {} ELSE {next})
  <2>1. 1 .. next = 1 .. looked \cup {next} /\ kw = list[next]
    BY <1>1
  <2> HIDE DEF next, kw
  <2> QED
    BY <2>1, Zenon
<1>7. CASE Heard(kw.phrase) = {}
  <2>1. matches' = matches
    BY <1>1, <1>3, <1>7
  <2>2. of \in [DOMAIN matches -> 1 .. next]
    BY <1>1
  <2>3. {of[m] : m \in DOMAIN matches} = {n \in 1 .. next : Heard(list[n].phrase) # {}}
    BY <1>4, <1>6, <1>7
  <2>4. LookedInv'
    BY <1>1, <1>4, <2>1, <2>2, <2>3, SameTranscript DEF LookedInv
  <2> QED
    BY <1>1, <2>1, <2>4, SameTranscript DEF KeywordInv
<1>8. CASE Heard(kw.phrase) # {}
  <2>1. matches' = Append(matches, Evaluate(kw))
    BY <1>1, <1>3, <1>8
  <2>2. /\ DOMAIN matches' = 1 .. l + 1 /\ matches'[l + 1] = Evaluate(kw)
        /\ \A m \in 1 .. l : matches'[m] = matches[m]
        /\ matches' \in Seq({Evaluate(k) : k \in Keywords})
    BY <1>1, <1>2, <1>5, <2>1
  <2>3. PICK to \in [1 .. l + 1 -> 1 .. next] :
          \A m \in 1 .. l + 1 : to[m] = IF m = l + 1 THEN next ELSE of[m]
    <3> DEFINE f == [m \in 1 .. l + 1 |-> IF m = l + 1 THEN next ELSE of[m]]
    <3>1. f \in [1 .. l + 1 -> 1 .. next]
      BY <1>1, <1>5
    <3> QED
      BY <3>1
  <2> HIDE DEF next, l
  <2>4. \A m \in 1 .. l : to[m] = of[m] /\ of[m] \in 1 .. looked
    BY <1>5, <2>3
  <2>5. to[l + 1] = next
    BY <1>5, <2>3
  <2>6. {to[m] : m \in 1 .. l + 1} = {n \in 1 .. next : Heard(list[n].phrase) # {}}
    <3>1. {to[m] : m \in 1 .. l + 1} = {of[m] : m \in 1 .. l} \cup {next}
      BY <1>5, <2>4, <2>5
    <3> QED
      BY <1>4, <1>5, <1>6, <1>8, <3>1
  <2>7. \A m, n \in 1 .. l + 1 : m < n => to[m] < to[n]
    <3> SUFFICES ASSUME NEW m \in 1 .. l + 1, NEW n \in 1 .. l + 1, m < n
                 PROVE  to[m] < to[n]
      OBVIOUS
    <3>1. m \in 1 .. l
      BY <1>5
    <3>2. CASE n = l + 1
      BY <1>1, <2>4, <2>5, <3>1, <3>2 DEF next
    <3>3. CASE n \in 1 .. l
      BY <1>4, <1>5, <2>4, <3>1, <3>3
    <3> QED
      BY <1>5, <3>2, <3>3
  <2>8. \A m \in 1 .. l + 1 : Says(matches'[m], list[to[m]])
    <3>1. Says(Evaluate(kw), kw)
      BY <1>1, <1>2, <1>8, EvaluateSays
    <3>2. ASSUME NEW m \in 1 .. l  PROVE Says(matches'[m], list[to[m]])
      BY <1>4, <1>5, <2>2, <2>4
    <3> QED
      <4>1. Says(matches'[l + 1], list[to[l + 1]])
        BY <2>2, <2>5, <3>1
      <4>2. \A m \in 1 .. l + 1 : m = l + 1 \/ m \in 1 .. l
        BY <1>5
      <4> QED
        BY <3>2, <4>1, <4>2
  <2>9. LookedInv'
    <3>1. UNCHANGED <<tokens, list>> /\ looked' = next /\ DOMAIN matches' = 1 .. l + 1
      BY <1>1, <2>2
    <3>2. /\ {to[m] : m \in DOMAIN matches'} = {n \in 1 .. looked' : Heard(list[n].phrase)' # {}}
          /\ \A m, n \in DOMAIN matches' : m < n => to[m] < to[n]
          /\ \A m \in DOMAIN matches' : Says(matches[m], list[to[m]])'
          /\ to \in [DOMAIN matches' -> 1 .. looked']
      <4>1. \A n : Heard(list[n].phrase)' = Heard(list[n].phrase)
        BY <3>1, SameTranscript
      <4>2. \A m : Says(matches[m], list[to[m]])' <=> Says(matches'[m], list[to[m]])
        BY <3>1, SameTranscript
      <4> QED
        BY <2>3, <2>6, <2>7, <2>8, <3>1, <4>1, <4>2
    <3> QED
      BY <3>2 DEF LookedInv
  <2>10. looked' \in 0 .. Len(list)
    BY <1>1
  <2> QED
    BY <1>1, <2>2, <2>9, <2>10, SameTranscript DEF KeywordInv
<1> QED
  BY <1>7, <1>8

\* The inductive invariant of the look-up.
THEOREM KeywordInvariant == KeywordSpec => []KeywordInv
<1>1. KeywordInv /\ [KeywordNext]_keywordVars => KeywordInv'
  <2> SUFFICES ASSUME KeywordInv, [KeywordNext]_keywordVars  PROVE KeywordInv'
    OBVIOUS
  <2>1. CASE UNCHANGED keywordVars
    <3>1. tokens # Blank => LookedInv'
      BY <2>1, LookedKept DEF KeywordInv, keywordVars
    <3> QED
      BY <2>1, <3>1, SameTranscript DEF KeywordInv, keywordVars
  <2> QED
    BY <2>1, RefuseStep, LookUpStep, DetectedStep DEF KeywordNext
<1> QED
  BY <1>1, KeywordInvInit, PTL DEF KeywordSpec

\* Whatever the list and the transcript, the results are those of the keywords
\* that occur, in order, and each is firm exactly if its context allows it.
THEOREM ContextAlwaysDecides == KeywordSpec => []ContextDecides
<1>1. KeywordInv => ContextDecides
  <2> SUFFICES ASSUME KeywordInv, outcome = "done"
               PROVE  \E of \in [DOMAIN matches -> DOMAIN list] :
                        /\ {of[m] : m \in DOMAIN matches}
                             = {n \in DOMAIN list : configured /\ Heard(list[n].phrase) # {}}
                        /\ \A m, n \in DOMAIN matches : m < n => of[m] < of[n]
                        /\ \A m \in DOMAIN matches : Says(matches[m], list[of[m]])
    BY DEF ContextDecides
  <2>1. PICK of \in [DOMAIN matches -> 1 .. looked] :
          /\ {of[m] : m \in DOMAIN matches} = {n \in 1 .. looked : Heard(list[n].phrase) # {}}
          /\ \A m, n \in DOMAIN matches : m < n => of[m] < of[n]
          /\ \A m \in DOMAIN matches : Says(matches[m], list[of[m]])
    BY DEF KeywordInv, LookedInv
  <2>2. DOMAIN list = 1 .. Len(list) /\ looked \in 0 .. Len(list) /\ Len(list) \in Nat
    BY DEF KeywordInv
  <2>3. of \in [DOMAIN matches -> DOMAIN list]
    BY <2>2
  <2>4. {n \in DOMAIN list : configured /\ Heard(list[n].phrase) # {}}
          = {n \in 1 .. looked : Heard(list[n].phrase) # {}}
    <3>1. CASE configured
      BY <2>2, <3>1 DEF KeywordInv
    <3>2. CASE ~ configured
      <4>1. 1 .. looked = {}
        BY <3>2 DEF KeywordInv
      <4> QED
        BY <3>2, <4>1
    <3> QED
      BY <3>1, <3>2
  <2> QED
    BY <2>1, <2>3, <2>4
<1> QED
  BY <1>1, KeywordInvariant, PTL
=============================================================================
