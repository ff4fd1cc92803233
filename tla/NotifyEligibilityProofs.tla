----------------------- MODULE NotifyEligibilityProofs -----------------------
(***************************************************************************)
(* Theorems about NotifyEligibility for any preference rows, alerts, clock *)
(* and any number of writes between the reads of an evaluation.            *)
(*                                                                         *)
(* ReadSoFar is what makes an answer about four instants true at the last  *)
(* of them: unless a condition was withdrawn since, each one read is still *)
(* so.  StoredSound is what Validate and the column's precision leave of a *)
(* row of preferences: quiet hours that are both given or neither, within  *)
(* the day.  The clock's arithmetic is settled once, by InWindowIsQuiet.   *)
(***************************************************************************)
EXTENDS NotifyEligibility, TLAPS

\* A row that was put, or the defaults.
StoredSound ==
  /\ prefs \in PreferenceRow
  /\ prefs.from = NoTime <=> prefs.to = NoTime
  /\ prefs.from # NoTime =>
       ValidOffset(prefs.from) /\ ValidOffset(prefs.to) /\ prefs.zone = "iana"
  /\ prefs.minConfidence \in {NoTime} \cup 0 .. 100

\* The steps at which a condition has been read.
After(condition) ==
  CASE condition = "account" -> {"device", "consent", "preferences"}
    [] condition = "device"  -> {"consent", "preferences"}
    [] condition = "consent" -> {"preferences"}

ReadSoFar ==
  ~ withdrawn =>
    /\ eval.step \in After("account") => account = "active"
    /\ eval.step \in After("device") => device = "own"
    /\ eval.step \in After("consent") => Consented(consents)

EvalInv == EligibilityTypeOK /\ StoredSound /\ ReadSoFar

-----------------------------------------------------------------------------
(* Times of day.                                                           *)

\* A remainder, and what it is of a number less than two days away.
LEMMA RemainderRange ==
  ASSUME NEW d \in Nat \ {0}, NEW a \in Int
  PROVE  a % d \in 0 .. d - 1
OBVIOUS

LEMMA RemainderSame ==
  ASSUME NEW d \in Nat \ {0}, NEW a \in 0 .. d - 1
  PROVE  a % d = a
OBVIOUS

LEMMA RemainderAbove ==
  ASSUME NEW d \in Nat \ {0}, NEW a \in d .. 2 * d - 1
  PROVE  a % d = a - d
OBVIOUS

LEMMA RemainderBelow ==
  ASSUME NEW d \in Nat \ {0}, NEW a \in -d .. -1
  PROVE  a % d = a + d
OBVIOUS

\* What is cut off of a time of day leaves one.
LEMMA PgTimeOfDay ==
  ASSUME NEW t, ValidOffset(t)
  PROVE  ValidOffset(ToPgTime(t)) /\ t # NoTime /\ ToPgTime(t) # NoTime
<1> DEFINE x == t % Microsecond
<1>1. t \in Nat /\ t < Day /\ Microsecond \in Nat \ {0} /\ Day \in Nat \ {0}
  BY EligibilityAssumption DEF ValidOffset
<1>2. x \in 0 .. Microsecond - 1
  BY <1>1, RemainderRange
<1>3. ASSUME t < Microsecond  PROVE  x = t
  <2>1. t \in 0 .. Microsecond - 1
    BY <1>1, <1>3
  <2> QED
    BY <1>1, <2>1, RemainderSame
<1>4. ToPgTime(t) = t - x
  BY <1>1 DEF ToPgTime, NoTime
<1> HIDE DEF x
<1>5. t - x \in 0 .. Day - 1
  BY <1>1, <1>2, <1>3
<1> QED
  BY <1>1, <1>4, <1>5 DEF ValidOffset, NoTime

\* The window walked through from its start holds the instants that the
\* comparison of times of day finds in it.
LEMMA InWindowIsQuiet ==
  ASSUME NEW row \in PreferenceRow, NEW t \in Int,
         row.from # NoTime => ValidOffset(row.from) /\ ValidOffset(row.to)
  PROVE  InWindow(row, t) <=> QuietAt(row, t)
<1>1. CASE row.from = NoTime
  BY <1>1 DEF InWindow, QuietAt
<1>2. CASE row.from # NoTime
  <2> DEFINE a == row.from
             b == row.to
             x == t % Day
             width == (b - a) % Day
             at(k) == (a + k) % Day
  <2>1. Day \in Nat \ {0} /\ a \in 0 .. Day - 1 /\ b \in 0 .. Day - 1
    BY <1>2, EligibilityAssumption DEF ValidOffset
  <2>2. x \in 0 .. Day - 1
    BY <2>1, RemainderRange
  <2>3. width = IF a <= b THEN b - a ELSE b - a + Day
    <3>1. CASE a <= b
      BY <2>1, <3>1, b - a \in 0 .. Day - 1, RemainderSame
    <3>2. CASE ~ a <= b
      BY <2>1, <3>2, b - a \in -Day .. -1, RemainderBelow
    <3> QED
      BY <3>1, <3>2
  <2>4. ASSUME NEW k \in 0 .. Day - 1
        PROVE  at(k) = IF a + k < Day THEN a + k ELSE a + k - Day
    <3>1. CASE a + k < Day
      BY <2>1, <3>1, a + k \in 0 .. Day - 1, RemainderSame
    <3>2. CASE ~ a + k < Day
      BY <2>1, <3>2, a + k \in Day .. 2 * Day - 1, RemainderAbove
    <3> QED
      BY <3>1, <3>2
  <2>5. InWindow(row, t) <=> \E k \in 0 .. Day - 1 : k < width /\ at(k) = x
    BY <1>2 DEF InWindow
  <2>6. QuietAt(row, t) <=> /\ a # b
                           /\ IF a < b THEN a <= x /\ x < b ELSE a <= x \/ x < b
    BY <1>2 DEF QuietAt
  <2> HIDE DEF a, b, x, width, at
  <2>7. ASSUME NEW k \in 0 .. Day - 1, k < width, at(k) = x
        PROVE  a # b /\ (IF a < b THEN a <= x /\ x < b ELSE a <= x \/ x < b)
    BY <2>1, <2>2, <2>3, <2>4, <2>7
  <2>8. ASSUME a # b, IF a < b THEN a <= x /\ x < b ELSE a <= x \/ x < b
        PROVE  \E k \in 0 .. Day - 1 : k < width /\ at(k) = x
    <3> DEFINE k == IF a <= x THEN x - a ELSE x - a + Day
    <3>1. k \in 0 .. Day - 1 /\ k < width
      BY <2>1, <2>2, <2>3, <2>8
    <3>2. (IF a + k < Day THEN a + k ELSE a + k - Day) = x
      BY <2>1, <2>2
    <3> HIDE DEF k
    <3> QED
      BY <2>4, <3>1, <3>2
  <2> QED
    BY <2>5, <2>6, <2>7, <2>8
<1> QED
  BY <1>1, <1>2

-----------------------------------------------------------------------------
(* The verdict on a row of preferences.                                    *)

\* Of a few numbers one is the least.
LEMMA LeastOfFew ==
  ASSUME NEW S \in SUBSET (1 .. 7), S # {}
  PROVE  \E i \in S : \A j \in S : i <= j
<1>1. \E i \in 1 .. 7 : i \in S /\ \A j \in 1 .. i - 1 : j \notin S
  <2>1. CASE 1 \in S
    BY <2>1
  <2>2. CASE 1 \notin S /\ 2 \in S
    BY <2>2
  <2>3. CASE 1 \notin S /\ 2 \notin S /\ 3 \in S
    BY <2>3
  <2>4. CASE 1 \notin S /\ 2 \notin S /\ 3 \notin S /\ 4 \in S
    BY <2>4
  <2>5. CASE S \subseteq 5 .. 7 /\ 5 \in S
    BY <2>5
  <2>6. CASE S \subseteq 6 .. 7 /\ 6 \in S
    BY <2>6
  <2>7. CASE S \subseteq 7 .. 7
    <3>1. PICK x \in S : TRUE
      OBVIOUS
    <3> QED
      BY <2>7, <3>1
  <2> QED
    BY <2>1, <2>2, <2>3, <2>4, <2>5, <2>6, <2>7
<1> QED
  BY <1>1

\* The first of the checks that fails gives the reason, for each one what it
\* takes to come to it.
LEMMA JudgedCases ==
  ASSUME NEW row, NEW alert, NEW t
  PROVE  LET P(i) == Checks(row, alert, t)[i].passes
             R(i) == Checks(row, alert, t)[i].reason
         IN  \/ Judged(row, alert, t) = "eligible" /\ \A i \in 1 .. 7 : P(i)
             \/ \E n \in 1 .. 7 : /\ Judged(row, alert, t) = R(n)
                                 /\ ~ P(n) /\ \A i \in 1 .. n - 1 : P(i)
<1> DEFINE checks == Checks(row, alert, t)
           failed == {i \in DOMAIN checks : ~ checks[i].passes}
           first  == CHOOSE i \in failed : \A j \in failed : i <= j
<1>1. DOMAIN checks = 1 .. 7
  BY DEF Checks
<1>2. Judged(row, alert, t) = IF failed = {} THEN "eligible" ELSE checks[first].reason
  BY DEF Judged
<1> HIDE DEF checks
<1>3. CASE failed = {}
  BY <1>1, <1>2, <1>3 DEF checks
<1>4. CASE failed # {}
  <2>1. \E i \in failed : \A j \in failed : i <= j
    BY <1>1, <1>4, LeastOfFew
  <2>2. first \in failed /\ \A j \in failed : first <= j
    BY <2>1
  <2> HIDE DEF first
  <2>3. /\ first \in 1 .. 7 /\ ~ checks[first].passes
        /\ \A i \in 1 .. first - 1 : checks[i].passes
    BY <1>1, <2>2
  <2> QED
    BY <1>2, <1>4, <2>3 DEF checks
<1> QED
  BY <1>3, <1>4

\* With the checks written out.
LEMMA JudgedReasons ==
  ASSUME NEW row, NEW alert, NEW t
  PROVE  LET j == Judged(row, alert, t)
             enabled == row.enabled
             channel == alert.channel \in row.channels
             tone    == alert.detector # "tone" \/ alert.list \in row.tones
             keyword == alert.detector # "keyword" \/ alert.list \in row.keywords
             confident == Confident(row, alert)
             formed  == ~ Malformed(row)
             awake   == ~ QuietAt(row, t)
         IN  \/ j = "eligible" /\ enabled /\ channel /\ tone /\ keyword /\ confident /\ awake
             \/ j = "notifications_disabled" /\ ~ enabled
             \/ j = "channel_not_selected" /\ enabled /\ ~ channel
             \/ j = "tone_set_not_selected" /\ enabled /\ channel /\ ~ tone
             \/ j = "keyword_list_not_selected" /\ enabled /\ channel /\ tone /\ ~ keyword
             \/ j = "below_min_confidence" /\ enabled /\ channel /\ tone /\ keyword /\ ~ confident
             \/ j = "unavailable" /\ ~ formed
             \/ /\ j = "quiet_hours" /\ enabled /\ channel /\ tone /\ keyword /\ confident
                /\ ~ awake
<1> DEFINE P(i) == Checks(row, alert, t)[i].passes
           R(i) == Checks(row, alert, t)[i].reason
<1>1. /\ (P(1) <=> row.enabled) /\ R(1) = "notifications_disabled"
      /\ (P(2) <=> alert.channel \in row.channels) /\ R(2) = "channel_not_selected"
      /\ (P(3) <=> (alert.detector # "tone" \/ alert.list \in row.tones))
      /\ R(3) = "tone_set_not_selected"
      /\ (P(4) <=> (alert.detector # "keyword" \/ alert.list \in row.keywords))
      /\ R(4) = "keyword_list_not_selected"
      /\ (P(5) <=> Confident(row, alert)) /\ R(5) = "below_min_confidence"
      /\ (P(6) <=> ~ Malformed(row)) /\ R(6) = "unavailable"
      /\ (P(7) <=> ~ QuietAt(row, t)) /\ R(7) = "quiet_hours"
  BY DEF Checks
<1>2. \/ Judged(row, alert, t) = "eligible" /\ \A i \in 1 .. 7 : P(i)
      \/ \E n \in 1 .. 7 : /\ Judged(row, alert, t) = R(n)
                          /\ ~ P(n) /\ \A i \in 1 .. n - 1 : P(i)
  BY JudgedCases
<1> HIDE DEF P, R
<1>3. CASE Judged(row, alert, t) = "eligible" /\ \A i \in 1 .. 7 : P(i)
  BY <1>1, <1>3
<1>4. ASSUME NEW n \in 1 .. 7, Judged(row, alert, t) = R(n), ~ P(n), \A i \in 1 .. n - 1 : P(i)
      PROVE  /\ n > 1 => P(1)
             /\ n > 2 => P(2)
             /\ n > 3 => P(3)
             /\ n > 4 => P(4)
             /\ n > 5 => P(5)
  BY <1>4
<1> QED
  BY <1>1, <1>2, <1>3, <1>4

-----------------------------------------------------------------------------
(* The rows.                                                               *)

\* The defaults, and what Validate lets through and the columns keep.
LEMMA RowsAreSound ==
  ASSUME NEW row \in Candidates, ValidRow(row)
  PROVE  LET r == Stored(row) IN
         /\ r \in PreferenceRow
         /\ r.from = NoTime <=> r.to = NoTime
         /\ r.from # NoTime => ValidOffset(r.from) /\ ValidOffset(r.to) /\ r.zone = "iana"
         /\ r.minConfidence \in {NoTime} \cup 0 .. 100
<1>1. row \in PreferenceRow
  BY EligibilityAssumption
<1>2. ToPgTime(row.from) \in Int /\ ToPgTime(row.to) \in Int
  <2>1. ASSUME NEW t \in Int  PROVE  t % Microsecond \in Int
    BY EligibilityAssumption, RemainderRange
  <2> QED
    BY <1>1, <2>1 DEF ToPgTime, PreferenceRow, NoTime
<1>3. ToPgTime(NoTime) = NoTime
  BY DEF ToPgTime
<1>4. row.from # NoTime =>
        /\ ValidOffset(ToPgTime(row.from)) /\ ToPgTime(row.from) # NoTime
        /\ ValidOffset(ToPgTime(row.to)) /\ ToPgTime(row.to) # NoTime
  BY PgTimeOfDay DEF ValidRow, ValidQuietHours
<1>5. /\ Stored(row) \in PreferenceRow
      /\ Stored(row).from = ToPgTime(row.from) /\ Stored(row).to = ToPgTime(row.to)
      /\ Stored(row).zone = row.zone /\ Stored(row).minConfidence = row.minConfidence
  BY <1>1, <1>2 DEF Stored, PreferenceRow
<1> QED
  BY <1>3, <1>4, <1>5 DEF ValidRow, ValidQuietHours

LEMMA NoRowIsSound ==
  /\ NoRow \in PreferenceRow /\ NoRow.from = NoTime /\ NoRow.to = NoTime
  /\ NoRow.minConfidence = NoTime
BY DEF NoRow, PreferenceRow, NoTime

-----------------------------------------------------------------------------
(* The invariant.                                                          *)

\* The names of the conditions.
Conditions == {"account", "device", "consent", "enabled", "channel", "list", "confidence", "awake"}

\* A write shows in withdrawn when it makes a condition false.
LEMMA WriteTells ==
  ASSUME Watched, Running, ~ withdrawn'
  PROVE  /\ account = "active" => account' = "active"
         /\ device = "own" => device' = "own"
         /\ Consented(consents) => Consented(consents)'
<1> DEFINE before == Standing(eval.alert, eval.now)
           after  == Standing(eval.alert, eval.now)'
<1>1. DOMAIN before = Conditions
  BY DEF Standing, Conditions
<1>2. \A f \in Conditions : before[f] => after[f]
  BY <1>1 DEF Watched
<1>3. /\ before["account"] <=> account = "active"
      /\ before["device"] <=> device = "own"
      /\ before["consent"] <=> Consented(consents)
      /\ after["account"] <=> account' = "active"
      /\ after["device"] <=> device' = "own"
      /\ after["consent"] <=> Consented(consents)'
  BY DEF Standing
<1> HIDE DEF before, after
<1> QED
  BY <1>2, <1>3 DEF Conditions

LEMMA InvInit == EligibilityInit => EvalInv
<1> SUFFICES ASSUME EligibilityInit  PROVE EvalInv
  OBVIOUS
<1> USE DEF EligibilityInit
<1>1. EligibilityTypeOK
  <2>1. NoEval.alert \in Alerts
    BY EligibilityAssumption DEF NoEval
  <2>2. NoEval \in [step : {"account", "device", "consent", "preferences", "decided"},
                   reason : Verdicts, now : Times, alert : Alerts]
    BY <2>1, EligibilityAssumption DEF NoEval, Verdicts
  <2>3. <<>> \in Seq([event : {"granted", "revoked"}, at : Times])
    OBVIOUS
  <2> QED
    BY <2>2, <2>3, EligibilityAssumption DEF EligibilityTypeOK
<1>2. StoredSound
  BY NoRowIsSound DEF StoredSound
<1>3. ReadSoFar
  BY DEF ReadSoFar, After, NoEval
<1> QED
  BY <1>1, <1>2, <1>3 DEF EvalInv

\* A step of the evaluation that reads leaves it where it was or further on.
LEMMA ReadKeepsTypes ==
  ASSUME EligibilityTypeOK, NEW step, NEW passes \in BOOLEAN, NEW reason \in Verdicts,
         NEW next \in {"account", "device", "consent", "preferences", "decided"},
         Read(step, passes, next, reason)
  PROVE  EligibilityTypeOK'
BY DEF Read, EligibilityTypeOK, stores

\* Judging a row gives a verdict.
LEMMA JudgedIsVerdict ==
  ASSUME NEW row, NEW alert, NEW t
  PROVE  Judged(row, alert, t) \in Verdicts
<1>1. DOMAIN Denied =
        {"account_not_active", "device_not_active", "consent_not_granted",
         "notifications_disabled", "channel_not_selected", "tone_set_not_selected",
         "keyword_list_not_selected", "below_min_confidence", "quiet_hours"}
  BY DEF Denied
<1> QED
  BY <1>1, JudgedReasons DEF Verdicts

LEMMA TypeStep == EvalInv /\ [EligibilityNext]_eligibilityVars => EligibilityTypeOK'
<1> SUFFICES ASSUME EvalInv, [EligibilityNext]_eligibilityVars  PROVE EligibilityTypeOK'
  OBVIOUS
<1> USE DEF EvalInv
<1>1. ASSUME NEW alert \in Alerts, NEW now \in Times, Begin(alert, now)  PROVE EligibilityTypeOK'
  BY <1>1 DEF Begin, EligibilityTypeOK, stores, Verdicts
<1>2. CASE ReadAccount \/ ReadDevice \/ ReadConsent \/ ReadPreferences \/ ReadFails
  <2>1. {"account_not_active", "device_not_active", "consent_not_granted", "unavailable"}
          \subseteq Verdicts
    BY DEF Verdicts, Denied
  <2>2. CASE ReadAccount
    BY <2>1, <2>2, ReadKeepsTypes DEF ReadAccount
  <2>3. CASE ReadDevice
    BY <2>1, <2>3, ReadKeepsTypes DEF ReadDevice
  <2>4. CASE ReadConsent
    <3>1. Consented(consents) \in BOOLEAN
      BY DEF Consented
    <3> QED
      BY <2>1, <2>4, <3>1, ReadKeepsTypes DEF ReadConsent
  <2>5. CASE ReadPreferences
    BY <2>5, JudgedIsVerdict, ReadKeepsTypes DEF ReadPreferences
  <2>6. CASE ReadFails
    BY <2>1, <2>6, ReadKeepsTypes DEF ReadFails
  <2> QED
    BY <1>2, <2>2, <2>3, <2>4, <2>5, <2>6
<1>3. CASE SetAccount
  BY <1>3 DEF SetAccount, Written, Watched, EligibilityTypeOK
<1>4. CASE RegisterDevice \/ RevokeDevice
  BY <1>4 DEF RegisterDevice, RevokeDevice, Written, Watched, EligibilityTypeOK
<1>5. ASSUME NEW event \in {"granted", "revoked"}, NEW at \in Times, Record(event, at)
      PROVE  EligibilityTypeOK'
  BY <1>5 DEF Record, Written, Watched, EligibilityTypeOK
<1>6. ASSUME NEW row \in Candidates, Upsert(row)  PROVE EligibilityTypeOK'
  BY <1>6 DEF Upsert, Written, Watched, EligibilityTypeOK
<1>7. CASE Tick
  BY <1>7 DEF Tick, stores, EligibilityTypeOK
<1>8. CASE UNCHANGED eligibilityVars
  BY <1>8 DEF eligibilityVars, stores, EligibilityTypeOK
<1> QED
  BY <1>1, <1>2, <1>3, <1>4, <1>5, <1>6, <1>7, <1>8 DEF EligibilityNext

LEMMA StoredStep == EvalInv /\ [EligibilityNext]_eligibilityVars => StoredSound'
<1> SUFFICES ASSUME EvalInv, [EligibilityNext]_eligibilityVars  PROVE StoredSound'
  OBVIOUS
<1>1. CASE \E row \in Candidates : Upsert(row)
  BY <1>1, RowsAreSound DEF Upsert, Written, StoredSound
<1>2. CASE ~ \E row \in Candidates : Upsert(row)
  <2>1. UNCHANGED prefs
    BY <1>2 DEF EligibilityNext, Begin, ReadAccount, ReadDevice, ReadConsent, ReadPreferences,
       ReadFails, Read, SetAccount, RegisterDevice, RevokeDevice, Record, Tick, Written,
       stores, eligibilityVars
  <2> QED
    BY <2>1 DEF EvalInv, StoredSound
<1> QED
  BY <1>1, <1>2

LEMMA ReadSoFarStep == EvalInv /\ [EligibilityNext]_eligibilityVars => ReadSoFar'
<1> SUFFICES ASSUME EvalInv, [EligibilityNext]_eligibilityVars, ~ withdrawn'  PROVE ReadSoFar'
  BY DEF ReadSoFar
<1> USE DEF EvalInv
<1>1. ASSUME NEW alert \in Alerts, NEW now \in Times, Begin(alert, now)  PROVE ReadSoFar'
  BY <1>1 DEF Begin, ReadSoFar, After
<1>2. CASE ReadAccount \/ ReadDevice \/ ReadConsent \/ ReadPreferences \/ ReadFails
  BY <1>2 DEF ReadAccount, ReadDevice, ReadConsent, ReadPreferences, ReadFails, Read, ReadSoFar,
     After, stores, EligibilityTypeOK
<1>3. CASE Watched /\ UNCHANGED eval
  <2>1. CASE Running
    BY <1>3, <2>1, WriteTells DEF ReadSoFar, Watched
  <2>2. CASE ~ Running
    BY <1>3, <2>2 DEF Running, ReadSoFar, After
  <2> QED
    BY <2>1, <2>2
<1>4. CASE Tick \/ UNCHANGED eligibilityVars
  BY <1>4 DEF Tick, eligibilityVars, stores, ReadSoFar
<1> QED
  BY <1>1, <1>2, <1>3, <1>4 DEF EligibilityNext, SetAccount, RegisterDevice, RevokeDevice,
     Record, Upsert, Written

\* The inductive invariant of the stores and the evaluation.
THEOREM EligibilityInvariant == EligibilitySpec => []EvalInv
<1>1. EvalInv /\ [EligibilityNext]_eligibilityVars => EvalInv'
  BY TypeStep, StoredStep, ReadSoFarStep DEF EvalInv
<1> QED
  BY <1>1, InvInit, PTL DEF EligibilitySpec

\* The stores and the evaluation keep their types.
THEOREM EligibilityTypeCorrect == EligibilitySpec => []EligibilityTypeOK
<1>1. EvalInv => EligibilityTypeOK
  BY DEF EvalInv
<1> QED
  BY <1>1, EligibilityInvariant, PTL

-----------------------------------------------------------------------------
(* Answers.                                                                *)

\* What is true of the target, condition by condition.
LEMMA StandingValues ==
  ASSUME EvalInv
  PROVE  LET s == Standing(eval.alert, eval.now)
         IN  /\ DOMAIN s = Conditions
             /\ s["account"] <=> account = "active"
             /\ s["device"] <=> device = "own"
             /\ s["consent"] <=> Consented(consents)
             /\ s["enabled"] <=> prefs.enabled
             /\ s["channel"] <=> eval.alert.channel \in prefs.channels
             /\ s["list"] <=>
                  /\ \/ eval.alert.detector # "tone"
                     \/ eval.alert.list \in prefs.tones
                  /\ \/ eval.alert.detector # "keyword"
                     \/ eval.alert.list \in prefs.keywords
             /\ s["confidence"] <=> Confident(prefs, eval.alert)
             /\ s["awake"] <=> ~ QuietAt(prefs, eval.now)
<1>1. prefs \in PreferenceRow /\ eval.alert \in AlertRow /\ eval.now \in Int
  <2>1. Times \subseteq Int /\ Alerts \subseteq AlertRow
    BY EligibilityAssumption
  <2> QED
    BY <2>1 DEF EvalInv, StoredSound, EligibilityTypeOK
<1>2. InWindow(prefs, eval.now) <=> QuietAt(prefs, eval.now)
  BY <1>1, InWindowIsQuiet DEF EvalInv, StoredSound
<1>3. prefs.minConfidence <= eval.alert.confidence <=> Confident(prefs, eval.alert)
  BY <1>1 DEF EvalInv, StoredSound, Confident, NoTime, AlertRow
<1>4. eval.alert.detector \in {"tone", "keyword"}
  BY <1>1 DEF AlertRow
<1> DEFINE s == Standing(eval.alert, eval.now)
<1>5. /\ DOMAIN s = Conditions
      /\ s["account"] = (account = "active") /\ s["device"] = (device = "own")
      /\ s["consent"] = Consented(consents) /\ s["enabled"] = prefs.enabled
      /\ s["channel"] = (eval.alert.channel \in prefs.channels)
  BY DEF Standing, Conditions
<1>6. /\ s["list"] = (eval.alert.list \in IF eval.alert.detector = "tone"
                                          THEN prefs.tones ELSE prefs.keywords)
      /\ s["confidence"] = (prefs.minConfidence <= eval.alert.confidence)
      /\ s["awake"] = ~ InWindow(prefs, eval.now)
  BY DEF Standing
<1> HIDE DEF s
<1>7. s["list"] <=> /\ \/ eval.alert.detector # "tone"
                       \/ eval.alert.list \in prefs.tones
                    /\ \/ eval.alert.detector # "keyword"
                       \/ eval.alert.list \in prefs.keywords
  BY <1>4, <1>6
<1>8. (s["confidence"] <=> Confident(prefs, eval.alert)) /\ (s["awake"] <=> ~ QuietAt(prefs, eval.now))
  BY <1>2, <1>3, <1>6
<1> QED
  BY <1>5, <1>7, <1>8 DEF s

\* What the row is judged to be is so; and it can be judged.
LEMMA JudgedIsTrue ==
  ASSUME EvalInv
  PROVE  LET s == Standing(eval.alert, eval.now)
             j == Judged(prefs, eval.alert, eval.now)
         IN  /\ j # "unavailable"
             /\ j = "eligible" =>
                  s["enabled"] /\ s["channel"] /\ s["list"] /\ s["confidence"] /\ s["awake"]
             /\ j = "notifications_disabled" => ~ s["enabled"]
             /\ j = "channel_not_selected" => s["enabled"] /\ ~ s["channel"]
             /\ j \in {"tone_set_not_selected", "keyword_list_not_selected"} =>
                  s["enabled"] /\ s["channel"] /\ ~ s["list"]
             /\ j = "below_min_confidence" =>
                  s["enabled"] /\ s["channel"] /\ s["list"] /\ ~ s["confidence"]
             /\ j = "quiet_hours" =>
                  s["enabled"] /\ s["channel"] /\ s["list"] /\ s["confidence"] /\ ~ s["awake"]
             /\ j \notin {"account_not_active", "device_not_active", "consent_not_granted"}
<1>1. ~ Malformed(prefs)
  BY DEF EvalInv, StoredSound, Malformed
<1>2. eval.alert.detector \in {"tone", "keyword"}
  BY EligibilityAssumption DEF EvalInv, EligibilityTypeOK, AlertRow
<1> QED
  BY <1>1, <1>2, JudgedReasons, StandingValues

\* The order of the conditions and what each refusal denies, name by name.
LEMMA Order ==
  /\ DOMAIN Priority = 1 .. 8
  /\ Priority[1] = "account" /\ Priority[2] = "device" /\ Priority[3] = "consent"
  /\ Priority[4] = "enabled" /\ Priority[5] = "channel" /\ Priority[6] = "list"
  /\ Priority[7] = "confidence" /\ Priority[8] = "awake"
  /\ DOMAIN Denied =
       {"account_not_active", "device_not_active", "consent_not_granted",
        "notifications_disabled", "channel_not_selected", "tone_set_not_selected",
        "keyword_list_not_selected", "below_min_confidence", "quiet_hours"}
  /\ Denied["account_not_active"] = "account" /\ Denied["device_not_active"] = "device"
  /\ Denied["consent_not_granted"] = "consent" /\ Denied["notifications_disabled"] = "enabled"
  /\ Denied["channel_not_selected"] = "channel" /\ Denied["tone_set_not_selected"] = "list"
  /\ Denied["keyword_list_not_selected"] = "list"
  /\ Denied["below_min_confidence"] = "confidence" /\ Denied["quiet_hours"] = "awake"
BY DEF Priority, Denied

\* A refusal about the n-th condition is justified by the first n conditions.
LEMMA RefusedAt ==
  ASSUME NEW s, NEW n \in 1 .. 8, NEW reason \in DOMAIN Denied, NEW kept \in BOOLEAN,
         Denied[reason] = Priority[n], ~ s[Priority[n]],
         kept => \A k \in 1 .. n - 1 : s[Priority[k]]
  PROVE  \A i \in DOMAIN Priority : Priority[i] = Denied[reason] =>
           /\ ~ s[Priority[i]]
           /\ kept => \A k \in 1 .. i - 1 : s[Priority[k]]
<1>1. \A i \in DOMAIN Priority : Priority[i] = Priority[n] => i = n
  BY Order
<1> QED
  BY <1>1

\* "is this combination currently eligible ... right now?" of four reads with
\* any writes between them: a refusal is true when it is returned, and unless a
\* condition was withdrawn meanwhile an "eligible" is, and whatever comes before
\* a refusal's reason holds.
THEOREM DecisionsAreTrue == EligibilitySpec => DecisionsAreTimely
<1> DEFINE standing == Standing(eval.alert, eval.now)
           kept     == ~ withdrawn
           reason   == eval'.reason
           Answered ==
             /\ eval.step = "preferences" =>
                  Judged(prefs, eval.alert, eval.now) # "unavailable"
             /\ (reason = "eligible" /\ kept) => \A f \in DOMAIN standing : standing[f]
             /\ reason \in DOMAIN Denied =>
                  \A i \in DOMAIN Priority : Priority[i] = Denied[reason] =>
                    /\ ~ standing[Priority[i]]
                    /\ kept => \A k \in 1 .. i - 1 : standing[Priority[k]]
<1>1. ASSUME EvalInv, [EligibilityNext]_eligibilityVars, Running, ~ Running'
      PROVE  Answered
  <2> USE DEF kept
  <2>1. /\ standing["account"] <=> account = "active"
        /\ standing["device"] <=> device = "own"
        /\ standing["consent"] <=> Consented(consents)
        /\ DOMAIN standing = Conditions
    BY <1>1, StandingValues
  <2>2. kept => /\ eval.step \in After("account") => account = "active"
                /\ eval.step \in After("device") => device = "own"
                /\ eval.step \in After("consent") => Consented(consents)
    BY <1>1 DEF EvalInv, ReadSoFar
  <2>3. eval.step = "preferences" => Judged(prefs, eval.alert, eval.now) # "unavailable"
    BY <1>1, JudgedIsTrue
  <2>4. \/ ReadAccount \/ ReadDevice \/ ReadConsent \/ ReadPreferences \/ ReadFails
    BY <1>1 DEF EligibilityNext, Running, Begin, SetAccount, RegisterDevice, RevokeDevice,
       Record, Upsert, Written, Tick, eligibilityVars
  <2> HIDE DEF standing
  <2>5. CASE ReadFails
    <3>1. reason = "unavailable"
      BY <1>1, <2>5 DEF ReadFails, Read, EvalInv, EligibilityTypeOK
    <3> QED
      BY <2>3, <3>1, Order
  <2>6. CASE ReadAccount
    <3>1. reason = "account_not_active" /\ account # "active" /\ eval.step = "account"
      BY <1>1, <2>6 DEF ReadAccount, Read, EvalInv, EligibilityTypeOK, Running
    <3>2. /\ 1 \in 1 .. 8 /\ kept \in BOOLEAN /\ reason \in DOMAIN Denied
          /\ Denied[reason] = Priority[1] /\ ~ standing[Priority[1]]
          /\ \A k \in 1 .. 1 - 1 : standing[Priority[k]]
      BY <2>1, <3>1, Order
    <3>3. reason # "eligible" /\ eval.step # "preferences"
      BY <3>1
    <3> HIDE DEF reason, kept
    <3> QED
      BY <3>2, <3>3, RefusedAt
  <2>7. CASE ReadDevice
    <3>1. reason = "device_not_active" /\ device # "own" /\ eval.step = "device"
      BY <1>1, <2>7 DEF ReadDevice, Read, EvalInv, EligibilityTypeOK, Running
    <3>2. kept => standing[Priority[1]]
      BY <2>1, <2>2, <3>1, Order DEF After
    <3>3. \A k \in 1 .. 2 - 1 : k = 1
      OBVIOUS
    <3>4. /\ 2 \in 1 .. 8 /\ kept \in BOOLEAN /\ reason \in DOMAIN Denied
          /\ Denied[reason] = Priority[2] /\ ~ standing[Priority[2]]
          /\ kept => \A k \in 1 .. 2 - 1 : standing[Priority[k]]
      BY <2>1, <3>1, <3>2, <3>3, Order
    <3>5. reason # "eligible" /\ eval.step # "preferences"
      BY <3>1
    <3> HIDE DEF reason, kept
    <3> QED
      BY <3>4, <3>5, RefusedAt
  <2>8. CASE ReadConsent
    <3>1. reason = "consent_not_granted" /\ ~ Consented(consents) /\ eval.step = "consent"
      BY <1>1, <2>8 DEF ReadConsent, Read, EvalInv, EligibilityTypeOK, Running
    <3>2. kept => standing[Priority[1]] /\ standing[Priority[2]]
      BY <2>1, <2>2, <3>1, Order DEF After
    <3>3. kept => \A k \in 1 .. 3 - 1 : standing[Priority[k]]
      <4>1. \A k \in 1 .. 3 - 1 : k = 1 \/ k = 2
        OBVIOUS
      <4> QED
        BY <3>2, <4>1
    <3>4. /\ 3 \in 1 .. 8 /\ kept \in BOOLEAN /\ reason \in DOMAIN Denied
          /\ Denied[reason] = Priority[3] /\ ~ standing[Priority[3]]
      BY <2>1, <3>1, Order
    <3>5. reason # "eligible" /\ eval.step # "preferences"
      BY <3>1
    <3> HIDE DEF reason, kept
    <3> QED
      BY <3>3, <3>4, <3>5, RefusedAt
  <2>9. CASE ReadPreferences
    <3>1. reason = Judged(prefs, eval.alert, eval.now) /\ eval.step = "preferences"
      BY <1>1, <2>9 DEF ReadPreferences, Read, EvalInv, EligibilityTypeOK
    <3>2. kept => standing["account"] /\ standing["device"] /\ standing["consent"]
      BY <2>1, <2>2, <3>1 DEF After
    <3>3. /\ reason # "unavailable"
          /\ reason = "eligible" =>
               /\ standing["enabled"] /\ standing["channel"] /\ standing["list"]
               /\ standing["confidence"] /\ standing["awake"]
          /\ reason = "notifications_disabled" => ~ standing["enabled"]
          /\ reason = "channel_not_selected" => standing["enabled"] /\ ~ standing["channel"]
          /\ reason \in {"tone_set_not_selected", "keyword_list_not_selected"} =>
               standing["enabled"] /\ standing["channel"] /\ ~ standing["list"]
          /\ reason = "below_min_confidence" =>
               /\ standing["enabled"] /\ standing["channel"] /\ standing["list"]
               /\ ~ standing["confidence"]
          /\ reason = "quiet_hours" =>
               /\ standing["enabled"] /\ standing["channel"] /\ standing["list"]
               /\ standing["confidence"] /\ ~ standing["awake"]
          /\ reason \notin {"account_not_active", "device_not_active", "consent_not_granted"}
      BY <1>1, <3>1, JudgedIsTrue DEF standing
    <3> HIDE DEF reason
    <3>4. (reason = "eligible" /\ kept) => \A f \in DOMAIN standing : standing[f]
      BY <2>1, <3>2, <3>3 DEF Conditions
    <3>5. ASSUME reason \in DOMAIN Denied
          PROVE  \E n \in 4 .. 8 : /\ Denied[reason] = Priority[n] /\ ~ standing[Priority[n]]
                                   /\ n > 4 => standing["enabled"]
                                   /\ n > 5 => standing["channel"]
                                   /\ n > 6 => standing["list"]
                                   /\ n > 7 => standing["confidence"]
      <4>1. CASE reason = "notifications_disabled"
        BY <3>3, <4>1, Order
      <4>2. CASE reason = "channel_not_selected"
        BY <3>3, <4>2, Order
      <4>3. CASE reason \in {"tone_set_not_selected", "keyword_list_not_selected"}
        BY <3>3, <4>3, Order
      <4>4. CASE reason = "below_min_confidence"
        BY <3>3, <4>4, Order
      <4>5. CASE reason = "quiet_hours"
        BY <3>3, <4>5, Order
      <4> QED
        BY <3>3, <3>5, <4>1, <4>2, <4>3, <4>4, <4>5, Order
    <3>6. ASSUME reason \in DOMAIN Denied
          PROVE  \A i \in DOMAIN Priority : Priority[i] = Denied[reason] =>
                   /\ ~ standing[Priority[i]]
                   /\ kept => \A k \in 1 .. i - 1 : standing[Priority[k]]
      <4>1. PICK n \in 4 .. 8 : /\ Denied[reason] = Priority[n] /\ ~ standing[Priority[n]]
                                /\ n > 4 => standing["enabled"]
                                /\ n > 5 => standing["channel"]
                                /\ n > 6 => standing["list"]
                                /\ n > 7 => standing["confidence"]
        BY <3>5, <3>6
      <4>2. ASSUME kept, NEW k \in 1 .. n - 1  PROVE standing[Priority[k]]
        <5>1. k \in 1 .. 7 /\ n > k
          OBVIOUS
        <5> QED
          BY <3>2, <4>1, <4>2, <5>1, Order
      <4>3. n \in 1 .. 8 /\ kept \in BOOLEAN
        OBVIOUS
      <4> HIDE DEF kept
      <4> QED
        BY <3>6, <4>1, <4>2, <4>3, RefusedAt
    <3> QED
      BY <2>3, <3>4, <3>6
  <2> QED
    BY <2>4, <2>5, <2>6, <2>7, <2>8, <2>9
<1>2. EvalInv /\ [EligibilityNext]_eligibilityVars =>
        [(Running /\ ~ Running') => Answered]_eligibilityVars
  BY <1>1
<1> QED
  BY <1>2, EligibilityInvariant, PTL DEF EligibilitySpec, DecisionsAreTimely

-----------------------------------------------------------------------------
(* Consent.                                                                *)

\* An entry of a sequence.
LEMMA Entries ==
  ASSUME NEW S, NEW s \in Seq(S), NEW i \in DOMAIN s
  PROVE  s[i] \in S
OBVIOUS

\* A log with one more event: the latest is as it was if some event is dated
\* after the new one, and else the new one.
LEMMA LatestOfLonger ==
  ASSUME NEW log, NEW longer, NEW n \in Nat \ {0},
         DOMAIN log = 1 .. n - 1, DOMAIN longer = 1 .. n,
         \A i \in 1 .. n - 1 : longer[i] = log[i],
         \A i \in 1 .. n : longer[i].at \in Nat
  PROVE  Latest(longer) = IF \E i \in 1 .. n - 1 : log[i].at > longer[n].at
                          THEN Latest(log) ELSE {n}
<1> DEFINE d(i) == longer[i].at
<1>1. /\ \A i : i \in Latest(longer) <=>
             /\ i \in 1 .. n
             /\ \A j \in 1 .. n : d(j) < d(i) \/ (d(j) = d(i) /\ j <= i)
      /\ \A i : i \in Latest(log) <=>
             /\ i \in 1 .. n - 1
             /\ \A j \in 1 .. n - 1 : log[j].at < log[i].at \/ (log[j].at = log[i].at /\ j <= i)
  BY DEF Latest
<1>2. (\A i \in 1 .. n : d(i) \in Nat) /\ (\A i \in 1 .. n - 1 : log[i].at = d(i))
  OBVIOUS
<1>3. \A i : i \in Latest(log) <=>
             /\ i \in 1 .. n - 1
             /\ \A j \in 1 .. n - 1 : d(j) < d(i) \/ (d(j) = d(i) /\ j <= i)
  BY <1>1, <1>2
<1>4. (\E i \in 1 .. n - 1 : log[i].at > longer[n].at) <=> \E i \in 1 .. n - 1 : d(i) > d(n)
  BY <1>2
<1> HIDE DEF d
<1>5. ASSUME NEW late \in 1 .. n - 1, d(late) > d(n)  PROVE Latest(longer) = Latest(log)
  <2>1. n \notin Latest(longer)
    BY <1>1, <1>2, <1>5
  <2>2. ASSUME NEW i \in Latest(log)  PROVE d(n) < d(i)
    <3>1. i \in 1 .. n - 1 /\ (d(late) < d(i) \/ d(late) = d(i))
      BY <1>3, <1>5, <2>2
    <3>2. d(late) \in Nat /\ d(i) \in Nat /\ d(n) \in Nat
      BY <1>2, <1>5, <3>1
    <3> QED
      BY <1>5, <3>1, <3>2
  <2>3. ASSUME NEW i \in 1 .. n - 1  PROVE i \in Latest(longer) <=> i \in Latest(log)
    <3>1. i \in 1 .. n /\ \A j \in 1 .. n : j = n \/ j \in 1 .. n - 1
      OBVIOUS
    <3>2. i \in Latest(longer) => i \in Latest(log)
      BY <1>1, <1>3
    <3>3. i \in Latest(log) => i \in Latest(longer)
      BY <1>1, <1>3, <2>2, <3>1
    <3> QED
      BY <3>2, <3>3
  <2>4. \A i \in 1 .. n : i = n \/ i \in 1 .. n - 1
    OBVIOUS
  <2>5. \A i : i \in Latest(longer) <=> i \in Latest(log)
    BY <1>1, <1>3, <2>1, <2>3, <2>4
  <2> QED
    BY <2>5 DEF Latest
<1>6. ASSUME ~ \E i \in 1 .. n - 1 : d(i) > d(n)  PROVE Latest(longer) = {n}
  <2>1. n \in Latest(longer)
    BY <1>1, <1>2, <1>6
  <2>2. ASSUME NEW i \in Latest(longer)  PROVE i = n
    BY <1>1, <1>2, <1>6, <2>2
  <2> QED
    BY <2>1, <2>2
<1> QED
  BY <1>4, <1>5, <1>6

\* What such an event does to the consent.
LEMMA ConsentOfLonger ==
  ASSUME NEW Event, \A e \in Event : e.at \in Nat, NEW log \in Seq(Event), NEW new \in Event
  PROVE  IF \E i \in DOMAIN log : log[i].at > new.at
         THEN Consented(Append(log, new)) = Consented(log)
         ELSE Consented(Append(log, new)) = (new.event = "granted")
<1> DEFINE n == Len(log) + 1
           longer == Append(log, new)
<1>1. /\ n \in Nat \ {0} /\ DOMAIN log = 1 .. n - 1 /\ DOMAIN longer = 1 .. n
      /\ longer[n] = new /\ \A i \in 1 .. n - 1 : longer[i] = log[i]
      /\ longer \in Seq(Event)
  OBVIOUS
<1> HIDE DEF n, longer
<1>2. \A i \in 1 .. n : longer[i].at \in Nat
  BY <1>1, Entries
<1>3. Latest(longer) = IF \E i \in 1 .. n - 1 : log[i].at > longer[n].at THEN Latest(log) ELSE {n}
  BY <1>1, <1>2, LatestOfLonger
<1>4. CASE \E i \in DOMAIN log : log[i].at > new.at
  <2>1. Latest(longer) = Latest(log) /\ \A i \in Latest(log) : longer[i] = log[i]
    BY <1>1, <1>3, <1>4 DEF Latest
  <2> QED
    BY <1>4, <2>1 DEF Consented, longer
<1>5. CASE ~ \E i \in DOMAIN log : log[i].at > new.at
  <2>1. Latest(longer) = {n}
    BY <1>1, <1>3, <1>5
  <2>2. Consented(longer) = (new.event = "granted")
    BY <1>1, <2>1 DEF Consented
  <2> QED
    BY <1>5, <2>2 DEF longer
<1> QED
  BY <1>4, <1>5

\* "only ever superseded by a later one with a newer CreatedAt", whatever the
\* order in which the events are recorded.
THEOREM ConsentIsByDate == EligibilitySpec => ConsentFollowsDates
<1> DEFINE Follows ==
      consents' # consents =>
        LET new == consents'[Len(consents')] IN
        IF \E i \in DOMAIN consents : consents[i].at > new.at
          THEN Consented(consents') = Consented(consents)
          ELSE Consented(consents') = (new.event = "granted")
<1>1. ASSUME EvalInv, [EligibilityNext]_eligibilityVars  PROVE Follows
  <2>1. SUFFICES ASSUME NEW event \in {"granted", "revoked"}, NEW at \in Times,
                        Record(event, at)
                 PROVE  Follows
    <3>1. \/ UNCHANGED consents
          \/ \E event \in {"granted", "revoked"}, at \in Times : Record(event, at)
      BY <1>1 DEF EligibilityNext, Begin, ReadAccount, ReadDevice, ReadConsent,
         ReadPreferences, ReadFails, Read, SetAccount, RegisterDevice, RevokeDevice, Upsert,
         Tick, Written, stores, eligibilityVars
    <3> QED
      BY <3>1
  <2> DEFINE Event == [event : {"granted", "revoked"}, at : Times]
             new   == [event |-> event, at |-> at]
  <2>2. consents \in Seq(Event) /\ new \in Event
    BY <1>1 DEF EvalInv, EligibilityTypeOK
  <2>3. \A e \in Event : e.at \in Nat
    BY EligibilityAssumption
  <2>4. consents' = Append(consents, new)
    BY <2>1 DEF Record, Written
  <2> HIDE DEF Event, new
  <2>5. consents'[Len(consents')] = new
    BY <2>2, <2>4
  <2> QED
    BY <2>2, <2>3, <2>4, <2>5, ConsentOfLonger
<1> QED
  BY <1>1, EligibilityInvariant, PTL DEF EligibilitySpec, ConsentFollowsDates
=============================================================================
