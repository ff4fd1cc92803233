-------------------------- MODULE NotifyEligibility --------------------------
(***************************************************************************)
(* Whether one user may be sent one alert on one device:                   *)
(* notifypreferences.Evaluator.Evaluate, and the stores it reads -- the    *)
(* account, the device, the append-only log of consent events and the row  *)
(* of preferences.                                                         *)
(*                                                                         *)
(* Evaluate makes four reads, each a statement of its own, in a fixed      *)
(* order and returns at the first condition that fails.  The stores are    *)
(* written meanwhile: a decision is about no single instant.  Every write  *)
(* takes the time from its caller, so consent events may be recorded in    *)
(* another order than they are dated.                                      *)
(***************************************************************************)
EXTENDS Integers, Sequences

CONSTANTS
  Names,        \* channels, tone sets and keyword lists
  Candidates,   \* preference rows a client may put
  Alerts,       \* what of an alert the evaluation looks at
  Day,          \* length of a day on the clock, which starts at midnight
  Microsecond,  \* what a column of type time keeps of a time of day
  Times,        \* bound on the clock: the instants at which something happens
  MaxConsents   \* bound on the length of the consent log

NoTime == -1   \* NULL, of a time or of a confidence

\* Quiet hours run from "from" to "to", times of day, in a zone that is given
\* and loads ("iana"), is not given ("none") or is the server's ("Local").
PreferenceRow ==
  [enabled : BOOLEAN, channels : SUBSET Names, tones : SUBSET Names,
   keywords : SUBSET Names, minConfidence : Int, from : Int, to : Int,
   zone : {"iana", "none", "Local"}]

\* What of an alert is looked at; not every detector scores.
AlertRow ==
  [channel : Names, detector : {"tone", "keyword"}, list : Names,
   confidence : {NoTime} \cup Nat]

ASSUME EligibilityAssumption ==
  /\ Candidates \subseteq PreferenceRow
  /\ Alerts \subseteq AlertRow /\ Alerts # {}
  /\ Day \in Nat \ {0}
  /\ Microsecond \in Nat \ {0}
  /\ Times \subseteq Nat /\ 0 \in Times
  /\ MaxConsents \in Nat

VARIABLES
  clock,
  account,   \* the user's account: missing, able to authenticate, or not
  device,    \* the device: unknown, the user's, another user's, or revoked
  consents,  \* the notification_consents rows of the device, by id
  prefs,     \* the user's alert_preferences row, or NoRow
  eval,      \* the evaluation in progress, or the decision of the last one
  withdrawn  \* since the evaluation began some condition has become false

stores == <<account, device, consents, prefs>>
eligibilityVars == <<clock, stores, eval, withdrawn>>

\* Without a row Get returns the zero value, which is the columns' defaults.
NoRow ==
  [enabled |-> FALSE, channels |-> {}, tones |-> {}, keywords |-> {},
   minConfidence |-> NoTime, from |-> NoTime, to |-> NoTime, zone |-> "none"]

-----------------------------------------------------------------------------
(* Preferences.Validate.                                                   *)

ValidOffset(t) == t \in 0 .. Day - 1

\* Both ends or none, within the day, in a zone that is given and loads.
ValidQuietHours(row) ==
  /\ row.from = NoTime <=> row.to = NoTime
  /\ row.from # NoTime =>
       ValidOffset(row.from) /\ ValidOffset(row.to) /\ row.zone # "none"
  /\ row.zone \in {"none", "iana"}

ValidRow(row) == ValidQuietHours(row) /\ row.minConfidence \in {NoTime} \cup 0 .. 100

-----------------------------------------------------------------------------
(* notifyconsentstore.                                                     *)

\* Faulty variant: ORDER BY id DESC.
Latest_ById(log) == {Len(log)} \cap DOMAIN log

\* ORDER BY created_at DESC, id DESC LIMIT 1.
Latest(log) ==
  {i \in DOMAIN log : \A j \in DOMAIN log :
     log[j].at < log[i].at \/ (log[j].at = log[i].at /\ j <= i)}

\* Current: no history is no consent.
Consented(log) == \E i \in Latest(log) : log[i].event = "granted"

-----------------------------------------------------------------------------
(* currentlyQuietHours.                                                    *)

\* start or end without the other, or a window without a zone that loads.
Malformed(row) ==
  \/ (row.from = NoTime) # (row.to = NoTime)
  \/ row.from # NoTime /\ row.zone # "iana"

\* Faulty variant: an overnight window is read as one that ends at midnight.
QuietAt_NoWrap(row, t) ==
  /\ row.from # NoTime /\ row.from # row.to
  /\ t % Day >= row.from
  /\ row.from < row.to => t % Day < row.to

\* An empty window is never quiet; one that ends before it starts spans midnight.
QuietAt(row, t) ==
  LET ofDay == t % Day IN
  /\ row.from # NoTime /\ row.from # row.to
  /\ IF row.from < row.to
       THEN row.from <= ofDay /\ ofDay < row.to
       ELSE row.from <= ofDay \/ ofDay < row.to

-----------------------------------------------------------------------------
(* The checks on the preference row.                                       *)

\* No threshold, or a confidence that is known and reaches it.
Confident(row, alert) ==
  \/ row.minConfidence = NoTime
  \/ alert.confidence # NoTime /\ alert.confidence >= row.minConfidence

\* An empty list of channels, tone sets or keyword lists selects nothing.
Checks(row, alert, t) ==
  << [passes |-> row.enabled, reason |-> "notifications_disabled"],
     [passes |-> alert.channel \in row.channels, reason |-> "channel_not_selected"],
     [passes |-> alert.detector # "tone" \/ alert.list \in row.tones,
      reason |-> "tone_set_not_selected"],
     [passes |-> alert.detector # "keyword" \/ alert.list \in row.keywords,
      reason |-> "keyword_list_not_selected"],
     [passes |-> Confident(row, alert), reason |-> "below_min_confidence"],
     [passes |-> ~ Malformed(row), reason |-> "unavailable"],
     [passes |-> ~ QuietAt(row, t), reason |-> "quiet_hours"] >>

\* The first check that fails gives the reason.
Judged(row, alert, t) ==
  LET checks == Checks(row, alert, t)
      failed == {i \in DOMAIN checks : ~ checks[i].passes}
  IN  IF failed = {} THEN "eligible"
      ELSE checks[CHOOSE i \in failed : \A j \in failed : i <= j].reason

-----------------------------------------------------------------------------
(* Evaluate.                                                               *)

NoEval == [step |-> "decided", reason |-> "unavailable", now |-> 0,
           alert |-> CHOOSE a \in Alerts : TRUE]

Running == eval.step # "decided"

\* now is the caller's reading of the clock, taken some time before.
Begin(alert, now) ==
  /\ ~ Running
  /\ now <= clock
  /\ eval' = [step |-> "account", reason |-> "eligible", now |-> now, alert |-> alert]
  /\ withdrawn' = FALSE
  /\ UNCHANGED <<clock, stores>>

\* One read: go on to the next, or return.
Read(step, passes, next, reason) ==
  /\ eval.step = step
  /\ eval' = IF passes THEN [eval EXCEPT !.step = next]
             ELSE [eval EXCEPT !.step = "decided", !.reason = reason]
  /\ UNCHANGED <<clock, stores, withdrawn>>

ReadAccount == Read("account", account = "active", "device", "account_not_active")

ReadDevice == Read("device", device = "own", "consent", "device_not_active")

ReadConsent == Read("consent", Consented(consents), "preferences", "consent_not_granted")

\* All the rest is decided on one row.
ReadPreferences ==
  Read("preferences", FALSE, "decided", Judged(prefs, eval.alert, eval.now))

\* Any read fails: eligibility could not be determined.
ReadFails == Running /\ Read(eval.step, FALSE, "decided", "unavailable")

-----------------------------------------------------------------------------
(* What is true of the target at one instant.                              *)

\* The window walked through from its start.
InWindow(row, t) ==
  /\ row.from # NoTime
  /\ \E k \in 0 .. Day - 1 :
       k < (row.to - row.from) % Day /\ (row.from + k) % Day = t % Day

\* The conditions of an eligible target, each read off the stores.
Standing(alert, t) ==
  [account    |-> account = "active",
   device     |-> device = "own",
   consent    |-> Consented(consents),
   enabled    |-> prefs.enabled,
   channel    |-> alert.channel \in prefs.channels,
   list       |-> alert.list \in IF alert.detector = "tone" THEN prefs.tones ELSE prefs.keywords,
   confidence |-> prefs.minConfidence <= alert.confidence,
   awake      |-> ~ InWindow(prefs, t)]

\* What each refusal says is not the case.
Denied ==
  [account_not_active |-> "account", device_not_active |-> "device",
   consent_not_granted |-> "consent", notifications_disabled |-> "enabled",
   channel_not_selected |-> "channel", tone_set_not_selected |-> "list",
   keyword_list_not_selected |-> "list", below_min_confidence |-> "confidence",
   quiet_hours |-> "awake"]

-----------------------------------------------------------------------------
(* Writers.                                                                *)

\* What a write did to the conditions of the evaluation in progress.
Watched ==
  LET before == Standing(eval.alert, eval.now)
      after  == Standing(eval.alert, eval.now)'
  IN  withdrawn' = (withdrawn \/ (Running /\ \E f \in DOMAIN before : before[f] /\ ~ after[f]))

Written(write) == write /\ UNCHANGED <<clock, eval>> /\ Watched

\* The account is created, activated, suspended, restored.
SetAccount ==
  Written(/\ \E status \in {"active", "barred"} : account # status /\ account' = status
          /\ UNCHANGED <<device, consents, prefs>>)

\* A row of notification_devices keeps its user; a revoked one stays revoked.
RegisterDevice ==
  Written(/\ device = "unknown"
          /\ \/ account # "missing" /\ device' = "own"
             \/ device' = "foreign"
          /\ UNCHANGED <<account, consents, prefs>>)

RevokeDevice ==
  Written(/\ device = "own"
          /\ device' = "revoked"
          /\ UNCHANGED <<account, consents, prefs>>)

\* notifyconsentstore.Record: the foreign key asks for a row that is the
\* user's, active or not; the event carries the caller's reading of the clock.
Record(event, at) ==
  Written(/\ Len(consents) < MaxConsents
          /\ device \in {"own", "revoked"}
          /\ at <= clock
          /\ consents' = Append(consents, [event |-> event, at |-> at])
          /\ UNCHANGED <<account, device, prefs>>)

\* toPgTime: the column keeps whole microseconds, and drops the rest.
ToPgTime(t) == IF t = NoTime THEN NoTime ELSE t - (t % Microsecond)

Stored(row) == [row EXCEPT !.from = ToPgTime(row.from), !.to = ToPgTime(row.to)]

\* notifyprefsstore.Upsert replaces every field; users (id) must have the user.
Upsert(row) ==
  Written(/\ ValidRow(row)
          /\ account # "missing"
          /\ prefs' = Stored(row)
          /\ UNCHANGED <<account, device, consents>>)

Tick ==
  /\ \E t \in Times : t > clock /\ clock' = t
  /\ UNCHANGED <<stores, eval, withdrawn>>

-----------------------------------------------------------------------------

EligibilityInit ==
  /\ clock = 0
  /\ account = "missing" /\ device = "unknown"
  /\ consents = <<>> /\ prefs = NoRow
  /\ eval = NoEval
  /\ withdrawn = FALSE

EligibilityNext ==
  \/ \E alert \in Alerts, now \in Times : Begin(alert, now)
  \/ ReadAccount \/ ReadDevice \/ ReadConsent \/ ReadPreferences \/ ReadFails
  \/ SetAccount \/ RegisterDevice \/ RevokeDevice
  \/ \E event \in {"granted", "revoked"}, at \in Times : Record(event, at)
  \/ \E row \in Candidates : Upsert(row)
  \/ Tick

EligibilitySpec == EligibilityInit /\ [][EligibilityNext]_eligibilityVars

-----------------------------------------------------------------------------
(* Properties.                                                             *)

\* Every answer Evaluate gives.
Verdicts == {"eligible", "unavailable"} \cup DOMAIN Denied

\* The stores and the evaluation keep their types.
EligibilityTypeOK ==
  /\ clock \in Times
  /\ account \in {"missing", "active", "barred"}
  /\ device \in {"unknown", "own", "foreign", "revoked"}
  /\ consents \in Seq([event : {"granted", "revoked"}, at : Times])
  /\ prefs \in {Stored(row) : row \in Candidates} \cup {NoRow}
  /\ eval \in [step : {"account", "device", "consent", "preferences", "decided"},
               reason : Verdicts, now : Times, alert : Alerts]
  /\ withdrawn \in BOOLEAN

Priority ==
  <<"account", "device", "consent", "enabled", "channel", "list", "confidence", "awake">>

\* "is this combination currently eligible ... right now?" of four reads at
\* four instants: a refusal is true when it is returned; unless a condition was
\* withdrawn while it ran, so is everything an "eligible" stands for, and
\* everything of higher priority than the reason of a refusal.  And what
\* Validate lets in can be decided: no row that somebody has put leaves the
\* evaluation at "unavailable" whenever it is read.
DecisionsAreTimely ==
  [][(Running /\ ~ Running') =>
       LET standing == Standing(eval.alert, eval.now)
           reason   == eval'.reason
       IN  /\ eval.step = "preferences" =>
                Judged(prefs, eval.alert, eval.now) # "unavailable"
           /\ (reason = "eligible" /\ ~ withdrawn) => \A f \in DOMAIN standing : standing[f]
           /\ reason \in DOMAIN Denied =>
                \A i \in DOMAIN Priority : Priority[i] = Denied[reason] =>
                  /\ ~ standing[Priority[i]]
                  /\ ~ withdrawn => \A k \in 1 .. i - 1 : standing[Priority[k]]
     ]_eligibilityVars

\* "only ever superseded by a later one with a newer CreatedAt": an event dated
\* before the latest one changes nothing, whenever it arrives; any other decides.
ConsentFollowsDates ==
  [][consents' # consents =>
       LET new == consents'[Len(consents')] IN
       IF \E i \in DOMAIN consents : consents[i].at > new.at
         THEN Consented(consents') = Consented(consents)
         ELSE Consented(consents') = (new.event = "granted")]_eligibilityVars

=============================================================================
