# A verification of the dispatch-alert backend

This directory models the Go backend and its PostgreSQL schema in TLA+, checks
the models with TLC on small instances, and proves theorems about them with
TLAPS for every value of their constants. `PROJECT.json` lists the components,
the runs, the theorems, the hazards with the properties that guard them, and
for every definition the lines of source it models.

1. [The system](#1-the-system)
2. [The modules and the code](#2-the-modules-and-the-code)
3. [The runs](#3-the-runs)
4. [Bounds](#4-bounds)
5. [Fairness](#5-fairness)
6. [Proofs](#6-proofs)
7. [Where the code and its documentation part](#7-where-the-code-and-its-documentation-part)
8. [What is not modelled](#8-what-is-not-modelled)
9. [What could come next](#9-what-could-come-next)

## 1. The system

Radio recordings appear as files in a directory. The backend stores each one,
decodes it and finds whether its audio is already known, sends audio it has
not heard to a transcription service, looks for tones and keywords, records
what it finds as alert events, and sends the matched ones to the devices of
volunteers. Accounts with invitations, passwords, passkeys and sessions decide
who may register a device. All state that matters is in one PostgreSQL
database; several processes work on it at once and coordinate through row
locks, advisory locks, unique indexes, leases and claim tokens only.

```
 files -> recordings.Watcher -> AudioAnalysis -> Transcription -> ToneDetection,
                                                                  KeywordDetection
                                                                     |
                                                               AlertPipeline
 users -> SessionGate                                                |
             |                                                       |
          Accounts -> NotifyDevices -> NotifyWorker  <--- fan-out <--+
             |             |            |        |
             +--> NotifyEligibility ----+     PushRelay -> push service
                                        |
                              NotifyOutbox, deliveries
```

| Component | State it keeps | Operations | Interacts by | What is hard |
| --- | --- | --- | --- | --- |
| Recording ingestion (`recordings`, `database/recordings.go`) | files seen, files handled, one timer per file; `radio_transmissions` | observe, wait until stable, insert, hand over | calls the processor while scanning | repeated inserts after lost answers; a name that comes back |
| Audio analysis (`audioanalysis`, `database/audio.go`, migration 3) | processing columns, fingerprint, owner of a duplicate | claim, complete, fail | row lock, advisory lock on the fingerprint | claims without lease or token; statements that take effect after the caller gave up |
| Transcription (`transcription`, `database/transcription.go`, migration 4) | transcription columns, one row per attempt | choose, claim, send, finish; a trigger on analysis | lease and claim number | stale choice, lapsed leases, late finish, analysis turning a row into an alias |
| Tone and keyword detection (`tonedetection`, `keyworddetection`) | none | pure | results passed on | a walk that never turns back; context windows |
| Alert pipeline (`alertpipeline`, `alertstore`, `alerts`, migration 7) | `detection_audit`, `alert_events` | record one detection | advisory lock on the dedup key, unique event id | concurrent detections, times out of order, answers lost after commit |
| Alert fan-out (`alertnotify`) | none | one enqueue per test device | outbox | one device of several fails |
| Notification outbox (`notifyoutboxstore`, migrations 10 and 11) | `notification_outbox` | enqueue, claim, release, reschedule, complete, cancel, expire | single statements fenced by a claim token | stale claims and stale clock readings |
| Notification worker (`notifyworker`, `notifyattempt`, `notifyoutcome`, `notifydelivery*`) | `notification_deliveries` | one cycle: claim, read, plan, send, record | transactions over outbox, audit and device | crash between send and record, revocation in between, retry against expiry |
| Eligibility (`notifypreferences`, `notifyprefs*`, `notifyconsent*`) | consent events, preferences | evaluate; put, grant, revoke | read by the worker | four reads at four instants; dates out of order; quiet hours |
| Devices (`notifydevices`, `notifydevicestore`) | `notification_devices` | register, replace, revoke, import | read by worker and fan-out | probe and insert in two statements, lock order |
| Push relay (`notifyrelay`, `notifywebpush`) | none | send | HTTP | what an answer means; backoff and its hint |
| Identity accounts (`identity`, `identitystore`, `identityservice`) | users, invitations, resets, sessions, passkeys | redeem, establish, reset, login, enroll | row locks and conditional updates over several transactions | two transactions with a slow hash between; tokens that outlive the state they were issued in |
| Sessions and passkey ceremonies (`session`, `authhttp`, `identityservice/mfa.go`) | sessions, ceremonies in memory | resolve, touch, begin, finish, revoke | middleware before every handler | requests that resolved before a revocation and write after it; single use of a challenge |
| Admin service (`adminservice`, `authorization`, `authhttp/adminusers.go`) | none | create, suspend, restore, roles, resets | reads the session's owner and the account to be changed, then calls the identity store | both readings are stale when the store writes; interleaving with other administrators and with the user's requests |
| HTTP layer, operations API, web client, scripts, sandbox and shadow commands | none or in memory | translate and display | calls into the above | rate limiter |

What makes each correct:

* ingestion and analysis: every name is stored once; one recording owns a
  content and all others are aliases of it; no file is decoded more often than
  its attempts allow; a final row stays final;
* transcription: only owners are sent, no more often than tried; a lease
  excludes; attempts and row tell one story; a transcript is never lost; every
  owner is settled in the end;
* detection: a match is the whole pattern, a clean pattern is a match, and
  context decides between matched and ambiguous;
* alerts: at most one visible alert per key and cooldown, an audit row for
  every attempt, and no detection without an event that stands for it;
* outbox: a claim excludes until its lease has run out, a completion needs the
  claim, a terminal row stays;
* worker: the audit log tells what happened to the row, nothing is pushed for
  a claim made after a revocation, every row concludes;
* devices: an endpoint has one active device, a device one successor, and a
  revoked one stays revoked;
* eligibility: an answer was true at the end of the evaluation unless a store
  was written while it ran;
* administration: whoever is no system administrator makes no administrator, by
  no race either, an account is changed by another's verified request only, and
  the last administrator is not locked out;
* accounts: a password is set only by a token of its own, an account becomes
  active only through the gate of password and passkey, a revoked session
  stays revoked;
* sessions: no request is let in after the idle timeout, a challenge is
  answered once and for what it was made.

## 2. The modules and the code

Throughout, a database statement or a transaction that locks what it reads is
one step. Where a transaction's statements see different snapshots and others
may come between them, its statements are steps. A call that leaves the process
and comes back is two: what was read before may be stale after. A process that
dies, a context that ends and a connection that breaks are the same event seen
from the database, and the statement they interrupt may still take effect.

Beside many definitions stands a faulty variant of it (`Claimable_Again`,
`Lock_RowOnly`): no specification uses it; with the variant in the place of the
definition, the run named in `PROJECT.json` fails.

### `NotifyOutbox`

One action for each method of `notifyoutboxstore.Postgres` that writes. The
guard is the statement's WHERE clause and the effect its SET clause:
`ClaimNextDue`, `ClaimSpecific`, `ReleaseClaim`, `RescheduleClaim`,
`MarkSent`, `RecordFailedAttempt`, `MarkExpired`, `Cancel`, and the three
`...Claimed` variants. `outbox[x]` is the row of a target, that is of an event
and a device; `issued` counts claim tokens, which stands for the uniqueness of
UUIDs; `clock` is the time. Callers pass a time they read before, so each action
has a `t \in 0 .. clock`, and any token that was ever issued. A method called
with a token that does not match returns `ErrConflict` and changes nothing, so
it is no action. The CHECK constraints of the schema are not guards:
`ChecksHold` says that no method needs them, and `ChecksNeverTrip` proves it.

`ReleaseClaim`, `ClaimSpecific`, `MarkExpired` and `Cancel` are called by no
part of the running system. They are actions of `Spec`, so the theorems of
`NotifyWorkerProofs` cover them; the runs are of what the workers call.

### `NotifyWorker`, `PushRelay` and `DeliveryLedger`

`NotifyWorker` extends `NotifyOutbox` with worker cycles. `pc[w]` is the step a
worker takes next: it reads the clock once (`ReadClock`), claims (`Claim`),
reads the device (`GetDevice`), plans (`PlanAttempt`), and then defers, expires,
cancels or sends; what the provider answered is recorded in one transaction
over the row, the audit log and, for a subscription that is gone, the device.
`entry[w]` is the row as the claim returned it, so all later decisions use what
was read then. `Abandon` ends a cycle between any two steps: a crash, an error,
or an outcome transaction that fails as a whole. `standing` abstracts account,
consent, preferences and quiet hours to what the plan distinguishes and may
change at any time; `RevokeDevice` and `FanOut` are what users and the alert
bridge do meanwhile.

`PushRelay` is what one provider call comes to: which HTTP status is which
verdict, what a `Retry-After` header asks for, which sender may address which
device, and the exponential schedule of `BackoffDelay` with its cap and the
hint that may exceed it.

`DeliveryLedger` is the promise, without claims, leases, clocks or workers:
open, collect numbered failures while attempts remain, close once. `LedgerSpec`
is `NotifyWorker` seen through `phase`, `limit` and the audit log; `OutboxSpec`
says that the workers are among the callers `NotifyOutbox` allows.

### `NotifyEligibility`

`Evaluator.Evaluate` over the four stores it reads: account, device, consent
log, preferences. Each read is a step and the stores are written in between, by
users, administrators and consent events dated in any order. `eval` is the
evaluation under way or its last decision; `withdrawn` records whether a
condition has become false while it ran, which is what makes "right now" a
property of four reads at four instants: a refusal is true when it is given,
and so is all that an answer "eligible" stands for unless something was withdrawn
meanwhile. Quiet hours that cross midnight, columns of type `time` that round,
and rows that `Validate` lets through are in the data; zone rules are not
(local time is the time of day).

### `NotifyDevices` and `DeviceRegistry`

`NotifyDevices` is the Postgres store of devices, one SQL statement a step, at
READ COMMITTED. `rows` is what is committed, `tx[c]` how far the transaction of
session c is; a row lock is held from the SELECT ... FOR UPDATE to the commit.
`Blockers(c)` is whom the next statement of c must wait for: holders of the row,
and other transactions whose uncommitted insertion or retirement touches the
same place of the unique index of active endpoints. `DeadlockDetected` is what
PostgreSQL does about a circle of waits. `Import` is the INSERT of the command
`sandbox-device`. `DeviceRegistry` is the in-memory `Store` of
`notifydevices.go`, which the package documents as the reference semantics;
`RegistrySpec` says that the answers of the Postgres store are answers the
registry could have given, or "unavailable".

### `AlertPipeline`

`Service.process` for several callers, and `record_alert_detection` statement
by statement: audit row, advisory lock on the dedup key, look-up of the event
id, cooldown check, insertion, commit. `txs` are the transactions that are
under way. `GiveUp` separates a caller from its transaction, which may still
commit; so it is a lost answer, a canceled context and a crash. `DedupKey` is
made of the recording and the set, `EventId` of the set, the state, the label
and the time, as the two hashes in `alerts.go` are: neither determines the
other, and this is where the interesting interleavings come from. Nothing in
this code reads a clock; a caller says what time it is.

### `ToneDetection` and `KeywordDetection`

Two sequential algorithms. `ToneDetection` is `detectOne`, the walk over the
windows of a recording in search of one tone set: `cursor`, `run` and `skipped`
are its local variables, and every branch of the loop is an action. A window is
its pitch and concentration; the spectral arithmetic (an FFT) that yields them is
an input. `LowConfidence` compares the average over all tones, as the code does;
for what the documents say see section 7. `KeywordDetection` is `Detect` over
tokens: occurrences, the context windows around them, required and excluded
context. Both are checked against definitions that speak of the whole recording
or text at once.

### `AudioAnalysis`

`rows[r]` are the analysis columns of a recording, `at[p]` the place of a
process in the loop of `Processor.Process`, `txs` the calls of
`complete_audio_analysis` under way with the locks they hold, `late` the
statements whose caller stopped waiting. A claim has no lease and no token. The
Go deadline of two seconds makes every statement one that may be answered, not
be done, or be done later. `Restart` forgets what a process had handled.

### `Transcription`

`Transcription` extends `AudioAnalysis`: `jobs[r]` are the transcription columns
of the same table, `tries[r]` the rows of `transcription_attempts`. The query
that chooses a recording and the function that claims it are two steps
(`Choose`, `TakeJob`), so the number of the attempt a worker decides by is
stale. Times are only ever compared with the database's clock, so a due time is
modelled by the time that remains until it. `WithTrigger` composes the two: the
trigger of migration 4 changes `jobs` in the same step in which analysis makes a
row an alias.

### `Accounts`

One account, since no statement touches two. A request is where a user or a
service stands between transactions: a token presented, a redemption done and a
password not yet established, a session whose INSERT ... SELECT has read its
snapshot. `Administer` are the administrator's operations, `Bootstrap` the
command `bootstrap-admin`, `Lapse` the passing of an expiry, `Restart` the loss
of what a process keeps in memory. `made`, `cut` and `blocked` are history: how
many passwords were set, which sessions were there when all were revoked, and
whether an administrator has blocked the account and not unblocked it.

### `Administration`

The requests of administrators over several accounts. A request is in one of
three places (`calls[c]`): `Admit` is the middleware, which reads the session
with its owner's role and scope; `Decide` is the service, which reads the account
to be changed and applies the rules of `authorization` (`Allowed`,
`CanAssignRole`) and `ErrSelfAction`; `Perform` is the store's transaction, which
looks at neither again. Others come between any two. An account is its role,
its scope and whether its owner can authenticate; to suspend, to disable and to
reset are one order, as no rule and no session tells them apart. Owners sign in,
verify by passkey, sign out and complete what activates an account. The first
account, of `bootstrap-admin`, is in the initial state. `Accounts` has the
transactions in detail, for one account and with every call allowed;
`MCAccounts` runs both, a behaviour being of one of the two.

### `SessionGate`

One account, seen from the requests that use it. A request brings a token: a
session, or the bridging credential by which an account that has set its password
enrolls its first passkey, as no session can be opened for it yet. It reads the
clock when it arrives, resolves the token, touches the session, and goes on into
its handler, where it reads the clock again; each is a step, and other requests,
revocations, the clock and a restart come in between. With a bridging credential
(`Recognize`, `LetInToEnroll`) nothing is touched, the status of the account is
read afresh, and only the enrollment route serves it (`Served`); a request that
also brought a session falls back on it (`FallBack`). `rows[s]` is the row of a
session with its two expiries, `bridges[b]` where a bridging credential stands
(owed to the redemption that set the password, held in memory, or gone),
`ceremonies[t]` what `mfaCeremonyStore` holds under a token of either kind, with
capacity, time to live and single use. A passkey that is committed makes the
account active, and takes all bridging credentials with it in a later step
(`RevokeBridges`). What the WebAuthn library says of an answer is a choice.
`lastUse` is history.

## 3. The runs

| Run | Question | What it shows |
| --- | --- | --- |
| `workers` | What do two workers do to one row? | Retries, lapsed leases, crashes between any two steps, every provider answer, a real or a test device, revocation and changing eligibility: audit and row agree, no retry is set beyond the expiry, a late worker changes nothing, no claim made after a revocation is pushed, every row concludes, and the whole implements `NotifyOutbox` and `DeliveryLedger`. |
| `eligibility` | When is a decision put together from four reads true? | A refusal is true when it is given, "eligible" unless a condition was withdrawn while the evaluation ran; consent follows the dates of its events, in whatever order they were recorded. |
| `devices` | Do statements of two sessions keep the registry one? | One active device per endpoint, successions that do not branch or meet, revocation that lasts; only replacements that cross deadlock; every answer is one the in-memory registry could give. |
| `alerts` | Do concurrent, repeated, late and unordered detections keep alerts apart, and lose none? | Two events of a key are as far apart as the whole seconds of the cooldown (section 7); each audit row has an event that explains it; outcomes say what is in the tables. |
| `detection` | Do the two detectors find what is there and only that? | A match is a pattern of the recording, clear enough on average over its tones, though one of them may be faint; a pattern with no window like its tones outside them is matched, or refused for its average alone; a keyword is firm exactly where its context is. |
| `analysis` | Does analysis without leases stay exclusive, and duplicates consistent? | One owner per content, aliases that name it, one processor per recording, no decoding without an attempt, final rows that stay. |
| `transcription_race` | Do row and attempts agree under stale reads and lapsed leases, and do analysis and transcription compose? | Two workers with two tries over two recordings of one content: they do, a transcript stays, also when the other recording is analyzed after it, a recording is not given up while it has attempts left, and the alias is never sent. |
| `transcription_progress` | Does a recording get done, and does the processor come back? | Two turns of the processor, three tries of the worker with backoffs: the recording is settled however often workers are lost, and a processor whose statements are not answered ends its loop. |
| `accounts` | Do tokens, passwords, sessions and states of an account agree, and can a race of administrators' requests yield what no request alone may do? | Two concurrent requests under every administrator operation, restarts and lapsing tokens: they agree. Two requests under way together over two accounts of any role: no administrator comes about but through a system administrator, the only administrator keeps the account, and every change was allowed to another, in a verified session. |
| `sessions` | Can a request outlive the session it came in with, and a challenge its ceremony? | Two requests at a time, of two sessions of one account or of a session and a bridging credential: a revoked session stays shut, idleness counts from a use, a challenge has one holder, and a session is marked, or a passkey enrolled, only for a ceremony begun under the same token. |
| `worker_sent_late`, `accounts_silently_active` | Is what a comment says so? | No: see section 7. |

Every property of a passing run has a mutant in `PROJECT.json`: a faulty variant
of one definition (a dropped fence, a lock on the wrong key, an off-by-one, a
forgotten reset) that stands beside the definition it varies and under which
the run fails.

## 4. Bounds

| Bound | Where | Why it is enough |
| --- | --- | --- |
| `MaxClock`, `MaxTokens`, `Lease`, `Deferral` | workers | With a lease of one tick, three ticks let a claim lapse, be taken over, fail and be retried up to the expiry. Seven tokens are more than a row can use up before it ends, so liveness is not cut short by them; the run of the late push needs four. |
| `AttemptLimits` | workers | A limit of two has a first and a last attempt. |
| `Statuses`, `Headers`, `BaseDelay`, `MaxDelay` | workers | One status of every verdict and the edges of their ranges; a hint that exceeds the cap on the backoff, and none. |
| `CrashHorizon` | workers | Before it a cycle may be abandoned anywhere; liveness needs that this ends. |
| `Day`, `Microsecond`, `Times`, `MaxConsents` | eligibility | A day of six ticks has a window within it, one across midnight and an end that rounds to midnight; three consent events are a grant, its revocation, and a grant dated between them and recorded last. |
| candidate rows | eligibility | One row or more of each kind the checks distinguish: all on and all off, channels and lists left out, thresholds above and at the alert's confidence, three kinds of quiet hours, half a window, a window without a zone, a zone that is refused. |
| ids, users, endpoints, keys | devices | Three devices are two in succession and one that is in the way; two users and two endpoints are a replacement that is forbidden and two that cross. |
| `MaxAudits` | alerts | Three detections: two that race and one that comes late. |
| `Times = {0, 2}`, `Cooldown = 3`, `Second = 2` | alerts | A cooldown of one and a half seconds, of which one is enforced: equal times, the exact end of the enforced cooldown and the reversed order occur. Events at 0 and 2 are both visible, within the configured cooldown: the run shows the enforced one only. |
| `WindowMS`, `MaxWindows`, tone sets | detection | Windows of 2 ms against bounds that are no multiples of 2; six windows hold two tones, a gap and what may follow. A recording may be shorter than a window. |
| `Full`, scores 1 and 3 against a minimum of 2 | detection | A faint tone beside a clear one has just the average asked for: to ask the average of each tone (`LowConfidence_EachTone`) fails the run. |
| `Words`, `MaxTokens`, `MaxEntries` | detection | Six tokens of two words: a phrase of two, with context on either side and text beyond the context window. |
| `MaxAttempts`, `Budget` | analysis | At most two attempts in all over two recordings: one recording claimed twice, or two once each. |
| `MaxTries`, `JobLease`, `MaxAttempts` | `transcription_race` | Two recordings of one content, so each may become the alias of the other before or after it is tried; two tries, of which one is interrupted or fails. |
| `MaxTries`, `MaxAttempts` | `transcription_progress` | Three tries: one interrupted, one failed, one more after its backoff. Two turns of the processor: the loop is taken and ends. One recording and one worker, since liveness allows no symmetry; they are lost any number of times. |
| pools of invitations, resets, sessions | accounts | Two invitations let one supersede another; one reset may be outstanding beside them; two sessions let one be there before a revocation and one after. |
| `Users`, `Calls`, `SomePositions` | accounts | Two accounts and two requests are administrators who demote each other, one who is promoted on the way, and one who changes what the other is deciding on; a position of each reach, and one in a department that is not the administrator's. |
| `IdleTimeout`, `AbsoluteLifetime`, `CeremonyTTL`, `MaxClock`, `MaxChallenges` | sessions | A session may end by idleness or by age, a touch may be late, and a ceremony may be over before its answer arrives; two challenges let one replace the other. |
| `TokensInBudget`, `BridgeTTL` | sessions | Two tokens at a time: two sessions, or a session and the bridging credential, which may be over before it is used. With two tokens and both challenges made the clock stops one tick earlier, when a session may be idle and a ceremony over; the oldest age is reached with one of either. |

Two workers, processors, callers, requests or sessions are enough for each race
named in the hazards, since each is between two of them; the proofs of section 6
hold for any number. `accounts`, `alerts`, `analysis`, `transcription_race`,
`devices`, `sessions` and `worker_sent_late` use symmetry of identities that
nothing orders; the runs with a liveness property use none.

`CHECK_DEADLOCK FALSE` is set where the model really stops: in `AlertPipeline`
when all audit rows were begun, in the detectors when the algorithm has ended.

## 5. Fairness

* `WF(Proceed(w))`: `Worker.Run` is a ticker loop that runs a cycle at every
  tick, and every statement in it has a deadline. A live worker takes its next
  step.
* `WF(TimePasses)`, `WF(TimeGoesBy)`: time passes.
* `WF(ScribeStep(w))`: the transcription worker's loop sleeps and starts again.
* `SF(TakeJob(w))`: a worker may be lost between choosing and claiming any
  number of times, but a claim tried again and again is answered once. Without
  it every worker might be lost for ever, and the code promises nothing.
* `WF(WithTrigger(ProcessStep(p)))`: a processor with a file in hand goes on.
* No fairness is assumed for users, administrators, crashes, the provider's
  answers, or the fan-out. In `FairSpec` a cycle is not abandoned after
  `CrashHorizon`: a worker that fails in every cycle never ends a row, which is
  a hazard on the list without a property.

## 6. Proofs

Each module of proofs joins what it needs to one inductive invariant, shows that
`Init` establishes it and that every action keeps it, and draws the theorems from
it. The only assumptions are those the modules declare on their constants (the
`ASSUME`s named `...Assumption`); TLC evaluates them in the runs. Nothing bounds
the number of workers, targets, sessions or recordings, or the times.

**`NotifyWorkerProofs`**, first of `NotifyOutbox`. The invariant `OutboxInv` joins
types, CHECKs and distinct tokens: each of the three is needed for another's step.
Every method writes one row, so the argument is made once per kind of write: one
that keeps or clears the token (`KeepsInv`) and one that puts a fresh one in
(`ClaimKeepsInv`); each action then only has to show that its row is well
formed. From it: `TypeCorrect`, `ChecksNeverTrip`, `TokensAreUnique`,
`TerminalStaysPut` and `LeaseIsExclusive`. The last needs that a claimant's time
reading is not in the future; that is the `t \in 0 .. clock` of the model.

Then of `NotifyWorker`. Every step of the composed system is a step of the
outbox or leaves it alone, so `WorkersImplementOutbox` holds and with it every
theorem above: the runs do not check `ChecksHold` and `LeaseExcludes` again. The
invariant adds `CycleInv` (whatever a cycle past its claim carries was given to
it), `RetryInv` (a pending row is due no later than it expires) and `RevokedInv`
(a cycle that may still push, though its device is revoked, has claimed before
the revocation). From it: `RetriesEndWithTheRow`, `StaleWorkersAreInert`,
`RevocationStopsPushes`.

The audit needs more. A step is a *turn* of at most one row and its log, of a few
kinds (an entry is made, is retried, is closed, ...), and each action is shown once
to be one of them. `CopyInv` says that what a cycle carries is what the row says as
long as the row is still under its token; `LogInv` that a row and its log agree
attempt by attempt, and that each attempt is vouched for by a call of the provider
under a token of its own, which is a comparison of cardinalities. From it:
`AuditTellsTheRow`, and `WorkersImplementLedger`, the refinement of `DeliveryLedger`.

**`NotifyEligibilityProofs`.** `ReadSoFar` is what makes an answer of four instants
true at the last of them: unless a condition was withdrawn, each one that was read
is still so. `StoredSound` is what `Validate` and the column's precision leave of a
row of preferences, and `InWindowIsQuiet` settles the arithmetic of quiet hours on
either side of midnight. From them `DecisionsAreTrue`. `ConsentIsByDate` is about the
latest event of a log in any order: the order by date and then by number is total,
so there is one latest, and appending an event leaves it or replaces it. Both
theorems hold for any rows, alerts, clock readings and length of the log.

**`DetectionProofs`.** For every tone set, keyword list, recording and transcript. The
walk of `detectOne` keeps its variables in step with what it has passed:
`FoundInv` says where in the recording the segments found lie, `RunInv` which
windows the run in progress is, and the gap counted is the one since the last
segment. `MatchesAreReal` reads them off where the walk ends. That a clean pattern
is not missed is a second invariant, `OnPattern`: along every clean pattern of the
recording the segments found are those of the pattern, so none of the exits of
the loop can be taken before its end. Where a property speaks of all windows or
tokens at once, the invariant carries the induction, one step of the walk at a
time; where one number is wanted (the first window of a run, the lesser of
two bounds) it is the least element of a set of numbers, from the
well-foundedness of the order on naturals. `ContextAlwaysDecides` relates the
results to the entries looked up (`LookedInv`), and shows that a window cut out of
the transcript holds a context exactly when the context lies near the keyword.

**`AlertPipelineProofs`.** `OneVisiblePerCooldown` is not inductive. A
transaction decides under its lock and inserts later, so the invariant records
what each stage has learned and why it is still so: `Exclusive` (the lock),
`Clear` (nothing of its key is in the cooldown of one that is about to insert),
`Founded` (what a suppressed or duplicate result rests on), `IdsUnique` (who may
use an event id next), `Awaited` and `Numbered` (which transaction a caller
waits for). From it: `AlertTypeCorrect`, `OneVisibleAlert`, `NoDetectionIsLost`.
`TruthInv` adds what callers rest on: an awaited transaction works on the result
its caller has come to (`Asked`), and no event, audit row or outcome has the number
of a transaction before it ends (`Spent`). From it: `CallersAreToldTheTruth`.

**`AccountsProofs`.** `PasswordsMatch`, `OneTokenAtATime`, `RevocationIsFinal`,
`ActivationPassesTheGate`. `CutSessionsStayShut` needs to be strengthened by
`SessionInv`: a session whose INSERT is under way is not in the table yet and
belongs to one request, so no revocation that came in between can have found it.
`EveryPasswordIsPaidFor` is a balance of three numbers: passwords made, and
requests about to make one, are never more than the tokens redeemed for one
(`PaidInv`). `Balance` says which changes of the three keep it, and each operation
is shown to be one of them.

Of `Administration` the accounts are not what is inductive, since they move on under
the requests; what a decision leaves behind is. `CallInv` says that a request under
way comes from somebody whose account is there, verified if an administrator, and
that one that was decided is `Granted`: the principal, as read, was an administrator,
the order is not about the own account, and the position asked for is one that the
principal may give. `OrderIsPerformed` says what performing it does to its
account, and `RequestsComeAndGo` that nothing else touches one. From them
`AuthorityComesFromSystem` and `ChangesComeFromAdministrators`, for any number of
accounts, departments and requests and any positions.

**`SessionGateProofs`.** `GateInv` joins types, `RowsInv` (a session was last
seen no later than it was used), `CallsInv` (a request about to touch its session
carries a time no later than its last use, one that answers a challenge does so
under the session or bridging credential it was made for and for its purpose, and
only a session's request is about to mark one), `CeremoniesInv` (what is stored under
a token was made for it) and `ChallengesHaveOneHolder`. From it: `GateTypeCorrect`,
`ChallengesAreAnsweredOnce`, `RevokedStaysShut`, `IdlenessCounts`,
`CompletionsAreBegun`.

**`NotifyDevicesProofs`.** A transaction reads, waits and writes in different
statements. `Standing(c)` says, for each place a transaction may be at, what of
the things it has read cannot have changed, because of its lock or of the index;
`Apart` says that two transactions under way hold different rows and different
places of the index. With these, `DevicesTypeCorrect`, `EndpointsAreActiveOnce`,
`ReplacementsFormLines` and `RevokedDevicesAreFinal` follow for any number of
sessions. `OnlyCrossingsDeadlock` follows too: whoever waits at an insertion waits for
a transaction that waits for nobody, so it is in no circle.

`DevicesImplementRegistry` is the refinement of `DeviceRegistry`: for any interleaving
the table answers as the in-memory Store would under its mutex, or that it is
unavailable. `Branched` adds that a replacement in place, and one that inserts, still
is what it was when it compared the endpoints. Each statement is then a stutter, or
the whole of one method of the Store (`AnswersMap`, `InsertionsMap`,
`ReplacementsMap`, `RevocationsMap`), and a commit is the point at which a
replacement happens.

**`TranscriptionProofs`**, first of `AudioAnalysis`. `TypesInv` says whose transactions are awaited.
`OwnershipInv` says that the completions under way that hold locks have different
recordings and contents, and that what one has looked up is still so;
`HoldersInv` that a recording in processing is held by at most one processor or
one failure that has yet to take effect; `PaidInv` that no file was decoded more
often than its attempts tell. From it: `AnalysisTypeCorrect`, `ContentsHaveOneOwner`,
`ClaimsAreExclusive`, `FinalRowsStay`.

Then of `Transcription`. Analysis keeps its invariant under the trigger
(`TranscriptionKeepsAnalysis`), so its theorems hold in the composition. `Story`
relates a row to the sequence of its attempts, one case for each status;
`ScribesInv` and `JobsInv` say that whatever a worker has in hand, or a row has
tries for, is an owner and that aliases are skipped; `RequestsInv` that every
request, made or about to be made, has a try of its own. From it:
`TranscriptionTypeCorrect`, `RowsTellTheirTries`, `OnlyOwnersAreSent`,
`TranscriptsStay`. `Counted` says that the attempt number a worker read before its
claim is at most one more than the row's, and after the claim at most the row's, as
no step takes a try back; from it `RetriesAreUsedUp`.

Only model-checked: all liveness (`EveryRowConcludes`, `EveryOwnerIsSettled`,
`ProcessIsBounded`), as the prover has no liveness under fairness and no ENABLED.
Every other property of the passing runs is a theorem. The specifications are proved
about one by one, and together where one extends another; the hosts of two in one
run (`MCDetection`, `MCAccounts`) have no theorem, as no behaviour of theirs is of both.

## 7. Where the code and its documentation part

Two runs are expected to fail; each checks one sentence of the repository.

* `worker_sent_late`: "never sent late"; the expiry is compared with a reading
  from before the claim, and the push may go out after it.
* `accounts_silently_active`: a suspended account becomes active by an
  invitation that was pending before, with no administrator call.

Met while modelling, without a run of their own:

* Outbox: the comment on `Cancel` names "the lease's own expiry" as a way a
  claimed entry becomes cancelable again. No statement clears the token of a
  lapsed claim, so it is only after someone has claimed it anew and finished.
* Worker: it must never "decide the terminal fate" of a real device's entry,
  which "is left alone"; the deferral that reaches the expiry closes it.
* Devices: `Replace` "fails closed with ErrForbidden" on an endpoint someone
  else holds. When the holder commits between the probe and the insertion, the
  index refuses the row and the error is `ErrInput`.
* Sessions: `MarkSessionMFAVerified` asks for "exactly the two conditions
  session.Config.Usable checks", which checks idleness too. `TouchSession`
  "advances" `last_seen_at`; a delayed one moves it back. `ListActiveSessions`
  lists sessions that have expired.
* Tones: `docs/alert-notification-engine-v1.md` rejects "a segment whose computed
  confidence is below the tone set's configured minimum", and the comment on
  `MinConfidence` speaks of "a completed run"; `detectOne` compares the average
  over all segments once (lines 286-287). A faint tone beside a clear one is
  matched. `MatchIsReal` states what the code does, and the run has such
  recordings.
* Tones: a transient of the right pitch ahead of a tone is taken for it and the
  walk does not turn back; a tone longer than its `MaxDurationMS` is cut and its
  rest taken for what follows.
* Keywords: a transcript of punctuation only is a negative result, not one that
  cannot be judged.
* `bootstrap-admin` promises one administrator and counts before it inserts; two
  at once may both succeed.
* `event_id` leaves the recording out (`alerts.go`, `eventID`). Two recordings
  with the same set, state, label and times have the same one; the second is
  reported as the retry of an event (`Result.Duplicate`, "an idempotent retry of
  an already-recorded event") and gets no alert.
* "At most one visible alert per `dedup_key` within its cooldown period": the
  cooldown is cut to whole seconds (`cooldownSeconds`, `alertstore.go`). With one
  of 1.5 s two alerts may be visible 1 s apart, and below a second none is
  enforced; a cooldown of whole seconds is kept. `OneVisiblePerCooldown` states
  the enforced one only.
* The cooldown asks for an event of the key, not for its state: an ambiguous
  phrase of a keyword list, of which nobody is notified, suppresses a matched
  one of the same list and recording.
* `docs/alert-notification-engine-v1.md` speaks of a cooldown per prefix of the
  key (channel, detector, set); the code's key has the recording in it.
* `alertnotify` says its caller "already holds the alerts.Event locally";
  `alertpipeline.Outcome` does not carry it.
* Restoring a suspended administrator makes the account active by its password
  alone, also when no passkey was ever enrolled
  (`authentication-authorization-v1.md` asks for one).
* Restoring one's own account "can only ever be reached while that account is not
  the caller" (`adminservice/operations.go`): a request that was let in before its
  caller was suspended may still undo the suspension.
* A department's administrator may assign a role "only within its own scope"
  (`authorization.go`, `CanAssignRole`) and sees no other account; an account moved to another department between `loadVisible` and the store's write is
  changed all the same. The model has both cases.
* `AdminReset` leaves a pending self-service reset pending; it still works.
* An expired invitation is refused, and the account is not moved to `expired`.
* Disabling an account does not revoke its notification devices; the evaluator
  finds its owner ineligible instead.
* A login that verified the old password may create its session after a reset
  has revoked all sessions.
* Redeeming takes the invitation's row before the user's, reissuing the
  other way round: the database may abort one as a deadlock.

## 8. What is not modelled

`PROJECT.json` gives every component a status and a reason. In short:

* arithmetic and wording: the FFT score of a window, the splitting of text
  into words, zone rules, payload encryption and VAPID signatures, the
  interpretation of dispatch text. What they yield is an input or a choice;
* libraries: decoding of audio, the transcription service, the WebAuthn
  exchange, the push service. What they answer is a choice;
* the fan-out's listing of devices and its failure for one device of several;
* the stability and deadline timers of the watcher, which decide when a file may
  be stored;
* the administrators' lists of users, which only read;
* in `SessionGate`: that the clock is read a little before a ceremony is taken, the
  transaction of a login, which `Accounts` has in steps, and bridging credentials
  of several accounts at once;
* the rate limiter, cookies and the CSRF comparison of the HTTP layer;
* what keeps no state another part relies on: the identity audit log, transcript
  review and evaluation, shadow mode, read-only queries, one-shot commands other
  than `bootstrap-admin` and `sandbox-device`, the web client, the scripts.

What the models assume of PostgreSQL: a statement is atomic, a row lock and an
advisory lock are held to the end of the transaction, a statement sees what was
committed before it began, unique indexes make a second insertion wait for the
first. What they assume of Go: a call whose context ended may have taken effect.

## 9. What could come next

1. A module of the watcher: stability and deadline timers and the startup snapshot,
   as an implementation of "the file may be stored" of `AudioAnalysis`.
2. The fan-out over the devices of `NotifyDevices`, composed with the events of
   `AlertPipeline`: only matched events reach the outbox, and a device that
   fails does not keep the others out.
3. `NotifyEligibility` as an implementation of `standing` in `NotifyWorker`.
4. The versions of transcript reviews; the rate limiter.
