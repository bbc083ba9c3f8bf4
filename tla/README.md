# arran: a verification project

arran ("spendable today") is a household-budget adviser: a Go API on PostgreSQL
(`src/server`), a Flutter client (`src/mobile`) and an AWS deployment
(`src/infra`). The user imports card statements, asks whether a purchase is
affordable, records what came of it and reads a monthly review. This directory
holds TLA+ models of its stateful parts, TLC configurations that check them, and
TLAPS proofs of their safety properties for instances of any size.

Contents: [the system](#the-system) - [modules](#modules-and-the-code-they-model)
- [runs](#what-each-run-checks) - [fairness](#fairness) - [proofs](#what-is-proved)
- [findings](#disagreements-found) - [not modelled](#what-is-not-modelled-and-why)
- [plan](#plan)

Every definition that models code is listed in `PROJECT.json` under "map" with
the lines it stands for. To check one run: `tlc -workers 2 -config quota_clean.cfg
ConsultationQuota`; to check the proofs of one component: `tlapm
ConsultationQuotaProofs.tla`, and likewise the other modules whose names end in
`Proofs`. Each takes from some seconds to a few minutes.

## The system

| component | state it keeps | operations | met with |
|---|---|---|---|
| quota and limit alert (`application.go` StartConsultation, `repository.go`) | `monthly_consultation_usage`, `admin_notifications`, the limits | reserve, release, claim the alert, complete it | the agents, PagerDuty, concurrent requests, administrators |
| import (`application.go` PreviewImport, CommitImport) | the preview map of the process, `transactions` | preview, sweep, commit | other imports at the unique index of fingerprints; restarts |
| CSV parsing (`csvimport/importer.go`) | none | decode, detect columns, normalise, categorise, fingerprint | the import |
| login gate (`auth.go`, `postgres/auth.go`) | `auth_attempts`, `auth_sessions`, the slots of the password check | allow, verify, create session, resolve, log out | concurrent logins of all processes; administrators |
| mobile session (`session_provider.dart`, `login_view_model.dart`, interceptors) | the session in memory, its timer, the secure storage and its queue | initialize, activate, logout, clearIfCurrent | the API, the clock of the device, process death |
| continued consultations, results (`application.go`) | `consultations`, `consultation_messages`, `memories` | continue, record a result, extract memories | the agents, each other |
| corrections and profile (`repository.go`) | `transactions.category`, `merchant_rules`, `profiles` | choose a category, remember it for the merchant, save the profile | later imports, the verdicts |
| review, spending evaluation, dashboard (`application.go`, `spending.go`) | none of their own; SQL aggregation | compute | the agents |
| mobile view models | the state of a screen | dispatch | the API, out of order |
| configuration (`internal/config`) | the environment of the process | load | the one who starts it |
| process and migrations (`cmd/api/main.go`, `app.go`, `postgres/database.go`) | the schema, the phase of each process | start, migrate, serve, stop | the processes of a rolling deployment |
| free-user trigger (`006_free_user_limit.sql`) | the active users, their limit | register, disable | concurrent registrations, a migration that installs it |
| handlers and authentication (`handler.go`, `auth.go` Wrap) | none of their own | one for each route | the services, the client that may leave |
| OpenAI client (`openai/client.go`, `app.go` usageRecorder) | `llm_usage` | call the model, record its tokens | the agents, the limit of the month |

How they interact. Every API request passes `Wrap`, which resolves its token to a
user id; the repository puts that id into every statement, so users meet only in
the attempt counters, in the preview map of the process and in the settings. The
application calls the repository and the agents one after the other in the
goroutine of the request and on its context: a client that disconnects cancels
all that is left, deferred calls included. The mobile client reacts to a 401 by
`clearIfCurrent`, and replaces its view models at each change of session.

What is hard about it, and what must hold:

- *Quota.* A reservation, an agent call of up to 20 seconds, an insert and an
  alert are separate calls; any may fail, be cancelled, be lost, or end in the
  next month. The usage row must count exactly the reservations that were not
  returned; the external model must not serve more than the limit; at most one
  alert is delivered in a month.
- *Import.* A preview must be registered at most once, by its owner, completely
  or not at all, with exact counts even when overlapping files run side by side.
- *Login gate.* Concurrent transactions of all processes sweep and count the same
  rows; every return must give its slot back; a password changed or an account
  disabled while a session is being created must leave none that can be used.
- *Mobile session.* Memory, storage and server each hold a version of the truth,
  and each await is a chance for a timer, a 401 or a new login.
- *Ledger.* Statements overlap, are imported again under other spellings and other
  rules, and are corrected by hand in between: no line may be counted twice, no
  correction undone, and what is computed from the ledger must agree with it.
- *Consultations.* A continuation holds the row it read for as long as its agent
  runs; a result, another device and the answers for the history arrive meanwhile.
- *Start.* Settings come from three places; two processes of different age migrate
  one database while users register; each may die, or lose the reply of its commit.
- *Requests.* Who may call the external model is decided before the agent runs, by
  a count that others change; what an answer cost must be recorded once and for its
  user, whatever becomes of the request; a refused request must leave nothing behind.

The complete list, with the line where each bites, is "hazards" in `PROJECT.json`.

## Modules and the code they model

**MonthlyQuota** is the abstract specification: each month has a set of slots,
and a consultation is entitled to the external model when its slot was among the
first `limit` at the moment it was taken. No counters, no handler, no failures.

**ConsultationQuota** is the handler. `pc[r]` is the position of request `r` in
`StartConsultation`; each action is one call it makes (`Reserve`, `BuildContext`,
`RunAgent`, `CreateConsultation`, the deferred `Release`, `Claim`, `Notify`,
`Complete`, `AddMessages`), so calls of different requests interleave anywhere.
`Replies(r)` is the set of outcomes of a statement: ok, failed without effect,
*lost* (effect, but the handler sees an error), and only failed on a cancelled
context. `ticket[r]` is the usage the reservation returned, which the handler
uses to the end although row and limit may have changed. `charged` is a history
variable: the requests that were counted and not released. Rows of different
users never meet, so one account is modelled.

**AtomicImport** is the abstract specification of the import: a preview fixes a user
and a file, and registering it is one step that adds the lines which are missing and
answers how many they were. No cache, no requests in flight, no transactions.

**ImportPreview** is the preview cache and the import transaction. `cache` is
`s.previews`; `PreviewImport` sweeps and stores under the mutex; `CommitImport`
consumes under the mutex and tests the expiry afterwards. The transaction goes
line by line (`InsertLine`), because PostgreSQL makes an insert wait for an open
transaction that inserted the same key; `ResolveDeadlock` is the database's.
`Restart` empties the cache, and requests still running either die or finish,
which is what `Shutdown` and two overlapping tasks of a deployment allow.
It refines `AtomicImport` by the history variables `issued` and `took` and the
answers of the commits. `MCImportPreview` supplies the files.

**LoginGate** is `POST /auth/login`: the DELETE and the two upserts of
`AllowLogin`, with row locks and a transaction timestamp; the slots channel;
`FindUser` and `VerifyPassword`; the conditional INSERT of `CreateSession`, whose
commit is a step of its own; the administrator's changes to the account. `Disable`
is the documented transaction, an UPDATE of the account and a DELETE of its
sessions: it does not wait for an open INSERT, which holds the account's row for its
key only, and the DELETE does not see the row of one. `period`, `since` and
`overtaken` are history: the account's period of activity, the one a session was
inserted in, and whether a disabling came between its insert and its commit.
`MCLoginGate` declares the symmetry.

**MobileSession** is the session controller with its storage queue and the login
view model. An action is the code between two awaits. `generation` is the
provider's counter: a login remembers the one it started in. `stored` is written
only when the queue's head ends (`StorageTurn`). A login attempt stands for the
token issued to it. `MCMobileSession` declares the symmetry.

**CsvImporter** is `csvimport/importer.go` as pure operators: `Parse` and what it
calls, on cells that are a date, a number (in parentheses or not), words or blank.
Decoding, the layouts of dates and the writing of amounts are abstracted into those
kinds; what the code decides from them (columns, signs, rejected lines, merchants,
categories, fingerprints) is kept, in its order.

**AgentPayload** is what a review hands to the external model: `sanitizeForLLM` and
`sanitizeReviewCandidates`, and the two lists of fields, the adapter's and the
client's, through which everything goes.

**SpendingRules** is `EvaluateSpending` and the sums of `MonthlyDashboard`;
**ReviewCandidates** is `BuildReviewCandidates` with its helpers. Days are numbers,
a month has `MonthDays` of them, and the thresholds are constants.

**Ledger** composes the four over one user's `transactions`, `merchant_rules` and
`profiles`: `PreviewImport` parses with the rules of that moment, `CommitImport`
inserts with ON CONFLICT DO NOTHING, `SetCategory` and `SaveRule` are the separate
statements of `UpdateTransactionCategory`, and a preview may be lost at any time. A
commit is one step, which is what `ImportPreview` shows of it. `MCLedger` holds the
statements of a card and a bank.

**Consultations** is what follows a start: `ContinueConsultation` and
`UpdateConsultationResult` statement by statement, from the modelled screen or
another device, and the view models of the app that send them. `rows` is the table;
`read[q]` is the row a continuation holds while its agent runs; `gets` are the
numbered requests for the history, `history` and `shown` the two halves of
`ConsultationState`. `advice` and `feedback` name who last wrote the columns of either
kind; a result writes the status too, which is its decision, and an advice writes the
status anew. `writes`, the writers of a row in their order, and
`known` are history. A result may be
sent at any time, since its screen has a route of its own and may be open already.

**Configuration** is `internal/config` as operators: `LoadDotEnv` reads one file
line by line into the environment (`ReadLine` is one pass of the loop), `Load`
validates the settings and says which model the process serves with. `Said` and
`AskedForExternal` are the reference definition it is compared with: what was said
of a name, without reading anything in order.

**Startup** is the life of the processes. `phase[p]` goes from `down` to `serving`;
`Migrate` is one file of the list, `executed[p]` what its open transaction has run,
`applied` the committed rows of `schema_migrations`. `Die` may come at any point and
rolls back; a lost reply of the commit ends the process although its migrations
stand. Beside them users are registered, each in a transaction: `CheckUserLimit` is
the trigger under its advisory lock, and a migration that locks the table of users
waits for the open registrations (`Registering`), which is how the trigger can be
installed while some are open.

**ApiServer** extends `Startup` by the requests that serving processes answer.
`Service` gives the calls of every handler in their order, `todo[q]` is what request
`q` has still to do, and each action is one call: authentication, decoding,
validation, reads, the reservation or the reading of the usage, the agent's calls
of its model, writes. `Refuse` is an error return, which runs the deferred release
first. What was written, as far as answers can tell, is `left[q]`. `Replies` is as in
`ConsultationQuota`, except that a statement cut off by the client's leaving may
have taken effect. A call of the model (`CallModel`) and the record of its tokens
(`RecordUsage`) are two steps; how often the agent calls and when it gives up is its
library's choice. `late`, `metered` and `unrecorded` are history variables. The
details of the services are the other modules'; here rows are reduced to whose they
are. `MCApiServer` holds the scenarios.

**ConsultationQuotaProofs**, **ImportPreviewProofs**, **LoginGateProofs**,
**MobileSessionProofs**, **ConsultationsProofs**, **LedgerProofs**, **StartupProofs**
and **ApiServerProofs** hold the theorems about the module each is named after.

Operators whose names end like a bug (`SweptEarly`, `LeaveKeeping`,
`ClearUnchecked`, ...) stand before the definition they are a broken form of.
They are not used in any specification: substituting one for its definition
shows that the property it is listed with ("mutants") would notice the bug.

## What each run checks

| run | configuration | checks |
|---|---|---|
| `quota_faults` | 3 requests, limit 2, 2 months, all faults | `LedgerBalanced`, `ExternalWithinLimit`, `CreatedIsCharged`, `OneSender`, `AlertedOnce` |
| `quota_clean` | 2 requests, limits 0 and 1 switched at any time, 2 months, agents and PagerDuty may fail | refinement of `MonthlyQuota`, `ReservationReturned`, `ReservationsSettle`, `AlertsSettle` |
| `quota_cancelled_release` | 1 request, cancellation | finding: `ReservationReturned` is violated |
| `import_preview` | 2 users, 2 files, 2 previews, 3 commits, TTL 1, clock to 2, restarts | refinement of `AtomicImport`, `CountsExact`, `RegisteredOnce`, `WholeFiles`, `OwedIsCached`, `CommitsEnd` |
| `login_gate` | 3 attempts, 2 addresses, limits 2 and 1, one slot, window 3, clock to 4, 1 change of the password, 1 disabling | `TwiceTheLimit`, `RefusedAfterLimit`, `SlotsReturned`, `UsableWasVerified` |
| `mobile_faults` | 3 logins; expiry, network, storage, revocation, process death | `ClearedIsDead`, `StoredIsCurrent`, `NoOrphan`, `LiveSessionKept` |
| `mobile_late` | 3 logins; expiry, network, a timer that fires late | `ClearedIsForgotten`, `ExpiredIsLeft`, `LoginsEnd` |
| `mobile_late_401` | 2 logins, late timer | finding: `StoredIsCurrent` is violated |
| `ledger` | 3 files, 3 column choices, 1 preview, at most 8 rows, 1 corrected row, 2 months, 4 profiles | `ReimportAddsNothing`, `ChoiceKept`, `VerdictsSound`, `ReviewSound`, `MerchantsStayHome` |
| `remembered_rule` | 1 file of 1 line | finding: `RememberedApplies` is violated |
| `consultations` | 1 consultation, 1 continuation, 1 result, 1 amount, up to 4 requests for the history | `FeedbackKept`, `HistoryFresh`, `ScreenSettles` |
| `server` | 2 processes, 2 users, 2 requests, limit 1, at most 2 calls of the model, every route, all faults | `MigratedOnce`, `RoomKept`, `ExternalOnlyIfAsked`, `LateIsLocal`, `UsageAccounted`, `RefusedLeavesNothing` |

Why the bounds are enough:

- *Quota.* Three requests at limit 2 are the smallest instance with one below
  the limit, one that reaches the alert and one that must not repeat it, or that
  retries it; two months give a release and an alert after the month changed. In
  `quota_clean` the limit changes under requests in flight and may be 0, where
  every request is over the limit. What the run shows for three requests the
  proofs show for any number.
- *Import.* Files `<<a, b>>` and `<<b, a, b>>` overlap, deadlock on each other
  and repeat a line within one file. Three commits allow a repeated commit of one
  preview beside a commit of the other. With TTL 1 and two ticks a preview can be
  fresh, at its last instant (`clock = expiresAt` is not yet expired) and expired.
- *Login gate.* `NameLimit` 1 is exceeded by the second attempt and `IpLimit` 2
  by the third; a window of 3 in a clock of 4 ends once and begins again; a
  single slot is full while one login is in it. One disabling (`LastPeriod`) gives a
  time before, without and after it, so that a session of each is told apart. A transaction is assumed to end
  within a tick of its beginning (the guard of `Tick`): a minute is the window,
  and the statements are single-row updates. Attempts, ticks, passwords and
  disablings run out, so the run does not check for deadlock.
- *Mobile.* Three logins allow an old session, its successor, and a login whose
  view model was replaced meanwhile. Attempts are used up, so in the two runs
  without process death the app may come to rest logged out with nothing left to
  try; those runs do not check for deadlock. Where nothing is said of it here, a
  run does.
- *Ledger.* The two card statements overlap in a line that is spelled otherwise and
  have a subscription a month apart, a refund, a line without merchant and a short
  line; the bank statement has debits, credits, a negative debit and an empty line,
  and a column that must be chosen by hand. They give at most 8 rows in two
  months. `ReviewRows` 4 is below that, as the 1000 rows a review reads may be below
  a ledger. Of the prices some are at, some just past, each threshold of the
  verdicts. One row is corrected at a time, with any category, as often as wanted.
- *Consultations.* One continuation beside one result is what an overwritten row
  takes; each answer to the screen asks for the history again, which with the first
  gives four requests answered in any order. The run sends all three requests from
  the screen, in every order the screen allows (`Local` may be smaller, when another
  device sends some). There is one result: that only a later one replaces what it
  wrote is shown for any number by the theorem, since two with their answers are too
  many states for a run. It does not check for deadlock: every request may be done.
- *Server.* A behaviour begins with one of the scenarios, a sum of small loads
  instead of their product: two processes of different age (3 and 4 migrations) on
  an empty, an older and a current database while two users register, with limits 1
  and 2 switched at any time; one review under each of 63 pairs of an environment
  and a set of files; each route alone, with every input and owner of its row,
  under failing and lost statements, cancellation and death; eight pairs of requests
  of one user, cancelled or failing; a preview and its commit while another process
  takes over. Migration 2 creates the users and 3 stands for 006: what matters is
  that there are one before the users, one that locks their table, and one after.
  With limit 1 the second of two requests is at the limit. Two calls are what a
  retry of the agent takes. Requests run out, so the run does not check for deadlock.

Every module with variables states a `TypeOK`. The runs spend their time on the other
properties; the type invariants are proved.

The *late* fault of `MobileSession`. Dart's timers run on a monotonic clock that
stops while the device sleeps, so `DateTime.now()` may be past `expiresAt` with
the timer still pending. The router then shows the login page while the expired
session is in memory, and a login may start beside it. Without this fault the
timer is the first to notice the end of the session, and the login page appears
only once memory is empty.

`TwiceTheLimit` is what the fixed windows of `auth_attempts` give: a limit's
worth of attempts at the end of one window and another at the beginning of the
next, in any span one tick shorter than a window. In a whole window it may be three
times the limit, which an attempt to prove the stronger bound brought to light: a
transaction that began before the end of a window opens the next one early when
another transaction, for other keys, sweeps the row in between, so that three windows
touch one span. The docs say "5 per minute" and leave open whether a minute is a
window of the clock or any 60 seconds; the limit itself over any 60 seconds would be
false.

## Fairness

- `ConsultationQuota`: weak fairness of each handler's next call. The agents are
  called with a 20 second timeout, PagerDuty with 10 seconds, and a statement
  ends with its connection. New requests, cancellation, crashes and changes of
  the limit have none.
- `ImportPreview`: weak fairness of the next statement of a running import, and
  of the database's deadlock detection. Timeouts, expiry and restarts have none.
- `MobileSession`: weak fairness of the answers of calls (Dio's timeouts make
  every call end), of the storage queue's successful turn and of a due timer.
  Submissions, logouts, 401s and storage errors have none.
- `Consultations`: weak fairness of the end of each request the screen waits for, in
  an answer or an error: Dio's receive timeout ends every call. The server's own
  steps have none.
- `LoginGate`: safety only; every wait in it is a row lock of a short transaction.
- `Ledger`, `Startup`, `ApiServer`: safety only. That a request ends is the
  time-outs' of net/http, and a process may wait for the migration lock as long as
  another holds it.

## What is proved

All 30 safety invariants the runs check are theorems, for every value of the
constants that satisfies the ASSUMEs, and so are both refinements. The ASSUMEs are
named in the modules that declare the constants, and TLC evaluates them on each run.
A theorem with a further hypothesis has it in its statement.

| theorem | statement | assumed beside types |
|---|---|---|
| **ConsultationQuotaProofs** | | finite requests, natural limits |
| `QuotaTypeOK` | `Spec => []TypeOK` | |
| `QuotaLedger` | the usage row of a month is the number of its unreleased reservations | |
| `QuotaCreatedIsCharged` | a consultation known to be saved stays charged | |
| `QuotaExternalWithinLimit` | the external model answers at most a limit's worth of a month's charged consultations | |
| `QuotaOneSender` | one sender of the alert of a month at a time | |
| `QuotaAlertedOnce` | PagerDuty acknowledges at most one alert of a month | |
| `QuotaNoticeLifecycle` | every step respects the life cycle of the alert row | |
| `QuotaRefinement` | `ConsultationQuota` implements `MonthlyQuota` | |
| `QuotaReservationReturned` | no reservation is kept without a consultation, whatever the agents and PagerDuty do | `Faults = {}`: with any of them a charge may stay |
| **ImportPreviewProofs** | | files are sequences |
| `ImportType` | `Spec => []TypeOK` | |
| `ImportRegisteredOnce` | a preview is taken by at most one commit, and by one of its owner | |
| `ImportOwedIsCached` | a preview its owner may still commit is in the cache | |
| `ImportWholeFiles` | a committed row comes with its whole file | |
| `ImportCountsExact` | the counts told to a user add up to that user's rows | |
| `ImportIsAtomic` | `ImportPreview` implements `AtomicImport` | |
| **LoginGateProofs** | | finite attempts, positive limits, a window of 2 ticks or more |
| `LoginType` | `Spec => []TypeOK` | |
| `LoginSlotsReturned` | the slots taken are those of the logins at the password check | |
| `LoginUsableWasVerified` | a usable session carries the password its login verified, and was inserted since the account was last enabled unless a disabling overtook its commit | |
| `LoginTwiceTheLimit` | at most twice the limit within a window less a tick | |
| `LoginRefusedAfterLimit` | behind a refusal are a limit's worth of admitted attempts | |
| **MobileSessionProofs** | | |
| `SessionType` | `Spec => []TypeOK` | |
| `SessionClearedIsDead` | a session the app dropped is dead | |
| `SessionStoredIsCurrent` | with an empty queue the device stores what memory holds | timers are punctual |
| `SessionNoOrphan` | no live session is forgotten | timers are punctual |
| `SessionLiveKept` | no step takes a live session from memory but its own end | timers are punctual |
| **ConsultationsProofs** | | requests of different kinds are different |
| `ConsultationsType` | `Spec => []TypeOK` | |
| `ConsultationsFeedbackKept` | what a result wrote beside the status is replaced by later results only; a row shows a decision exactly while no advice came after it; memories come from results | |
| `ConsultationsHistoryFresh` | no answer puts an older history on the screen | |
| **LedgerProofs** | | categories are ours, files are sequences of lines, a month has days |
| `LedgerType` | `Spec => []TypeOK` | |
| `LedgerChoiceKept` | a category chosen by hand stays | |
| `LedgerReimportAddsNothing` | a committed file adds nothing when committed again | |
| `LedgerVerdictsSound` | a purchase not advised against fits the budget, a dearer one is not judged more mildly | |
| `LedgerReviewSound` | a category in a review has the total and the count of the ledger, a detected subscription was paid twice | |
| `LedgerMerchantsStayHome` | no label of a review that is sent names a merchant | no statement spells a fixed mark |
| **StartupProofs** | | finite users, 006 locks the table of users |
| `StartupType` | `StartupSpec => []TypeOK` | |
| `StartupMigratedOnce` | no migration but the first, which may be repeated, runs twice; a process that serves finds all of its own | |
| `StartupRoomKept` | a registration the trigger let through has its place when it commits | |
| `StartupServesAsAsked` | a process serves with the external model only if its environment or files asked for it | |
| **ApiServerProofs** | | finite requests, their operations are routes |
| `ServerKeepsStartup` | every behaviour of `ApiServer` is one of `Startup`, so the four theorems above hold of the server too | |
| `ServerUsageAccounted` | every answer that counted tokens is recorded at most once and for its user; the record of one that is not is due, or failed | |
| `ServerLateIsLocal` | what is sent when the month is full reaches no external model | |
| `ServerRefusedLeavesNothing` | a request answered 4xx left nothing but a reservation that could not be returned | |
| `ServerExternalOnlyIfAsked` | every call of the external model was made by a process asked for it | |

The hypotheses are not conveniences. `quota_cancelled_release` shows what happens
with a fault to `ReservationReturned`, `mobile_late_401` what a late timer does to
`StoredIsCurrent`; a window of one tick would end before the transaction that opened
it. The fixed marks are the words by which `sanitizeReviewCandidates` tells the labels
the code makes from names (`application.go:854-868`): a merchant whose description has
such a word would be sent as it is. `MCLedger` evaluates that hypothesis (`NoMarks`)
on its statements, so that it is one an instance satisfies.

### The arguments

*Quota.*

1. `TypeOK` is inductive by itself.
2. `StageInv` says what a handler's position means: nothing is charged, answered
   or acknowledged before the reservation; from the reservation to the release or
   the answer the request is charged; from the insert on its row exists. Without
   it a request charged already could reserve, or one not charged release, and
   `LedgerBalanced` would not be inductive.
3. `LedgerBalanced` is preserved because every step either leaves the row and the
   charged set of a month alone, or adds one to both, or takes one from both.
   The lemma `LedgerSteps` states that once, with the cardinality facts of
   `FiniteSetTheorems`.
4. `EntitlementInv` adds that the charged requests with a ticket within its limit
   are at most as many as some limit. A reservation within the limit sees a row
   that counts all charged requests of the month, itself included, so all of them
   together are within that limit; a reservation beyond it adds no such request;
   a release only removes one. `ExternalWithinLimit` follows, since an external
   answer needs a ticket within its limit.
5. `AlertInv` ties the alert row to its senders: while one is at PagerDuty the row
   is in `sending`, it is alone, and nobody but itself was acknowledged; after an
   acknowledgement the row is in `sending` or `delivered` and so is never claimed
   again. `OneSender`, `AlertedOnce` and `NoticeLifecycle` follow.
6. For the refinement, `Reserve` maps to `Take`, an effective `Release` to
   `GiveBack`, and everything else to a stutter. The step uses `LedgerBalanced`:
   only because the counter equals the cardinality of the slots does a ticket
   within the limit mean a slot within the limit.
7. `ReturnedInv`, without faults: nothing is cancelled, nobody dies, and a refused
   request is not charged, since its release finds the charge in the row.

*Import.* `TakenInv` is about the cache: an entry is as it was issued, and whoever
holds a preview is of its owner and alone with it, because the owner is tested, and
the entry deleted, under the mutex that found it. `ImportRegisteredOnce` and `ImportOwedIsCached` need no
more. The transactions add `WorkInv` (a row inserted by an open transaction is in
nobody else's, since the second waits at the index, and what is done and what is still
to do make up the file), `CountInv` (the counters are the cardinalities of it) and
`RowsInv` (the table is the union of the registered files). `ToldInv` then relates the
sum of all counts to the table. In the refinement a commit that takes effect, its reply
lost or not, is `Register`: the rows it found present were committed before, because it
waited for the ones that were not.

*Login gate.* A row has the password its login read and is of the present period or
marked (`VerifiedInv`, `Genuine`): the INSERT finds the account active, and a disabling,
which ends the period, deletes every row it sees and marks the others. A change of the
password needs no step: `Usable` compares. The number of slots is the cardinality of
the logins at the check. The counters are harder. `LockInv`,
`ChangeInv` and `CountInv` say what an open transaction has done to its rows: it holds
them alone, and it counted either one more than the committed row or the first of a
new window. `RowInv` says what a committed row says of the attempts: those of its
window took the numbers from 1 to its count, every number once. `WindowInv` keeps two
windows of a key apart: the second begins when the first is over, or at most one tick
before for a transaction that overlapped. Within a window less one tick there are
therefore two windows at most, and each admits the numbers up to the limit.

*Mobile session.* `PublishedInv`: what is in memory, stored or dropped was published,
and every write in the queue belongs to one login that waits for it. This is enough
for `ClearedIsDead`, with all faults. With punctual timers `AloneInv` holds: one login
at a time, none while there is a session, and beside a session an empty queue and its
copy on the device. `KeptInv` accounts for every token the server accepts.

*Consultations.* `StepInv` and `RowInv` say that a row's fields come from requests that
wrote it, and that a request past its update is among the row's writes. An update
appends its request and takes over, of a row as it is then and not as it was read, the
columns it does not write: an advice the feedback, a result the advice. For the history
`HistoryInv` says that the newest request for it, once it has read, has seen whatever
the app knows; only the newest is shown.

*Ledger.* What a file holds is read the same whatever rules were saved, up to the
categories, and the fingerprint does not look at those. So `KeysInv`: a preview has the
fingerprints of its file, and the ledger has those of every file that was committed.
Rows keep their place and change nothing but their category, which is `ChoiceKept`.
For the verdicts the sums over the ledger with and without the purchase are compared.
For the review `RankFacts` shows that every row has a rank of its own in the order of
`ListTransactions`, so that the list takes each of its rows once (`LatestListed`); a
row of a month the list reaches back to has a rank below its length (`Reached`), since
every row before it is of the same month or a later one. The list's expenses of a
category and the ledger's are therefore matched one to one (`MonthListed`), their
counts are equal and so are their sums (`CountMoves`, `SumMoves`). `IsCandidate` says
what a candidate of each kind knows of the list it was made from; everything collected
has it, whatever order the sorts of the detection give, and so has what the review
keeps. `NamesInv` says that merchants are made of a statement's words; a label that is
sent is a category, has a fixed mark, or is the mask.

*Folds and sums.* `FoldLeft`, `FlattenSeq` and `MapThenSumSet` are defined by recursive
functions, of which the proofs have to show that they exist and what they yield. The
induction over the number of elements is made as `SetInduction`, about the set of the
numbers for which the claim holds, which is proved from the library's well-foundedness
of the natural numbers; no theorem with an operator as its parameter is needed.
`LedgerProofs` uses it for the rows of a file, the registration of its lines, the sums
of a month and the candidates of a review, `StartupProofs` for the lines of the `.env`
files: `ReadAll` compares reading line by line with what was said, for files of any
length.

*Start.* `MigrationInv` says that whoever migrates is alone, that only it has
an open transaction, and that it has gone through all versions before the one it has
come to, so that at its commit all of them stand. `RegistrationInv` says that at
most one registration has passed the trigger and is not yet committed; without it
two could be counted by the same `active`. Its subtle part is the installation:
while the trigger is missing nobody has been counted, and the migration that brings
it waits until no registration is open.

*Requests.* Every step but those that concern the model or a reservation is
*plain*, and `PlainEffects` says once what a plain step may do. `UsageInv` is then
inductive by itself: an answer is counted, waits, and is recorded or given up. A death
leaves it waiting for good.
`LateIsLocal` needs more. `Flow` ties what a request has still to do to what it has
done: it reserves once, creates only afterwards, releases only when it is refused;
the lemmas `Services` and `Programs` show it of the program of every handler. Hence
the usage counts exactly the requests that hold a reservation, and each stored
consultation holds one. When the stored ones fill the month there is no room, and
since nothing takes a stored one back there is none for anybody who comes later.
`RefusalInv` adds that no handler writes anything that a step behind it could still
refuse (`Clean`, shown of every program by `ProgramsClean`), but for a row it has found
already and the reservation, which goes back. `CallInv` ties the mode of whoever called
the model to what its process was asked for.

### Only model-checked

- The liveness properties (`ReservationsSettle`, `AlertsSettle`, `CommitsEnd`,
  `ClearedIsForgotten`, `ExpiredIsLeft`, `LoginsEnd`, `ScreenSettles`): temporal
  reasoning under fairness is out of the prover's reach.
- That no model deadlocks, in the runs that check it: a statement about ENABLED.

## Disagreements found

Each has a run that TLC must find violated.

1. `quota_cancelled_release`: `server/docs/database-schema.md:65` says a
   reservation is returned when processing fails before the consultation is saved.
   The deferred release uses the request's context, so a client that disconnects
   during the agent call keeps its reservation.
2. `mobile_late_401`: `authentication.md:101` says a late 401 for an old token
   does not affect the new session. While `activate` waits for its write, memory
   still holds the old session; a 401 for it queues a delete behind the write, and
   the new session is gone from the device although it is in memory.
3. `remembered_rule`: the app offers to apply a category to the same merchant next
   time (`transaction_detail_screen.dart:113`), and `src/server/README.md:318` puts
   such rules first. `Categorize` normalises a merchant that is normalised already,
   and each pass strips one trailing number: for a description with two of them the
   rule is saved under one name and looked up under another.

Noted without a run:

- A request cancelled after it claimed the alert leaves the alert row in `sending`
  (`application.go:355`, the same context as in the first finding), which no claim
  retries, where `database-schema.md:67` says `delivered` or `failed`.
- A continuation that ends after a result was recorded overwrites its status, which
  is the decision (`repository.go:478`), and the screen then shows no result; the
  result's other fields stay. No doc says which of the two should win.
- A session inserted before its account is disabled and committed after it escapes
  the documented DELETE (`postgres/auth.go:53`, `authentication.md:59-65`) and is
  usable once the account is enabled again, where `authentication.md:57` wants none
  left. `UsableWasVerified` excepts exactly that session (`overtaken`).
- The error card offers to retry a failed continuation by submitting the form
  (`consultation_screen.dart:133`), which starts, and charges, a new consultation.
- A login whose account is disabled between `FindUser` and
  `CreateSession` is answered 503 (`auth.go:180`), where `authentication.md:26`
  answers a disabled account like a wrong password.
- `indexOf` looks an amount column that the mapping leaves empty up by its empty
  name, and an empty header matches it (`importer.go:259`): a statement with debit
  and credit columns whose header line ends with a comma is read by that column.
- The latest review of a user without one answers 500, since the empty result of
  its query is not translated (`repository.go:662`), and so does a negative planned
  amount, whose text has none of the keywords of `isUserError` (`application.go:294`).
- A call of the model that is cut off before its answer was read is not in
  `llm_usage` (`client.go:182`), whatever it cost; neither is an answer whose process
  dies before its record (`client.go:201`).
- A commit served by another process than its preview, during a deployment, answers
  that the preview has expired (`application.go:218`).

## What is not modelled and why

- Password hashing, TLS, the agent library (an empty submodule) and prompts: a
  hash check is a nondeterministic outcome, an agent run is ok or error.
- Of the handlers: health, CORS, logging and the recovery from panics; of `Wrap`, the
  login (which is `LoginGate`), the parsing of the header and the expiry of sessions
  by the clock. Addresses, names of models and time-outs of the configuration.
- Of the OpenAI client: prompts, schemas and the parsing of texts. What the agent
  library makes of an answer, a retry, the local model or an error, is a choice of
  `EndRun` and `CallModel`.
- The layout of `.env` lines (quotes, comments, `export`): a line is an assignment,
  invalid, or neither.
- The SQLite adapter serves unit tests; vendored packages and generated code are
  third-party; widgets and layout hold no protocol; CDK code is a description.
- Of the consultation screens, `ClearConsultation` (never dispatched) and the load of
  the result screen, which nothing else reads.
- The lists of merchants and recent transactions of the dashboard.
- Amounts beyond small integers: `Ledger` does not model 64-bit overflow.
- Not listed as hazards, since no property is planned for them: the 30 second write
  time-out of the server that may end a consultation whose agent takes longer
  (`app.go:50`), `abs` of the smallest 64-bit integer (`importer.go:405`), and the
  order in which two logins lock the rows of attempts (`postgres/auth.go:30`), whose
  deadlock `LoginGate` models and the database resolves.
- What the plan has left, below.

## Plan

Done: the quota with its abstract specification, the import with its own, the login
gate, the mobile session, the ledger with its pure modules, the consultations with
their screens, the configuration, the start and the requests, all with proofs. In
order of importance, what follows:

1. That a start of `ApiServer`, with its reservation, implements `MonthlyQuota` too.
2. `DashboardScreen`: its loads carry no request numbers, and their answers compete.
3. `CsvImporter` with amounts of 64 bits.
