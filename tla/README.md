# Verification of the 2FA multi-channel authentication platform

TLA+ models of the backend under `src/backend/app`, TLC runs on small instances,
and TLAPS proofs. Paths below are relative to `src/backend/app` unless they start
with `src/`.

## 1. The system

A client asks for a one-time code (`POST /otp/request`, `/otp/resend`). The API
authenticates the caller's key, asks the abuse engine, inserts a row into `otps`
and publishes a Celery message. A worker sends the code by SMS or e-mail and
commits the outcome. A second task, started by Beat, polls the SMS provider for
delivery receipts. The user's guess comes in by `POST /otp/verify`. There are no
locks: everything meets in the `otps` rows, in PostgreSQL at READ COMMITTED with
no version column and no `SELECT ... FOR UPDATE`.

| Component | State it keeps | Operations | Talks to | Hard behaviour | What makes it correct |
|---|---|---|---|---|---|
| OTP service (`services/otp_service.py`, `models/otp.py`) | `otps`: status, `code_hash`, `expires_at`, `used_at`, `attempt_count` | `create_otp`, `record_blocked`, `_latest_active_otp`, `verify_otp` | API above, database below | read, decide, commit over two awaits; other tasks rewrite the status | a code is accepted once, in time, within the attempts cap; refused rows are inert |
| Abuse engine (`services/abuse/`) and denylist (`api/admin.py`, `models/blacklist.py`) | `blacklist`; reads `otps` | `evaluate` (up to five queries), `add_to_blacklist`, `remove_from_blacklist` | API | counts taken before the row exists; list edited meanwhile; an exception inside the request's transaction | caps hold up to the overlap; refusals are deserved; listed values get nothing |
| Dispatch (`tasks/dispatch.py`, `tasks/celery_app.py`, enqueue in `api/otp.py`) | messages in the broker, a worker's task, the row's outcome columns | enqueue, load, send, commit, retry, ack | providers, broker, database | late ack, crash between send and commit, lost answers, retries that run out | nothing lost unnoticed, no false SENT, bounded sends, every row settles |
| Channel adapters (`services/channels/`) | none | `send`, `query_dlr` | provider HTTP, SMTP | timeouts, malformed bodies | each answer maps to the right outcome |
| DLR poll (`tasks/dlr.py`) | a tick's clock, batch and unit of work | `poll_pending` | SMS adapter, database | long tick with one commit, overlapping ticks, starvation, aborted ticks | receipts are true, FAILED has a reason, SENT does not last |
| API keys (`services/api_key_service.py`, `core/security.py`) | `api_keys` | create, authenticate, touch, revoke | every request | a late write to a key revoked meanwhile | revocation is immediate and final |
| Database and settings (`core/database.py`, `core/config.py`) | sessions | one session per request | all | stale copies | see `OtpRows` |
| Metrics, status endpoints | none (reads) | `delivery_metrics`, `get_otp` | database | a row counted twice or not at all | delivered and failed exclude each other; no count falls |
| Schemas, templates, logging, migrations, frontend | none | | | | not modelled, section 9 |

## 2. Modules and plan

| Module | What it is |
|---|---|
| `OtpRows` | the `otps` table, `_latest_active_otp`, and the SQLAlchemy unit of work: a handler copies a row, assigns columns, and its commit (`Flush`) overwrites those columns alone with absolute values |
| `OtpService` | issuing and verifying, over any number of overlapping handlers |
| `OneTimeCode` | abstract specification: what one code promises |
| `OtpServiceRefinement` | the mapping under which `OtpService` implements it |
| `Channels` | the adapters as functions: what each answer of TunisiaSMS or SMTP becomes |
| `Dispatch` | API enqueue, broker, workers, providers, commit of outcomes |
| `DlrPoll` | the reconciliation loop |
| `Metrics` | `delivery_metrics` as an operator on the rows, and a reference for `in_flight` |
| `Platform` | `OtpService`, `Dispatch` and `DlrPoll` on one table, and the users |
| `AbuseGate` | the abuse engine, the row it lets through, the denylist edits |
| `ApiKeys` | authentication, the debounced touch, revocation |
| `MC*` | instances for TLC: symmetry sets, and the answers a run lets providers give |
| `OtpRowsProofs` | lemmas about rows and `Flush`, used by the next four |
| `OtpServiceProofs`, `OtpRefinementProofs`, `DispatchProofs`, `DlrPollProofs`, `AbuseGateProofs`, `ApiKeysProofs` | theorems about the module each is named after |
| `PlatformProofs` | theorems about the composition, built on the lemmas of the three components |

Each component module keeps its neighbours as small environment actions that may
fire at any moment: `DeliveryCommit` in `OtpService` (dispatch and poll),
`VerifyCommit` and `PollCommit` in `Dispatch`, `VerifyCommit`, `DispatchCommit`,
`DispatchAgain` and `Carrier` in `DlrPoll`. `Platform` replaces them by the real
handlers, workers and ticks; that these do nothing the environment actions do not allow is checked
and proved for `OtpService` and `Dispatch`.

The plan the project followed, most important behaviour first, is done: `OtpRows`,
`OtpService` with its abstraction and theorems; `Dispatch`; `DlrPoll`;
`AbuseGate`; `ApiKeys`; then `Channels`, `Metrics` and `Platform`; then the theorems
about every component, and about their composition. What would come next:

1. The guesses any number of overlapping handlers get answered:
   `GuessesWithinPairBudget` is about two, and TLC finds the binomial
   (MAX + n over n) - 1 for n of them.
2. A view of `Platform` as `DlrPoll`, as there is for the other two components. The
   outcomes `DlrPoll` lets dispatch commit cover those of `Platform`; what is left is the
   refinement, with `dispatched` computed from the history of the row.
   `DeliveredIsTrue` is restated and proved for the platform by itself.

## 3. How the models correspond to the code

**Awaits are the atomicity boundary.** A handler is one asyncio task with a session
of its own. Between two awaits it is atomic for its own process, and each SQL
statement or commit is atomic for the database, so every await is a step of the
model. A copy loaded before an await is used after it (`expire_on_commit=False`,
no refresh), which is why calls carry `row` (the copy), `dirty` (the assigned
columns) and `reply`.

**`OtpService`.** `Select`/`SelectNone` are the SELECT of `_latest_active_otp`.
`Expired`, `AlreadyUsed`, `LockedOut`, `Match` and `Miss` are the branches of
`verify_otp` in its order, each guarded by the failure of the ones before
(`InTime`, `Unused`, `BelowCap` nest). `Commit` is the UPDATE with its COMMIT and
the answer; `CommitUnanswered` loses the answer; `Abandon` is a call that dies
before its commit. `AlreadyUsed` commits nothing. `hash_code` is injective, as an
HMAC is taken to be. `created_at` is the start of the issuing transaction, so it
may lie up to `RequestSpan` ticks back, while `expires_at` is read from the clock.
`verify_otp` reads the
clock twice without an await between (the TTL check and `used_at`); the two reads
fall in one tick. Rows that tie on `created_at` are returned in either order.
`wins` and `misses` record what callers were told.

**`Channels`.** `_classify`, `email_send` and `query_dlr` are the adapters' case
distinctions in their order. An answer keeps what those look at: an HTTP status
and what the body parses to, or the exception that `aiosmtplib` raised. A token
outside `_DLR_STATUS_MAP`, an empty body and a body that is no JSON are all
"unknown"; a JSON body that is no object raises `AttributeError` (`.get`).
`MayHaveTaken` and `Truthful` are the outside world: what an answer says about
whether the provider took the message, and about its fate. `Misreads` is the one
refusal the adapter cannot read: `sms.py:7-8` names an HTTP 200 with
`status: "rejected"` in the body, and `_classify` never looks at that status. Such a
message is not carried, whatever the row says afterwards (section 8).

**`Dispatch`.** `request_otp` commits the row, `Enqueue`/`EnqueueFails` publish.
`Reserve` to `Ack` are the task: the broker keeps the message until `Ack`
(`task_acks_late`), and `Crash` puts it back (`task_reject_on_worker_lost`).
`Send` picks an answer of the provider; `Accepted`, `Refused`, `Transient` and
`Raises` are what the task does with the outcome that `Channels!send` gives it.
`Retry` publishes the next attempt with the counter of `autoretry_for`; `GiveUp` is
`max_retries`. `LoadFails` and `CommitFails` are a database that raises (no
`TransientChannelError`: the task ends), `RetryFails` a broker that does not take the
next attempt. `carried`, `issued` and `misread` are the provider's memory. `dropped`
records the rows some task or request gave up without changing them: an exception in
a log, or a process that died between the row's commit and the publish. Those rows
stay PENDING for good (section 8); `PendingIsAccountedFor` and `EveryRequestSettles`
say that there are no others, not that these do not exist.

**`DlrPoll`.** `Start` takes the clock once, `Select` the batch (oldest first,
`DLR_POLL_BATCH_SIZE`), then one step per row: `Sweep` (timeout), `Receipt` (any
answer `query_dlr` returns from) or `Garbled` (the exception that aborts the
tick). `CommitAll` is the single commit. `fate` is what the carrier really did.
`DispatchCommit` and `DispatchAgain` are dispatch as the poll meets it: `tasks/dispatch.py:72`
checks the status before the send and line 138 commits after it, so a second worker
that loaded the row PENDING commits its own SENT or FAILED, with a new `sent_at` and
provider id, over whatever the row is by then. `dispatched` keeps the outcomes
committed to each row. It takes a worker lost, or taken for lost, to have a message
delivered again, so `MaxCrashes` bounds these commits together with the ticks that die.
A tick keeps of a copy only the two columns the loop reads (`Copy`).

**`Metrics`.** The aggregates of the SQL: `COUNT(column)` counts the rows whose
column is not NULL, under `WHERE sent_at IS NOT NULL`.

**`Platform`.** Every step is a step of one of the three modules, which share
`otps` and `now`. A user submits a code some provider carried, or a guess that is
never issued: `Received` is what can be read off `carried`. `ServiceView` and
`DeliveryView` are the same variables with the columns of the other components
blanked; `ServiceInContext` and `DeliveryInContext` say that seen this way the
platform is a behaviour of `OtpService`, respectively of `Dispatch`, environment
actions included. What is proved of those for every environment then
holds of the composition; `OneTimeCodeInContext` is the most of it, the platform seen
through the refinement mapping of `OtpServiceRefinement`. There is no such view for
`DlrPoll`, and `Platform` restates `DeliveredIsTrue` with the real dispatch.

**`AbuseGate`.** One action per query of `evaluate` with its early returns, then
`create_otp` or `record_blocked`. `EngineFails` is the `except` that allows the
request. If it was a statement that failed inside the open transaction (`aborted`),
PostgreSQL refuses the INSERT that follows (`create_otp_raises`); any other exception,
or one before a transaction is open, does fail open and gets a code. Blocked rows are
not counted. The denylist is
edited by a SELECT and a commit; `CommitAddRaises` is the unique constraint, and
`CommitRemove` deletes by the key it read. `slips` counts the rows admitted for a listed
value since it was listed, and apart from them those due to an engine that failed open.

**`ApiKeys`.** `find_active_by_plaintext`, then `SkipTouch` inside the debounce
window or `touch_last_used` and `CommitTouch`; `revoke` and `CommitRevoke`. A commit may
fail, or the request may be abandoned before it (`CommitTouchFails`, `CommitRevokeFails`),
and one that reached the table may lose its answer, which turns the request away all
the same (`TurnAway`). `late` counts requests let in since the revocation, `touches` the
writes of each value of `last_used_at`.

## 4. Runs

State counts are TLC's distinct states, with symmetry where the run has no
liveness property (keys, codes, handlers and provider ids are interchangeable: no
action orders them and no property names one).

| Run | Instance | Result | What it shows |
|---|---|---|---|
| `OtpSerial` | 1 handler, 2 rows of 1 recipient, 2 codes, cap 2, life 2, clock 0..3, delivery tasks write DELIVERED | holds, 607 737 states | served serially, `verify_otp` implements `OneTimeCode` though used, expired and locked rows come back to life; every miss is counted, nothing is accepted late, twice or after lockout |
| `OtpOverlap` | 2 handlers, 1 row, as above | holds, 70 521 | what is left under overlap: the column never passes the cap, one acceptance per handler, acceptances stay durable, at most 2 + 3 + ... + (MAX + 1) guesses, refused rows untouched |
| `OtpDoubleAccept` | 2 handlers, 1 row, no delivery tasks | violated | finding 1 |
| `OtpLostMiss` | same | violated | finding 2 |
| `DispatchFaults` | 1 row by SMS or e-mail, 2 workers, 1 retry, 16 kinds of answer, failed enqueues, loads, commits and retries, 1 crash or replay, 4 provider ids, `verify_otp` and poll writing, `FairSpec` | holds, 456 736 | no message is lost unnoticed, a row says SENT only after an answer that means it or the one refusal the adapter misreads, the stored id is the row's own, sends are bounded, every row settles |
| `DispatchDoubleSend` | the same with answers that tell what happened | violated | finding 3 |
| `PollSerial` | 1 poller, 2 rows, batch 1, timeout 0, clock 0..2, 10 kinds of answer, `verify_otp` meanwhile, 1 tick that dies or 1 redelivered dispatch that sends or fails a row again, `FairSpec` | holds, 275 342 | DELIVERED is never a guess and FAILED always has a reason, also on a row sent again under another id; `in_flight` falls short by at most one per row dispatch committed twice; receipts of the other rows are written once; nothing that the poll can ask about stays SENT, even behind an older row whose answer aborts every tick |
| `PollWedged` | 1 poller, 1 row, `FairSpec` | violated | finding 4 |
| `Platform` | 1 row, 1 handler, 1 worker, 1 poller, 1 code and a wrong guess, 2 provider ids, 1 redelivery, cap 1, life 1, timeout 0, clock 0..1 | holds, 155 221 | nobody is verified without a code that was carried; `verify_otp` and dispatch see of the others only what `OtpService` and `Dispatch` allow them; the counts of the dashboard never fall; seen from outside, the whole is a one-time code |
| `AbuseDenylist` | 2 gates, 2 administrators, 1 recipient, 1 address, 3 rows, engine may fail, clock fixed | holds, 322 527 | besides requests whose engine failed open, only those under way when a value was listed slip through, one per handler; a removal decided before a listing does not undo it |
| `AbuseCaps` | 2 gates, 4 rows, 1 address, caps 1/2/1, windows 2 and 3, clock 0..4 | holds, 566 432 | a window holds at most the cap plus one row per further handler; refusals do not compound |
| `KeysOverlap` | 1 key, 3 requests, 2 revocations, debounce 2, clock 0..3 | holds, 564 653 | revocation is immediate but for requests under way, and final; a debounce window of overlapping requests sees at most 3 + 2 + 1 writes |

Why the bounds are enough. The properties are about one row, or about two rows of
one recipient competing to be the latest, so two rows suffice; overlap needs two
handlers, and a third only adds one more stale copy of the same kind. A cap of 2
has a miss that does not lock and one that does; a life of 2 inside a clock of 3
lets a call load in time and decide or commit late. In `Dispatch` one retry
separates "again" from "exhausted", one redelivery on top of a retry and two
workers gives every duplicate, and four provider ids cover the four sends those
allow. The answers of `MCDispatch` and `MCDlrPoll` are one of each kind the
adapters tell apart. In `Platform` one redelivery gives a row two messages; two workers
that both hold it PENDING, so that the second commit replaces the first one's id, are
more than TLC can finish there and are left to `DispatchFaults`, to `DispatchAgain` in
`PollSerial`, and to the proofs. A timeout of 0 within a clock of one tick lets the
sweep, the TTL and the clock reads of the components fall on either side of each other; overlap within a
component is left to that component's own run. The batches are of one row;
`ServiceInContext` and `DeliveryInContext` are proved for batches of any size
(`DeliveryCommit` and `PollCommit` write the rows of a set at once). In `DlrPoll` a
batch of one with two rows is the smallest batch that can starve; that a garbled body
throws away what the tick decided about other rows takes a batch of two and is covered
by the proofs alone. A row is only sent while the clock has room for it to time out
(`InGoodTime`), so that the bounded clock does not by itself keep a row in SENT; a
timeout of 0 is one shorter than a tick of the clock, and the theorems are about every
timeout. One commit over a finished row is enough to have it polled and
stamped again. Provider ids are given out in a fixed order (`NextId`). `PollSerial` has
no rows without an id, which the poll never selects: they are finding 4. In `AbuseCaps` the
clock outlasts the longer window and there is one row more than the largest
number the bound allows, so the bound could be passed. `AbuseDenylist` does
without a clock because no denylist rule reads one. `KeysOverlap` has three
requests because three tell the bound n(n + 1)/2 on the writes of a window apart
from 2n - 1. `CHECK_DEADLOCK FALSE` stands where clients, operators and
administrators may simply stop.

### Fairness

`Dispatch!FairSpec` assumes that requests get to their enqueue (or fail) and that
workers keep taking the next step of a message they can take: Celery worker
processes are long-lived and restarted, and every adapter call has a timeout.
Crashes are not assumed to stop by fairness; their number is bounded by
`MaxRedeliveries`. `DlrPoll!FairSpec` assumes that time passes and that Beat goes
on starting ticks that run. Nothing is assumed of providers, carriers or users.
The bound on the clock and weak fairness of `Clock` together say only that time
passes far enough for every row to time out.

## 5. Proofs

Every theorem holds for every number of rows, recipients, codes, handlers, workers,
pollers, administrators and keys, every cap, window, batch, timeout and clock
bound, and any set of answers the providers may give. Each module proves an
inductive invariant (`Invariance`, or a stronger one next to the theorems that need
it), and the listed theorems follow from it.

| Module | Theorem | States |
|---|---|---|
| `OtpServiceProofs` | `TypeCorrect` | type correctness |
| | `AttemptsCapped` | `attempt_count` never passes `MAX_OTP_ATTEMPTS` |
| | `NeverUsedLate` | `used_at < expires_at` |
| | `AcceptancesDurable` | who was told verified=True finds `used_at` set, for ever |
| | `OncePerHandler` | a handler accepts a code at most once |
| | `SingleUseWhenSerial` | one handler: a code is accepted at most once |
| | `MissesCountedWhenSerial` | one handler: no wrong guess is answered uncounted |
| | `LockoutHoldsWhenSerial` | one handler: no acceptance after the last allowed miss |
| | `BlockedRowsInert` | the audit row of a refused request is never reached or changed |
| | `GuessesBoundedForPairs` | two handlers: at most MAX(MAX + 3)/2 wrong guesses are ever answered |
| `OtpRefinementProofs` | `OneTimeCodeWhenSerial` | one handler: `OtpService` implements `OneTimeCode` |
| `DispatchProofs` | `TypeCorrect` | type correctness |
| | `NothingIsForgotten` | a PENDING row has a message on its way or was given up by its task or request |
| | `SentIsTrue` | SENT and `sent_at` only after a provider took a message, or refused it in an answer read as a success |
| | `ProviderIdsAreOwn` | the stored provider id was issued for the row |
| | `SendsBounded` | a code is carried at most `MaxRetries + 1` times, and as often again for every crash or replay |
| `DlrPollProofs` | `TypeCorrect` | type correctness |
| | `ReceiptsAreTrue` | `delivered_at` only on a row one of whose messages was delivered |
| | `FailuresAreDeserved` | `failed_at` only for a refused, failed or timed-out message of the row |
| | `DashboardNearlyAddsUpWhenSerial` | one poller: `in_flight` falls short by at most one per row dispatch committed more than once |
| | `WriteOnceWhenSerial` | one poller: receipts of a row dispatch committed once are written once |
| `AbuseGateProofs` | `TypeCorrect` | type correctness |
| | `DenylistWorks` | a listed value gets at most one row per handler, besides one per request whose engine failed open |
| | `ListingsOutlive` | a value leaves the denylist only by a removal that read its present entry |
| | `RefusalsDeserved` | a rate refusal is backed by admitted rows |
| | `RateCapsWork` | while the engine does not fail open: a window holds at most the cap plus one row per further handler |
| `ApiKeysProofs` | `TypeCorrect` | type correctness |
| | `RevocationWorks` | after a revocation one late request per handler at most |
| | `RevokedForGood` | no step brings a revoked key back |
| | `TouchesDebounced` | a debounce window of n handlers sees at most n(n + 1)/2 writes of `last_used_at` |
| `PlatformProofs` | `TypeCorrect` | type correctness of the three components on one table |
| | `CodesWereCarried` | a verified row's code was carried by some provider |
| | `DeliveriesAreTrue` | `delivered_at` only for a row one of whose messages was delivered |
| | `MetricsNeverShrink` | no count of `GET /otp/metrics` goes down |
| | `ServiceInvariantsHold`, `DispatchInvariantsHold` | the invariants proved of `OtpService` and `Dispatch` with stubs for the others hold in the platform |
| | `ServiceRefines`, `DeliveryRefines` | the platform implements `OtpService` and `Dispatch`, stubs included |
| | `PlatformIsOneTimeCode` | one handler: the platform implements `OneTimeCode` |
| | `SerialCallsInContext` | one handler, in the platform: single use, no uncounted miss, lockout |
| | `GuessesBoundedInContext`, `SendsBoundedInContext` | the bounds on guesses (two handlers) and on sends hold in the platform |

Assumptions: those the modules declare on their constants (a cap and a life of at
least 1, NULL no value, phones among the recipients, statuses the neighbours may
write, finite sets of handlers where they are counted). TLC evaluates them in the
passing runs. "One handler" and "one poller" are the hypothesis
`\A s, t \in Sessions : s = t` of the theorem, not a change of the model; so are "two
handlers" (`Sessions = {a, b}`) and `~EngineMayFail` of `RateCapsWork`.

**`OtpService`.** A commit writes what a decision took from a copy, and nothing in
the safety properties says what the copy has to do with the row. `IInv`
(`OtpServiceProofs`) adds
- `CopyIsFaithful`: a copy's `expires_at` is the row's (no handler assigns it), and
  if this handler has already accepted the row, the copy shows `used_at`;
- `DecisionIsSound`: a count about to be written is within the cap, a `used_at`
  about to be written is before the copy's `expires_at`, and a verified=True about
  to be answered writes `used_at` and was decided on an unused copy.

A copy's other columns may be stale and the proof never uses them, which is
exactly why single use and the attempts cap hold per handler and not per row. With
one handler they are not stale: `SInv` adds that the copy's `attempt_count` is the
row's and that a decision counts from it, which gives `MissesAreCounted` and the
lockout. `BInv` adds to `IInv` that a call works on no BLOCKED row and never assigns
BLOCKED, which gives `BlockedIsInert` for any number of handlers.

`GuessesBoundedForPairs` counts what the two handlers can still get answered. A row
with x misses on it has (MAX - x)(MAX - x + 3)/2 to give (`Twice`, doubled) as long
as no call holds an older count; a handler that read p while the row says more can
write p + 1 back once, and `Worth` is what that is worth. `WithinBudget` says that
`misses` and the worth of the row with both copies never exceed the whole budget;
each answered miss pays for itself, and loading a fresh copy costs nothing.

**Refinement.** `RInv` adds to `SInv` that the copy's `used_at` is the row's, that
the call works on no BLOCKED row, and that a guess is judged on an unused copy
below the cap. `StepSimulates` then takes each action: issuing is `Issue` or
`IssueDead`, a commit `Accept`, `Miss`, or an expiry with nothing else, and a
clock tick, a call that dies and the end of an expired call are `Expire` of the
codes that became too old.

**`Dispatch`.** `DInv` says that a busy worker holds a message of a row of the
table (`WorkerShape`), that what a worker is about to write has happened at the
provider (`OutcomeIsTrue`), and that a PENDING row is awaited: by a request, a
message, a task that has yet to end, or in `dropped`. A task that is about to ack
does not count (`Works`), which makes this stronger than `PendingIsAccountedFor`
and is what lets `Ack` be proved. Messages are a bag; the lemmas `PublishType` and
`TakeType` say what adding and removing one does to its members.

`SendsBounded` gives every message a stock of attempts: one of `retries = k` stands
for `MaxRetries - k + 1` of them. `Counted` adds up the sends so far, the attempts
left in the queue (a bag: each copy counts) and those left in the hands of workers,
per row; a request, a crash or a replay adds one full chain, a retry passes the rest
of its chain on, and a send uses one attempt up.

**`DlrPoll`.** `PInv` says that what a row bears of a send is of some outcome dispatch
committed to it (`RowIsDispatched`), that so are the `sent_at` and the provider id a tick
has seen (`SeenWasDispatched`: the row may bear others by now), and that the columns a
tick has assigned are those of a true receipt of such a message or of one past the
timeout (`AssignedIsDeserved`). Outcomes are only ever added and the carrier decides
once (`PastHolds`), so a commit however late writes the truth. With one poller
`QInv` adds, for the rows dispatch committed once (`SentOnce`), that they have at most one
receipt, none while SENT, and none while the current tick has them; under overlap the
last is false. A second outcome may come over a finished row: `ReceiptsNearlyAddUp`
counts what the dashboard then gets wrong, one for each such row.

**`AbuseGate`, `ApiKeys`.** Both invariants count handlers. `SlipBudget`: the rows
that slipped through for a listed value, less those of an engine that failed open, and
the handlers already past its lookup, together never exceed the handlers; admitting a
row moves one unit from the second to the first, or adds to the rows failed open.
`LateBudget` is the same for a key's late requests and the handlers that hold it. `RateRefusalsAreDeserved` is inductive with the type invariant,
because the rows counted since an instant only grow in number.

`RateCapsWork` extends this to windows. For every rule, every value and every
instant t, the codes whose `created_at` lies in the window from t on, together with
the open requests that passed the rule and whose transaction began in that window,
never exceed the cap plus the other handlers (`WindowBudget`). A request joins only
at a query that counted less than the cap, and `CountCoversWindow` shows that this
query saw every code of the window: a transaction is open for at most `RequestSpan`
when `evaluate` takes its clock, which is why the windows are shorter by that much.
Issuing the code moves one unit from the requests to the codes. The theorem assumes
`~EngineMayFail`: an engine that fails open lets any number through.

`TouchesDebounced` uses a potential. For each key, each instant t and n handlers,
`WindowCounted` says `2 * |Stamped| + ToCome <= n(n + 1)`, where `Stamped` are the writes
in the window from t on and `ToCome` is twice the writes that may follow. A handler that
carries a stamp from before t (a reopener) can commit it over a later one and so open
the window again for everybody else; x of them still allow x(2n - x + 1)/2 writes
(`Reopened`). Besides those, an open window allows one write to each of the other
n - x handlers, and a closed one only to the handlers that hold an old copy of the key
or a stamp of the window (`Writers`).

**`Platform`.** The proofs of the three components are used, not repeated: their
modules are instantiated on the platform's variables, with stubs that write nothing
(`DeliveryStatuses <- {}` and so on), and the `Same*` lemmas say that the actions
`Platform` is built from are those the lemmas are about. Each component module states
what the others may write without disturbing its invariant (`OthersWrite`), and what
it writes itself (`ServeVerifies`, `WorkDispatches`, `PollWrites`): the columns are
disjoint but for the status. `PlInv` joins the three invariants to what only the
composition knows: the code a call was given is a wrong one or was carried
(`CodeIsKnown`), the provider id a tick has seen was issued for that row
(`SeenIsOwn`; it need not be the id the row bears by the commit), and a receipt
about to be written is of one of the row's messages (`AssignedIsTrue`). `Onward`
says what a step never undoes (a column that is set, a message carried or delivered)
and gives both these and the metrics, whose sets only grow.

`ServiceRefines` and `DeliveryRefines` follow from that invariant, step by step
(`StepsSeen`). `WithoutDelivery` and `WithoutVerification` blank the columns a component
does not know; the lemmas `ServiceFlush` and `DeliveryFlush` say what a commit of each
kind then looks like: itself, a change of the status, a receipt, or nothing. A batch of
a tick is cut down to the rows of which something is seen (`ServiceSeesBatch`,
`DeliverySeesBatch`), and its clock is one `PollCommit` may stamp because
`ticks[w].started <= now` is part of `PlInv`. The theorems of the components are then
theorems about the views (`ServiceProved`, `DeliveryProved`), which is how
`PlatformIsOneTimeCode` and the counting bounds are had without repeating their proofs.

Only model-checked: liveness (`EveryRequestSettles`, `PolledRowsSettle`), which with
ENABLED is beyond the prover, as any statement by induction over data would be.

## 6. The abstraction

`OneTimeCode` knows neither rows, clocks nor handlers: a code is issued, accepted
at most once, guessed wrong at most `MaxTries` times, and is dead from then on or
when it has grown too old. `OtpServiceRefinement` maps to it without reading the
status column except for BLOCKED: `used_at`, `attempt_count` and `expires_at`
decide, as `models/otp.py:16-17` says. A guess judged in time and committed after
`expires_at` keeps its code live until the commit (`JudgedInTime`).

## 7. Findings

1. Two overlapping `verify_otp` calls accept one code twice (`OtpDoubleAccept`,
   `services/otp_service.py:231`).
2. Overlapping misses overwrite `attempt_count`, and more than `MAX_OTP_ATTEMPTS`
   wrong guesses are answered (`OtpLostMiss`, `services/otp_service.py:269`).
   `GuessesWithinPairBudget` bounds them for two handlers.
3. A redelivered message is sent again when the first send was not yet committed
   (`DispatchDoubleSend`, `tasks/dispatch.py:83`), against `src/docs/decisions.md:322`.
   `SendsAreBounded` is what holds instead.
4. An SMS accepted without a message id stays SENT for ever: the poll's WHERE
   leaves it out, timeout sweep included (`PollWedged`, `tasks/dlr.py:111`),
   against `src/docs/decisions.md:78`.

## 8. Divergences the models contain without a run of their own

These are behaviours of the modelled code that differ from what a comment or a
document says; the actions named show them, and the runs check what holds in spite
of them.

| Code | What is said | What the model does |
|---|---|---|
| `services/otp_service.py:239-252` | "We never overwrite history" (`models/otp.py:6`) | `Expired` or `LockedOut`, decided on an older copy, is committed over the VERIFIED of another call; `used_at` survives (`AcceptanceIsDurable`) |
| `tasks/dispatch.py:138` | VERIFIED, EXPIRED and BLOCKED are terminal (`services/otp_service.py:189`) | `Dispatch!Commit` writes SENT over VERIFIED; single use survives (`AcceptedOncePerHandler`, `ImplementsOneTimeCode`) |
| `tasks/dispatch.py:138` | `delivered_at` and `failed_at` are "write-once" (`src/docs/decisions.md:42`) | the status is checked when the row is loaded, not when it is committed: `DispatchAgain` writes SENT, with a new provider id, over a row the poll has finished, and the next tick of the one poller writes `delivered_at` a second time, or `failed_at` beside it; `WriteOnceUnlessRedispatched` and `MetricsNearlyAddUp` are what holds |
| `services/channels/sms.py:224` | an HTTP 200 with `status: "rejected"` in the body is a quirk "the adapter translates" (`sms.py:7-8`) | `_classify` takes every 2xx for an acceptance: the refused message is committed as SENT (`Misreads`) and, if the body names an id, polled until the sweep fails it; `SentWasAnswered` says that no other refusal, and no lost answer, ends so |
| `tasks/dispatch.py:150` | PENDING is "created, not yet sent (queued)" (`models/otp.py:49`) | after `GiveUp` the row stays PENDING with nothing queued; it is in `dropped` (`PendingIsAccountedFor`) |
| `tasks/dlr.py:176` | receipts only move a row from SENT (`tasks/dlr.py:19-22`); "write-once" (`src/docs/decisions.md:42`) | `CommitAll` turns VERIFIED into DELIVERED or FAILED, and overlapping ticks stamp a row twice without any redelivery, which is why `WriteOnceUnlessRedispatched` is checked and proved for one poller |
| `tasks/dlr.py:149` | `delivered_at - sent_at` is a latency (`services/otp_service.py:301`) | a row sent between `Start` and `Select` gets a `delivered_at` before its `sent_at` |
| `services/otp_service.py:313` | "write-once, so counting their non-null occurrences gives a stable delivery picture" | the counts never fall (`MetricsAreStable`), but a message `dispatch` failed has no `sent_at` and is in none of them, and a row with both receipts counts twice, so that `in_flight` falls below the truth: after a redelivered dispatch (`MetricsNearlyAddUp`, for one poller), and when ticks overlap |
| `services/channels/email.py:112` | "4xx response: transient (e.g. greylisting)" (`email.py:14`) | `email_send` ends every `SMTPRecipientsRefused` as REJECTED, whatever its codes |
| `services/channels/sms.py:258` | "any other 4xx" is REJECTED | `_classify` also rejects a 3xx (httpx follows no redirect by default) |
| `services/channels/sms.py:214`, `:198` | "never fatal", "every error path returns a non-terminal status" | JSON that is no object raises: the send is given up (`Raises`), the tick is lost (`Garbled`) |
| `schemas/otp.py:45` | recipients are "normalized downstream" | they are compared as they come: each accepted spelling is a recipient |
| `services/abuse/engine.py:156` | hour, day and address caps (`engine.py:11`) | overlapping requests pass together (`RateCapsNearlyHold`) |
| `services/abuse/engine.py:202-208` | "fails OPEN" (`src/docs/decisions.md:52`) | after a failed statement the INSERT is refused (`create_otp_raises`); any other exception does fail open, also for a listed value (`DenylistHolds` counts those apart) |
| `services/abuse/engine.py:71-84` | idempotent add | two adds at once: the second meets the unique constraint (`CommitAddRaises`) |
| `services/abuse/engine.py:195` | a neutral score is not anomalous (`ml.py:34`) | with the threshold 0 that `config.py:110` allows, `Score` refuses everyone |
| `services/api_key_service.py:123` | at most one touch per window | requests that read the key together all write (`CommitTouch`); `TouchesAreDebounced` bounds them |
| `services/api_key_service.py:137` | the original `revoked_at` is preserved | the later of two overlapping revocations replaces it (`CommitRevoke`) |

## 9. Not modelled

- `get_otp`, `otp_status` and the list endpoints: they read one row or one table.
  The rate and the average latency of `delivery_metrics` are arithmetic on the
  counts that `Metrics` models.
- The verdict of the abuse engine inside `Platform`: a refused request leaves a
  BLOCKED row, which `BlockedIsInert` shows is never touched again.
- Randomness of `generate_code` and strength of the hash: a code is any member of
  `Codes`, hashes are injective.
- Message texts, templates, payloads, logging, application wiring: no state of
  their own. Request schemas (`schemas/`) reject malformed input before anything
  is read or written; the models start from accepted input.
- Back-off delays and Celery's result backend: a message may be taken at any time
  after it is published, which covers every delay.
- Connection pools: they delay a query and change none.
- Alembic migrations (run before the program) and the frontend (a client).
