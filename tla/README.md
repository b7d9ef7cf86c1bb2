# Verification of nodeflow-api

TLA+ models of the Nodeflow API and its workers, the TLC runs that check them on
small instances, and TLAPS proofs for every value of the constants. Paths below are
relative to the repository (`src/...` is its source directory).

## 1. The system

Two Node.js processes share PostgreSQL and Redis and nothing else. The **API**
validates requests, writes rows and adds entries to BullMQ queues. The **worker
process** takes entries, runs processors with a concurrency of 5 (jobs), 10
(webhooks) and 3 (files), writes outcomes back and emits Socket.io events through
Redis. No transaction spans two stores, and several worker processes may run.

| Component | State | Operations | Talks to | What makes it correct |
|---|---|---|---|---|
| Job service (`services/jobs.service.ts`) | `jobs`, `job_logs` rows | `createJob`, `cancelJob`, `updateJobStatus`, `addJobLog`, `incrementAttempts`, reads | job queue | a cancellation is final; row, log and queue agree once a job rests |
| Job worker (`workers/index.ts` 22-74) | what each slot is doing | processor with try and catch block, rethrow | job service, handlers, emitter, `dispatchEvent` | bounded executions, attempts counted once, one verdict, every job ends |
| Queues (BullMQ, `queues/index.ts`) | entries with attempts, stalls, lock | add, take, acknowledge, retry, stall, remove, trim | Redis | external: its contract is modelled |
| Webhook service and worker (`webhooks.service.ts`, `workers/index.ts` 75-180) | `webhooks`, `webhook_deliveries` rows | create, update, delete, `dispatchEvent`, dispatch processor | webhook queue, breaker, endpoints | bounded posts, no false DELIVERED, every wanted delivery is judged |
| Circuit breaker (`lib/circuit-breaker.ts`) | a counter per URL with a time to live | `recordSuccess`, `recordFailure`, `isCircuitOpen` | Redis | opens at the threshold, closes after the timeout |
| Files (`files.service.ts`, `lib/storage.ts`, `workers/index.ts` 181-237) | content on disk, `files` rows, queue entries | upload, delete, download, file processor | disk, file queue, `dispatchEvent` | a visible file has content; a deleted one stays deleted |
| Idempotency (`middleware/idempotency.ts`) | `idempotency_keys` rows | look up, handle, reply, store | every v1 handler | a duplicate has no second side effect |
| Rate limiter (`middleware/rate-limiter.ts`) | a counter per client with a time to live | count, admit or refuse | Redis | no more than the limit per window; refused clients get in again |
| Cursor pagination (`listJobs`, `listWebhooks`, `listWebhookDeliveries`, `listFiles`) | the client's cursor | next page | PostgreSQL | a scan lists every lasting row exactly once |
| Socket.io feed (`socket/`, the client in `docs/demo/script.js`) | rooms, events under way, what a client shows | emit, subscribe, unsubscribe, forward, read | Redis | what a client shows in the end is the row's verdict |
| API keys (`middleware/auth.ts`, `api/v1/api-keys.ts`, the bootstrap route and script) | `api_keys` rows | create, list, revoke, authenticate, touch `lastUsedAt`, bootstrap | PostgreSQL | an expired or revoked key admits nothing; revocations agree with the table |
| HTTP layer, configuration, logging, Swagger, deployment | none | | | not modelled |

What is hard here: two writes to two stores with a crash in between; checks made
before an `await` and relied on after it (`cancelJob`, the file processor, the
breaker, the idempotency lookup); BullMQ handing out an entry again after a crash;
two counters of attempts; catch blocks that catch errors from behind the point of
success; pairs of Redis calls that belong together; writes and publishes that nobody
awaits (events, `lastUsedAt`, stored replies); three ways on which a client learns of a
status, in any order. `PROJECT.json` lists each of
these under `hazards` at its line.

## 2. Modules

| Module | Role |
|---|---|
| `BullQueue` | one queue entry as operators: `Add`, `Take`, `Complete`, `Fail`, `Stall`, ... Extended by every component with a queue |
| `JobLifecycle` | composes the job service, the worker's slots and the queue |
| `JobContract` | the abstract lifecycle, without queue, slots and log; `JobLifecycle` implements it through `statusBar`, `triesBar`, `acceptedBar` |
| `JobFeed` | composes `JobLifecycle` with the publishes of the worker, the rooms of the API process and the clients in them |
| `JobLifecycleProofs` | theorems of `JobLifecycle` and `JobFeed`, and the refinement of `JobContract` |
| `CircuitBreaker`, `CircuitBreakerProofs` | the breaker of one URL, call by call, with a clock; its theorems |
| `WebhookDelivery`, `WebhookDeliveryProofs` | webhook service, `dispatchEvent`, dispatch processor, queue, and the breaker as a counter that may expire at any time; its theorems |
| `FilePipeline`, `FilePipelineProofs` | upload, delete, download, file processor, queue and disk; its theorems |
| `Idempotency`, `IdempotencyProofs` | duplicates of requests through the middleware; its theorems |
| `RateLimiter`, `RateLimiterProofs` | the concurrent requests of one client; its theorems |
| `CursorPagination`, `CursorPaginationProofs` | a scan over a table that changes; its theorems |
| `ApiKeys`, `ApiKeysProofs` | requests behind `requireApiKey` that create, list and revoke keys; its theorems |
| `JobLifecycleMC`, `JobFeedMC`, `WebhookDeliveryMC`, `IdempotencyMC`, `ApiKeysMC` | values of function constants, and symmetry, for TLC |

### How state and actions correspond to the code

**One action per awaited call.** Between two `await`s JavaScript runs without
interruption, so what lies between them is one step, and everything else may
interleave at each `await`. A processor is a program counter per slot, `run[s].pc`,
whose values name the awaited call that comes next. An awaited write may *reject*,
and then it may or may not have reached the database: `Reject` in `JobLifecycle`,
`UpdateRow` in `WebhookDelivery`, `Await` in `FilePipeline`. A rejection in the try
block leads to the catch block and one in the catch block leads out of the
processor, as in the source.

`JobLifecycle`
: `CreateRow`, `Enqueue`, `AbortPost` are `createJob`. `CancelRead`, `CancelLookup`,
  `CancelRemove`, `CancelUpdate`, `CancelAbort` are the four calls of `cancelJob`;
  its status check happens only in the first. `TakeJob` starts the processor;
  `MarkRunning` to `AnnounceDone` are its try block, `Count` to `AnnounceFailed`
  its catch block, `Ack` and `Nack` its return and its rethrow. An outcome is
  recorded only if the slot still holds the entry's lock. `row.logs` keeps which
  messages were written, `announced` the calls of `dispatchEvent`; `starts` is a history variable.
  `faults` counts each kind of fault, and under `early` the cancellations of jobs
  whose POST has not answered yet (a client can see such a job in `GET /v1/jobs`).

`JobContract`
: status, processor runs, counted tries and announced verdicts of a job. `lost`, the
  number of worker processes that died, is part of the contract: each may cost a run
  more, and only after one may a job leave SUCCEEDED or FAILED for RUNNING. Every step
  of `JobLifecycle` maps to one step of the contract or to none.

`JobFeed`
: `ProcessAndEmit` is a step of `JobLifecycle`'s slot with the event that follows it:
  `emitJobUpdate` comes behind an awaited log message, in the same turn. `bus` holds
  the events between the worker and the clients; the way through Redis and the one from
  the API process to a socket are one queue, which delays as both do. A dying worker
  takes the last events it published along (`CrashUnsent`), and Redis keeps nothing for
  an API process that reconnects (`LoseEvent`). `subscribe` and `unsubscribe` are the
  socket handlers: a socket joins its room when it connects, the automatic reconnect
  included, without reading anything, and leaves it when it unsubscribes or loses its
  connection, which changes nothing on the page. `Forward` is the `job:status` handler
  with `updateActiveMonitorUI`. `monitorJob` blanks the page and sends the client's GET,
  `getJob` is the server's reading of the row, and `connectWebSocket` shows the answer,
  over whatever was heard meanwhile, and replaces the socket; when the GET fails
  (`monitorFailed`) the old socket stays. A status of which a later event passed the
  client by is `UNSURE`: the event was lost, came while no socket of the client was in the
  room, or was heard and then overwritten by an older answer. The page shows such a
  status as any other and does nothing about it; the mark keeps apart what the code can
  promise. One GET is under way at a time, and the client is taken to reach the server
  (see docs/demo/README.md:7 below).

`ApiKeys`
: a request is `Arrive`, then `FindKey` (`findUnique` by hash), `Check` (expiry, the
  user, the start of the update of `lastUsedAt`), then its handler: `Create`, `List`, or
  `FindTarget` and `Delete`. `Touch` is the end of the update that no one awaits.
  `Fail` is a rejected call or a process that dies, after which the write may be there.
  A raw key, its hash and its row are one value of `Keys`. `late` remembers of a request
  whether its key was revoked or expired when it was sent. The source creates no users
  but `usr_dev_123`, so the first keys of another user are in the initial state.

`WebhookDelivery`
: `FindWebhooks`, `CreateDelivery`, `AddDelivery` are the three calls of
  `dispatchEvent`; deleting a webhook takes its delivery rows along, as
  `onDelete: Cascade` does. `Read` to `MarkFailure` follow the processor; its catch
  block is entered from the request and from the update behind it.
  `wanted` remembers the deliveries whose webhook has been active since the event
  looked for webhooks. `getWebhook` and the write of `updateWebhook` or `deleteWebhook`
  are one step: the write does not use what was read, and where the webhook is deleted in
  between it rejects and changes nothing, as the 404 does. The URL of a webhook is the
  constant `UrlOf`; an update of it would choose another failure counter, and no property
  depends on which. Every webhook subscribes to `*`. `changes` bounds the PUT and
  DELETE requests.

`CircuitBreaker`
: `recordFailure` is INCR, `ExpireKey` the PEXPIRE behind it. `Tick` is the clock;
  no tick falls between the two calls, which are milliseconds apart against a
  timeout of five minutes. A slot's HTTP call may take any time. Behind
  `recordSuccess` the slot is idle, or in its catch block ("catch") when the update of the
  row rejects, from where it counts a failure.

`FilePipeline`
: disk, row and entry are `blob`, `row`, `entry`. `overlap` remembers the files that
  got a delete request before their processing was over. `faults.uncaught` counts the
  calls of the processor that rejected where its catch block cannot report them: the
  read before the try block, and the calls of the catch block itself. The calls of a
  download may reject any number of times (`error`); they change nothing. `missing` is
  the ENOENT of `LocalStorageProvider.download` alone.

`Idempotency`
: `Answer` sends the reply and starts the store in one go, since `res.json` calls
  both without an `await`; `Store` is the commit, where the unique index rejects a
  second row. Rows are kept per key: the middleware runs ahead of `requireApiKey`
  (`src/api/v1/index.ts:48`), so the user part of the index is always `anonymous`.

`RateLimiter`
: `Incr` and `Expire` are the two Redis calls, `Decide` the comparison; the clock's
  `Tick` may fall between any two of them. The counter
  saturates above the limit at `MaxCount`, where it makes no further difference.
  `admitted` remembers of every admission in the window its age and the count it got.

`CursorPagination`
: `After` is the `where` clause, `Before` the `orderBy`, `First` the `take`, `list` one
  request. `Enter` and `Leave` are inserts, deletes and changes of filtered columns.

### Abstractions

Payloads, results, log metadata, HTTP headers and signatures carry no state the
properties look at. Delays (backoff, lock duration, stalled interval) end at any
later step, and waiting entries are taken in any order: this covers every timing
and priority. In `FilePipeline` and `WebhookDelivery` live slots keep their locks;
`JobLifecycle` also lets them lose one. `FeedTellsVerdict` is about slots of one process
(`OneWorker`), as `docker-compose.yml` has one worker container: two processes publish on
two connections, whose events may overtake each other. What BullMQ does is modelled from version
5.78.1 (`package-lock.json`) as the source uses it and is marked external.

## 3. Runs

Histories and faults are bounded by constants named `Max...`; each bound is an
assumption of that run only, and the theorems of section 5 do without.

| Run | Bounds | Checks |
|---|---|---|
| `JobFaults` | 1 job, 2 attempts, 2 slots in 2 processes, 1 cancel, 2 crashes, 1 of each other fault, 1 early cancel | `TypeOK`, `BoundedExecutions`, `LockProtects`, `SettledAgreement`, `CancelledIsFinal`, `CancelledNeverStarts` |
| `JobRecovery` (`JobFeed`) | 1 job, 2 attempts, 1 slot, 1 cancel, 1 crash, 1 viewer, 1 lost event, fair | `FeedTellsVerdict`, `EventuallySettles`, `ImplementsContract` |
| `Breaker` | 3 slots, threshold 5, timeout 3 ticks, 1 lost call of each kind, fair | `TypeOK`, `KeyExpires`, `BoundedOvershoot`, `OpenAtMostReset`, `Closes` |
| `Hook` | 1 event, 1 webhook, 2 slots, 3 attempts, threshold 1, 2 changes, 2 crashes, 2 rejected calls, fair | `TypeOK`, `BoundedPosts`, `SettledDelivery`, `DeliveredWasAccepted`, `AttemptsNeverLag`, `VerdictIsFinal`, `EventuallyJudged` |
| `Files` | 1 file, 2 slots, 2 deletes, 1 download, 2 attempts, 1 crash, 2 rejected calls, fair | `TypeOK`, `VisibleHasContent`, `DownloadMissesOnlyDeleted`, `SettledFile`, `NothingLeftBehind`, `EventuallyProcessed` |
| `Replays` | 4 requests with a key and 1 without, 1 fault | `TypeOK`, `ReplaysAgree`, `StoredEndsEffects` |
| `Limiter` | 3 requests, limit 3, window 4 ticks, 1 lost call, fair | `TypeOK`, `TwiceTheLimit`, `Unblocks` |
| `Pages` | 6 rows of 2 ages, pages of 2 | `NoRowTwice`, `NothingSkipped`, `ScanEnds` |
| `Keys` | 3 keys, 2 users, 3 requests, 1 fault, keys and requests symmetric | `TypeOK`, `RevokedAdmitsNothing`, `RevocationsAgree`, `LockedOutForGood` |

Why the bounds are enough for what they show: two slots let a redelivered entry be
processed beside its first processor; a cancel races with a slot and with the POST;
two attempts have a first and a last try;
four requests with one key are two that run beside each other and two that get their
copies, and a third attempt of a delivery follows one that found the circuit open; two crashes, or a crash and
a lost lock, exceed `maxStalledCount`. In `JobRecovery` two attempts
and a crash bring up to three RUNNING events before a verdict, and the viewer reads,
replaces its socket, loses its connection, joins again and loses one event between any two
of them. Three keys and three requests are a key that creates another, or
two revocations of one key, with one more request of either key around them. With a threshold of 1 the first refusal opens
the circuit, so the retry of a delivery finds it open. `Hook` has one webhook: a
delivery shares nothing with another one but the failure counter, which may also
expire at any time, and the loop of `dispatchEvent`, whose rejection the model keeps;
two webhooks are more states than a run has time for. Hence its liveness shows that a
delivery whose request ends is judged, and does not exercise several deliveries that
compete for the slots a hanging endpoint has left.
Deadlock is not checked: a system whose clients are silent and whose queues are empty
rests.

Several properties hold only up to a fault, and say so in their statement, so that one
run covers both sides. The conditions are:

| Condition | Guards | What happens without it |
|---|---|---|
| `Undisturbed` (no lock lost, no early cancel) | `LockProtects`, `CancelledIsFinal`, `CancelledNeverStarts` | `remove()` succeeds beside a busy slot, or `Enqueue` brings a cancelled job's entry back, and the processor overwrites CANCELLED |
| `Undisturbed`, no rejected write of a worker, at most `maxStalledCount` crashes | `SettledAgreement`, `FeedTellsVerdict` | the row stays RUNNING, or says SUCCEEDED beside a failed entry |
| one worker process, the job is not CANCELLED, no cancellation was cut off after its `remove()`, and no event later than what the viewer shows passed it by (`UNSURE`) | `FeedTellsVerdict` | the viewer shows an older status for good, until it reads again |
| `ExpiriesSet` (no PEXPIRE lost) | `KeyExpires`, `OpenAtMostReset`, `Closes` | an open circuit sends no request that could clear the counter, and stays open |
| `Calm` in `WebhookDelivery` (no call failed, at most `maxStalledCount` crashes) | `SettledDelivery`, `AttemptsNeverLag`, `EventuallyJudged` | BullMQ gives up on a delivery that the row shows as PENDING or RETRYING |
| the request of the delivery ends, and not every slot hangs in one | `EventuallyJudged` | `fetch` has no timeout: the delivery and its slot wait for ever |
| no fault at all | `VerdictIsFinal` | a redelivery after a crash posts again and rewrites the verdict |
| `Calm` in `FilePipeline` (at most `maxStalledCount` crashes, and fewer errors than attempts or none outside the try block) | `SettledFile`, `EventuallyProcessed` | the row stays UPLOADED or PROCESSING |
| the file is not in `overlap` | `VisibleHasContent`, `DownloadMissesOnlyDeleted`, `SettledFile` | see `FileRevived` |
| no rejected call | `NothingLeftBehind`, the disk in `SettledFile` | content stays that nobody removes |
| no fault | `StoredEndsEffects` | the copy of a reply is lost, and the next duplicate runs |
| no fault | `Unblocks` | a counter without expiration refuses the client for ever |

`SettledAgreement` also names the two half-done requests that nobody repairs: a row
whose entry never came (`NeverQueued`), and an entry removed for a cancellation that was
not written (`HalfCancelled`). `JobRecovery` allows one crash, because the second stall
makes BullMQ fail the entry without the processor, and nobody writes the row, which stays
RUNNING.

### Where code and documentation part

Each of these runs checks one statement of the documentation or the tests and finds a
counterexample; `PROJECT.json` quotes the lines under `findings`.

| Run | Statement | What the code does |
|---|---|---|
| `JobLateCancel` | a job that has ended cannot be cancelled | `cancelJob` checks once and writes unconditionally |
| `FileRevived` | DELETE deletes a file | the processor writes READY over DELETED |
| `ReplayTooEarly` | no side effects replay | the response is stored after the reply |

Other differences met while modelling, which no run is about:

- README.md:62, the worker ends a job as SUCCEEDED or FAILED: not after two stalls.
- README.md:15, real-time status: `cancelJob` emits nothing.
- docs/demo/README.md:7, live updates in the demo: its client connects with the path
  `/ws`, while `setupSocketServer` keeps the default path; `JobFeed` models it as if the
  two agreed. It also reads the job before it joins the room, and joins again after a
  lost connection without reading, so it misses the events in between.
- docs/demo/script.js:282 reads `data.room` from `subscribed`; the server sends `jobId`.
- `workers/index.ts:63`, "permanently failed": a crash before the rethrow of line 70
  lets the stalled check run the job again.
- README.md:14: a rejected log write or `dispatchEvent` behind SUCCEEDED lands in the
  catch block, which may write FAILED.
- README.md:161, the circuit opens for five minutes: the time runs from the first
  failure, so a circuit may close right after it opened.
- `webhooks.service.ts:135`, "all active webhooks": one webhook deleted during the loop
  makes `dispatchEvent` reject, and those behind it are left out.
- README.md:200, keys of different users do not collide: every key is stored for
  `anonymous`.
- README.md:20, a sliding window: the window is fixed, and `TwiceTheLimit` is the bound.

## 4. Fairness

Weak fairness only, and only for what runs by itself: a slot goes on with what it
started (the event loop resumes a settled promise), the API finishes a request it
accepted, BullMQ hands out waiting entries to a free slot, its lock, stalled and
backoff timers fire, Redis answers and time passes. The request to an endpoint has no
fairness, because `fetch` is called without a timeout: a slot goes on except at `Post`,
and `EventuallyJudged` names the hanging request as one of its ends. Clients, crashes and faults have no fairness: they may never come. The
liveness properties need it because without it a slot may stop for good.

## 5. Proofs

Every theorem holds for all values of the constants that satisfy the modules' named
assumptions: any number of jobs, deliveries, files, keys, rows, slots, processes and
requests, and any fault budget. The assumptions are those the runs evaluate; besides
types they say that budgets are natural numbers, that model values for "none" are no
proper values, and, where a bound is a number of things, that these things are finitely
many (`Callers` of the breaker, `Rows` of a table).

| Module | Theorem | Says |
|---|---|---|
| `JobLifecycleProofs` | `TypeCorrect` | `TypeOK` always |
| | `ExecutionsBounded` | `BoundedExecutions` always |
| | `LockProtectsInvariant` | `LockProtects` always |
| | `StoresAgree` | `SettledAgreement` always |
| | `CancelledStays`, `CancelledStaysIdle` | the action properties `CancelledIsFinal` and `CancelledNeverStarts` |
| | `KeepsContract` | behaviours that stay `Smooth` implement `JobContract` |
| | `LifecycleKeepsContract` | with the fault budgets of `JobRecovery`, so does the specification |
| | `FeedTold` | `FeedTellsVerdict` always, in `FeedSpec` |
| `CircuitBreakerProofs` | `TypeCorrect` | `TypeOK` always |
| | `CountersExpire` | `KeyExpires` always |
| | `OvershootBounded` | `BoundedOvershoot` always |
| | `OpenOnlyForReset` | `OpenAtMostReset` always |
| `WebhookDeliveryProofs` | `TypeCorrect` | `TypeOK` always |
| | `PostsBounded` | `BoundedPosts` always |
| | `NoFalseDelivery` | `DeliveredWasAccepted` always |
| | `AttemptsKeepUp` | `AttemptsNeverLag` always |
| | `SettledWithVerdict` | `SettledDelivery` always |
| | `VerdictStays` | the action property `VerdictIsFinal` |
| `FilePipelineProofs` | `TypeCorrect` | `TypeOK` always |
| | `VisibleIsThere` | `VisibleHasContent` always |
| | `OnlyDeletedMiss` | `DownloadMissesOnlyDeleted` always |
| | `ContentGoesWithRow` | `NothingLeftBehind` always |
| | `SettledAsTold` | `SettledFile` always |
| `IdempotencyProofs` | `TypeCorrect` | `TypeOK` always |
| | `OneReplyPerKey` | `ReplaysAgree` always |
| | `StoredReplyEndsEffects` | `StoredEndsEffects` always |
| `RateLimiterProofs` | `TypeCorrect` | `TypeOK` always |
| | `WindowBounded` | `TwiceTheLimit` always |
| `CursorPaginationProofs` | `NoRepetition` | `NoRowTwice` always |
| | `NothingMissed` | `NothingSkipped` always |
| `ApiKeysProofs` | `TypeCorrect` | `TypeOK` always |
| | `RevokedKeysAdmitNothing` | `RevokedAdmitsNothing` always |
| | `RevocationsAgreeAlways` | `RevocationsAgree` always |
| | `NoWayBack` | the action property `LockedOutForGood` |

*Executions are bounded.* The bound is not inductive: a state may satisfy it whose
entry still has attempts left that were already used. `AccountsInv` strengthens it:
while an entry exists, `starts` equals its attempts plus its stalls plus one if it is
active, an entry that can still be taken has attempts and stalls left, and the lock
belongs to an active entry only. `Accounts` states this for one job, a lemma shows that
each operation of the queue keeps it, and another lifts that to `Next`. A slot that has
lost its lock changes no entry, and a removed entry is not added again, because its POST
is over.

*A cancellation is final.* `CancelledIsFinal` and `CancelledNeverStarts` are action
properties that need to know that no processor is at work on a cancelled job and that
none can start. `Protected` says why: a busy slot holds the lock of its active entry,
`remove()` succeeds only without a lock, and a job past `remove()` has no entry from
which a slot could take it. It is inductive while POSTs are over before cancels (or
`Enqueue` would bring an entry back) and live slots keep their locks (or `remove()`
would succeed beside a busy slot). `LockProtects` is `Undisturbed => Protected`;
`UndisturbedBefore` shows that the counters behind `Undisturbed` only grow, so what
holds now may be used of the state before. Crashes, database errors and aborted
requests are unlimited.

*Row, log and queue agree, and the contract is kept.* Both rest on the story of a job
(`Story`), which holds while `Smooth` does (`Undisturbed`, and no call of a worker
rejects). A job that no slot works on satisfies `FreeStory`, one that a slot works on
`HeldStory`, which relates status, log and counters at each step of the processor.
What makes it inductive is the bookkeeping of runs: every run of a processor ends as an
attempt that the queue has counted or was cut off by a crash (`Cut`), so that the row's
attempts lie between the queue's and those plus the cut ones, and every verdict but the
last has one of the cut runs to pay for it. `EndStory` adds what the queue's end says
about the row, which gives `SettledAgreement` up to `maxStalledCount` crashes. The
refinement is proved step by step: one lemma per action of `JobLifecycle` shows that it
is a step of `JobContract` under `statusBar`, `triesBar` and `acceptedBar`, or leaves
these alone. The contract holds only while `Smooth` does (with a rejected write the
code's own promises fail), so the theorem has `[]Smooth` as its hypothesis; the
corollary drops it where the budgets of the three faults are 0, as in `JobRecovery`.

*The feed.* A viewer shows what it heard last, so `FeedInv` follows the last event of a
job on the bus. `Final(j)` says that the row holds a verdict and that nothing is going to
write it again: the slot at work has published its last status, or the entry is finished,
or it is gone and no cancellation removed it. For such a job the last event on the bus, if
any is left, tells the row's status or is in doubt, and with none left so does what each
client shows and the answer it waits for (`Shows`): a forwarded event outdates what a client
outside the room shows, and what a GET under way has read before. `NoNews` says that no step but a processor's makes a
job final: this needs the story of the lifecycle, since a crash that cuts off a run leaves
an entry that is run again, and a removed entry ends as CANCELLED or as a request cut off
half way. `FinalProcess` says that the step that makes it final publishes the status in the
row. The rest is about sequences: what an appended, a delivered or a lost event does to the
last event of a job. `FeedRefines` brings the theorems of `JobLifecycle` to `FeedSpec`.
The proof does not use `OneWorker`: the condition says where one bus, with its events in
order, is what the code has.

*The breaker.* `KeyExpires` is inductive with `TypeOK` until a PEXPIRE is lost:
only INCR creates a key, the INCR that creates it puts its slot before the PEXPIRE, and
a DEL of another slot in between removes counter and time to live together. The
overshoot needs the slots that have passed the check and not reported yet:
`CallsAccount` bounds the counter plus their number, those in the catch block behind a
success included, and a check lets a slot pass only
below the threshold or when it failed itself. `ClockBounded` relates the clock of an open
circuit to the time to live that is left.

*Deliveries.* `LedgerInv` keeps the ledger of a delivery: requests sent against
attempts and stalls that the queue has counted (plus the one of the current run, which
may have sent its request before it was cut off), the row's attempts against requests,
DELIVERED against the endpoint's answer; and, per slot, what it has read of the row. It
gives `BoundedPosts` and `DeliveredWasAccepted` without any condition. `PaceInv` is for
deliveries that are still wanted, while `Calm` holds: the row's attempts never fall behind
the queue's, so that the processor, which decides by the row's counter whether this is
the last attempt, writes FAILED before the queue, which decides by its own, gives up.
`FinalInv` says that a verdict is written by a slot whose next step acknowledges it.

*Files.* `FileInv` says of a file without overlapping deletes that row and content
go in this order and after the processing (`Kept`), of a slot that it holds its entry's
lock (`Busy`), and of content behind a deleted row that a request is about to remove it
(`Leftover`). Crashes and rejected calls are unlimited in it. `StoryInv` follows the row
and the events through the processor while `Calm` holds. The queue gives up on a file
only after as many failed attempts as it allows; fewer errors than attempts exclude that,
and when all failures were caught, the last of them has written FAILED and sent its event.
The disk of a settled file follows from `Kept` (a visible file has content) and `Leftover`.

*Replies.* `ReplayInv` says that a reply which another request's handler made is the one
in the table, where it stays because the unique index keeps the first (`RepliesStored`),
and, while nothing fails, that every copy that is due has arrived, its own or an earlier
one of its key (`CopiesArrive`), so that a request sent later has no effect of its own
(`CoveredReplayed`).

*Twice the limit.* The bound says nothing of how the admissions are spread over
counters. `TwoCounters(b)` does, for some b, the age of the present counter: what was
admitted within the last b ticks has counts of this counter, all different, and what
was admitted before has counts of the one before, all different again, because a counter
with a time to live is at least `Window - ttl` ticks old and what an earlier one admitted
has left the window when it expires. Two injections into `1..Limit` give the bound.
`OneFirst` says that at most one EXPIRE is under way. A lost EXPIRE is covered: the
counter then has no end.

*Scans.* Rows are totally ordered by age and id. `ScanInv` says that no row
that was listed lies behind the cursor, and that every lasting row was listed or lies
behind it; the lemmas about `First` and `Last` show that a page is the front of what is
left and ends at the new cursor. An induction over the size of a page is out of the provers' reach;
a finite set of rows has a first and a last row by well-foundedness of the subset order
instead (`FirstRow`, `LastRow`, by a smallest set of rows ahead or behind).

*Keys.* `RevokedAdmitsNothing` speaks of requests that have passed, so it needs to know
what those on their way may still do.
`Sound` says it of one request: a late one looks for a key that is not in the table, or
that has expired; a key that was found or removed has an owner, so no `create` draws it
again; a removed key is not in the table. `TablesAge` is what every step does to the
tables (owned keys keep their owner and do not come back, expired ones stay expired), and
`OthersStaySound` concludes that a step of one request leaves the others sound. For
`RevocationsAgree`, `Single` and `Accounted` restate it without cardinalities: every step
but a removal keeps them (`Keeps`), and a removal succeeds only for a key that is there,
which no earlier success has left. `LockedOutForGood` follows from `Sound` step by step
(`LockedOutStep`): only a request with the user's id inserts a key for that user, and
`Barred` says that none is left and none gets past its check.

What stays with TLC. Liveness under fairness is out of reach of TLAPS:
`EventuallySettles`, `Closes`, `EventuallyJudged`, `EventuallyProcessed`, `Unblocks` and
`ScanEnds` are model-checked only. The statements that runs refute are no theorems.

## 6. Not modelled, and why

Routing, validation schemas, headers, Swagger, health, logging and configuration
keep no state. The S3 provider only throws. HMAC signatures and key hashes are
functions of data the models abstract. Of the demo UI only the job monitor is part of
`JobFeed`: its forms and tables keep no state of the service, and its page can watch one
job at a time. Bull Board is a tool outside the service. Several worker processes are
part of `JobLifecycle`, but not of the feed. A cancellation is never emitted, so that the
feed says nothing about it. Concurrent updates of `lastUsedAt` may set it back; nothing
reads it but the list of keys. A webhook's URL does not change in the model.

## 7. Plan

Order of work, most important behaviour first.

1. Done: `BullQueue`, `JobLifecycle` with `JobContract`, `CircuitBreaker`,
   `WebhookDelivery`, `FilePipeline`, `Idempotency`, `RateLimiter`,
   `CursorPagination`, and the theorems above.
2. Done: `JobFeed` with rooms, lost events and a client that reads and listens.
3. Done: `ApiKeys` with revocation, expiry and the unawaited update; `JobContract` with
   crashes.
4. `WebhookBreaker`: the dispatch processor composed with `CircuitBreaker`'s calls
   and clock in place of the abstract counter, and the refinement of that counter.
5. Abstract specifications for deliveries (posted at most so often, one verdict)
   and for files, with refinement mappings.
6. Done: theorems for every safety invariant and action property of the passing runs, and
   the refinement of `JobContract`.
7. Theorems for what items 4 and 5 add.
