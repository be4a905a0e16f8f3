# A verification project for Shozee 2.0 (showzy-v2)

Shozee 2.0 is a TypeScript modular monolith: business modules (orders,
documents, signing, chat, ...) declare *actions*; one core runtime
(`src/packages/core`) executes every action through a fixed pipeline, records
its events in a transactional outbox, and worker processes (`src/apps/worker`)
deliver them to consumers.  All processes share one PostgreSQL database; there
is no other coordination.  What can go wrong is therefore in the interleaving of
SQL statements of several processes, in leases and retries, and in processes
that die between two statements.  This directory models that part first, then the
worker process with the one delivery that needs bookkeeping after its death (the
PDF of a document), and the one place where the repository has a concurrent
program of its own outside the server: on-device document signing, where
JavaScript sessions share a C++ library with a lock-and-counter gate and one open
key storage per process.

Claims in the repository's own words are in `src/docs/specs/core.md` (section 5
idempotency, 6 events, 7 confirmation; acceptance list near the end), and in the
ADRs 0012, 0015 and 0021.

## 1. Inventory

| Component | State it keeps | Operations | What makes it correct |
| --- | --- | --- | --- |
| action pipeline (`runtime/pipeline`) | a call's local state; one database transaction | `executeAction`: validate, authenticate, rate limit, authorization preflight, confirmation gate, reserve, execute, finalize, commit, failure record | an effect commits with its idempotency record or not at all |
| idempotency keys (`runtime/idempotency`) | `foundation.idempotency_keys` | `probe`, `reserve` (INSERT / SELECT / conditional takeover), `finalize`, `markFailed`, cleanup after 48 h | one commit per key and retention window; replays answer what was committed; a key is never wedged |
| confirmation (`runtime/confirmation`) | challenges in Redis with a TTL; the consumed grant in the key's row | `gate`, issue, GETDEL | no high-risk effect without a challenge for exactly that request; single use |
| event emission (`runtime/events/emit.ts`) | `domain_events`, `event_aggregate_sequences` | `ctx.emit` buffers, `flush` inserts | sequences of an aggregate follow commit order |
| outbox dispatch (`delivery-dispatch.ts`) | `domain_events.dispatched_at`, `event_deliveries` | `dispatchOutboxBatch` with SKIP LOCKED | every event gets one delivery per consumer |
| event delivery (`delivery-execute.ts`, `delivery-shared.ts`, `delivery-reservation-hook.ts`, `replay-dead-deliveries.ts`) | `event_deliveries` rows; row locks and `(consumer, aggregate)` advisory locks | discover, claim, execute, release, record failure, park, replay | effects once per delivery; one handler per consumer and aggregate; order; nothing starves |
| worker loop (`apps/worker/src/loop.ts`, `listen.ts`) | tick / wake / back-off / stopping flags, promise chain, lanes, LISTEN connection | tick, wake, cleanup, lanes, reconnect, stop | one tick at a time; no lost wake; stop drains and resolves |
| dead PDF hand-over (`pdf-delivery.ts`) and worker jobs (`jobs.ts`) | schedules | `markFailed` after dead-lettering; cleanup jobs | a document whose delivery died has a job row or a log line that says why not, unless the process dies before either |
| document generation (`modules/doc-generation`) | `document_generation_jobs`, one row per document | `renderPdf`, `markFailed` | a ready PDF stays; every document ends with a PDF or a recorded failure |
| document signing library (`packages/document-signing`: `cpp`, `cpp-bridge`, `src`) | loaded provider, the one active storage, serial lock and counter; the one keystore path; `identifiedCa` | INIT, DEINIT, OPEN, CLOSE, KEYS, SELECT_KEY, SIGN, ...; `validateKey`, `signDocument` | a session has the storage to itself, signs with its own key, releases the storage it was told is open and erases the key file |
| the app's signing attempts (`apps/mobile/.../documents/signing`) | abort controller, memoised engine promise | submit, cancel, leave the screen; JavaScript reloads | every attempt ends, whatever happened to earlier ones short of a SIGN that never returns |
| rate limiting (`runtime/rate-limit`) | token buckets | `consume`, fail open / closed | never above limit plus refill |
| nested calls (`pipeline/ctx-call*.ts`) | the caller's transaction | `ctx.call`, `ctx.callAtomic` | nested writes commit with the caller |
| audit (`runtime/audit`) | `audit_log` | success row in the transaction, failure row after | one row per outcome |
| orders, documents, doc-signing, files, chat, invites, others (`packages/modules`) | one schema each | actions that lock a row, check its status, update and emit | the life cycles of one order and its documents stay consistent with each other |
| API, mobile, web, AI | request state, client queues | transport, UI, tool loop | retries reuse their idempotency key |

How they interact: a client calls an action through the API; `executeAction`
runs it, its events are flushed in the same transaction; a worker's tick
dispatches them to delivery rows and executes each through the *same* pipeline,
with the delivery row in place of the idempotency row, nested as a savepoint in
the delivery transaction, so that a consumer's effects, its own emissions and
`processed` commit together.

The hard behaviours are listed one by one under `hazards` in `PROJECT.json`, at
the line where each bites, with the property that covers it.

## 2. Plan

1. `IdempotencyKeys`, `ActionPipeline` with proofs: the exactly-once promise of
   the pipeline. **Done.**
2. `Delivery` with proofs: outbox, dispatch, delivery. **Done.**
3. Abstract specifications of the server: `SubmitOnce`, a submit that is executed at one
   instant per key and window and answered from its record; `OrderedConsumer`, a
   consumer that applies each event once and handles what has arrived one at a
   time per aggregate, in sequence. `ActionPipeline` and `Delivery` shown to
   implement them (refinement mapping checked by TLC, step simulation proved).
   **Done.**
4. `WorkerLoop`: wake coalescing, back-off, stop; that no wake is lost.
   `PdfGeneration`: the render job and its dead-lettering.  `PdfWorker`: the two
   composed, against executors that crash.  With proofs.  **Done.**
5. `SigningLibrary`, the native library and its gate; `SigningSession`, the app's
   attempts that drive it.  With proofs.  **Done.**
6. Abstract specifications of the other two parts: `KeySession`, what on-device
   signing promises of a user's keys, and `DocumentPdf`, what doc-generation
   promises of a document's PDF, both with their refinements proved.  For every
   claim of the repository that a run refutes, the theorem that says how far it does
   hold.  **Done.**
7. `DocumentLifecycle`: orders, documents, signing requests and sharing under
   concurrent actions.  *Open.*
8. Rate limiter (function over a bounded clock), order numbering, file uploads,
   invites, nested calls, the assistant's tool loop.  *Open.*

Theorems wanted next: `SessionHolder` beyond the second runtime, for which the
DEINIT of a runtime that is gone has to be accounted for, and that the delivery
rows of `PdfGeneration` are those of `Delivery` (so far it takes the exclusive
claim as one step on the strength of `ClaimIsExclusive`).

## 3. Modules

`IdempotencyKeys` holds the rows of one table and, operator by operator, what
single SQL statements read and write (INSERT values, the WHERE of the takeover,
the SET of finalize) and what the code decides about a row it read.  A "key" is
the whole primary key.  A request hash is the payload itself, a stored response
is the attempt that produced it, time is a natural number.

`ActionPipeline` runs any number of concurrent calls over these rows.  A call is
a record; its field `at` says before which await it stands:

| step | code |
| --- | --- |
| `probe`, `gate`, `issue` | `runConfirmationGate`: `probe`, GETDEL, SET of a new challenge |
| `insert`, `select`, `takeover`, `lost` | `reserve`: its four statements |
| `begin`, `running` | `runExecutionTransaction` before / inside the handler |
| `failing` | `recordFailureOutcome` |

Every SQL statement of the hook autocommits, so each is one action.  `finalize`
is the last statement of the execution transaction and its UPDATE holds the row
lock until COMMIT, so finalize and commit are one action, `Commit`; it may lose
its acknowledgement, and then the call goes down the error path.  A row is read,
the clock is read and the decision is taken in one action; the statement that
follows uses the values remembered (`seen`), so a stale decision is modelled.
`Crash` may strike anywhere.  `Cleanup` deletes all rows past retention.
`StoreUnavailable` covers both a store that did nothing and a GETDEL whose answer
was lost.  `effects`, `answered`, `issued` and `passed` (the challenges that have let a call
through the gate, whatever became of the call) are history variables.

`Delivery` models emission, dispatch and delivery by any number of workers:

| state | code |
| --- | --- |
| `events` | `domain_events` with `aggregate_sequence`; event ids are numbers in UUIDv7 order, assigned to aggregates in any order, because the id is drawn at `ctx.emit` and the sequence at the flush |
| `deliveries` | `event_deliveries` |
| `batch` | the rows a dispatcher's open transaction has locked |
| `finding`, `todo` | the middle of a tick, and the due list its lanes share |
| `lane` | per worker and delivery: `claiming` (claim transaction open, row locked), `claimed` (claim committed), `locked` (delivery transaction open, row locked), `running` (advisory lock held, bound action running), `failing` |

A lane waits at the row lock (`RowFree`) and at the advisory lock
(`AggregateFree`), both of which are read off the other lanes' steps.  The claim
transaction's advisory lock lasts for one action and needs no state.  Handler and
commit are one transaction with `finalize`, so `CommitDelivery` is atomic and may
lose its acknowledgement.  Emissions of a handler are `Emit` steps.

Abstractions in `Delivery`: time is the bit `ripe` of a row (`nextAttemptAt` has
come, or the claim's lease is over), which can turn true at any moment because a
process may stall at any statement; this also covers a `claimedAt` that was
computed before a long wait.  All events have one name, to which every consumer
subscribes.  The discovery LIMIT (100) is above the number of rows.  A crashed
worker's name is reused by the process that replaces it: real worker ids are
fresh per boot, and nothing of the old process survives that could use the name
again.  `StopTaking` is the `stopping` flag: a stopping worker discovers nothing
more and its lanes take nothing more from the due list; the process that replaces
it ticks on under the same name once the lanes are idle.

Abstract specifications say what the repository promises, without the machinery
that keeps it.  The two of the server:

* `SubmitOnce` knows, per key, a record or nothing.  `Execute` is possible only
  for a key without a record, with an execution there has never been, and leaves
  the record; `Answer` reads the record; `Forget` drops records whose retention
  has passed.  In `ActionPipeline` the record is the key's completed row
  (`CompletedRecord`) and the executions are the attempts in `effects`: `Commit`
  is `Execute`, the replays of `Probe`, `Select` and `ResolveLostTakeover` are
  `Answer`, a takeover of a completed row and `Cleanup` are `Forget`, and all the
  rest (reservations, takeovers of dead attempts, failures, crashes) is invisible.
* `OrderedConsumer` knows the log of each aggregate and a phase per delivery:
  absent, waiting, running, applied, parked.  A delivery starts only if nothing of
  its aggregate is running and everything earlier *that has arrived* is applied.
  In `Delivery` the log is the outbox without the dispatcher's mark (`OutboxLog`)
  and a delivery runs from the moment its handler may run to the end of the
  transaction (`DeliveryPhase`); claims, leases, takeovers and failure records are
  all "waiting".  It promises no order against what has not arrived, which is the
  finding of `delivery_concurrent_order`.

The other two are described with the parts they abstract: `DocumentPdf` with
`PdfWorker`, `KeySession` with `SigningSession`.

`WorkerLoop` is the loop of one worker process; the code between two `await`s is
one action.

| state | code |
| --- | --- |
| `stage`, `ticking`, `wakes`, `backoff` | `state.stopping` (and whether `stop()` has resolved), `state.ticking`, `pendingWakes`, `now() < backoffUntil` |
| `chain`, `running` | the promise chain on which ticks and cleanups wait, and what its head is doing |
| `due`, `busy` | the list of this run and the deliveries its lanes are executing |
| `listen` | the LISTEN connection: live, being re-established, delayed, or answered after `stop()` |
| `owed` | history: a wake was accepted and nothing was dispatched since |

`Wake` is `requestTick` with the whole of `tick()`'s decision; `AfterRun` is the
do-while condition.  A back-off is a bit that can end at any moment.  The due list
and what a lane does are parameters (`Found(deliveries)`, `Take`, `Finish`), for
compositions to fill in.

`PdfGeneration` has, per document, the job row, the delivery row of the
`pdf-renderer` consumer and what each executor is doing (`work`).  A delivery's
claim and the start of its transaction are one exclusive step, which is what
`Delivery` establishes; an attempt is a claim, so a crash uses one up.  The
transactions of `renderPdf` and `markFailed` are sliced where they meet: where
they read the job row (`StartRender`, `StartMark`), and at the INSERT, which waits
for an uncommitted row of the same document and aborts its transaction on a
committed one (`InsertPending`, `InsertFailed`).  Rendering, object store and file
row are one outcome.  Some guards of the code cannot fire in the composition and
are kept because the code has them: the "ready" cases of `StartRender` and
`RenderTerminal` need a second event for one document.

`PdfWorker` joins them as `loop.ts:389` does: a lane takes a delivery (`Execute`),
runs it with `maybeFinalizeDeadPdfGeneration` to the end (`LaneStep`) and returns
(`LaneReturns`).  Other executors claim, fail and crash as they like.

`DocumentPdf` knows, per document, an outcome, the status of its delivery, whether
somebody owes the record of a failure, whether the log has a note of one, and whether
one was forgotten. `Settle` ends a delivery together with its outcome and takes back
no PDF; `GiveUp` ends it without, and leaves a debt or a note; `Record` pays the debt
where there is no outcome, `FindRecorded` drops it where there is one, `Note` moves it
to the log, and `Forget` loses debts together with whoever owed them. In
`PdfGeneration` the outcome is the job row, the debt is an executor between the death
of the delivery and the end of `markFailed`, the note is the log line (`lost`).
`CommitRender` and the answer for a ready job are `Settle`, the last `FailAttempt` is
`GiveUp`, `CommitMark` is `Record`, a `markFailed` that finds a job row or replays its
key is `FindRecorded`, one that fails is `Note`, since its catch logs, and a process
that dies with it is `Forget` (`forgotten`), since a dying process logs nothing of it;
claims, retries, leases and the INSERTs are invisible.

`SigningLibrary` is the native side.  A call of `HybridUapkiEngine::process`
moves through stages:

| stage | code |
| --- | --- |
| `queued` | on the thread pool, before the engine object's `processMutex_` |
| `entered` | inside the mutex, at the gate of `api-json.cpp` |
| `passed` | a thread method has seen the serial flag down and has not counted itself yet: the window in which it may overlap a serial method of another engine object |
| `waiting` | a serial method holds the lock, has raised the flag and waits for the counter |
| `running` | a thread method is counted; a serial method runs in one step, when nothing is counted |

The rest is the loaded provider (a generation number, because `DEINIT` deletes the
object a storage points at), the active storage with its selected key, and the
bytes in the one keystore path.  A storage is `known` when its OPEN was answered as a
success: `uapki_storage_open` goes on after `CmProviders::storageOpen` with the
certificates of the storage, and an error there (`storage-open.cpp:135`, `:143`) is
answered with the storage left open.  Keys and certificates are the identity of the
container they came from.

`SigningSession` drives it: the engine promise memoised per JavaScript runtime
(`loader`: INIT, on ALREADY_INITIALIZED DEINIT and INIT, then with the self-test
skipped), and attempts (`step`) that run two sessions each, `validateKey` and
`signDocument`, one action per continuation.  `Abort` stops the app from waiting, not
the session; `LeaveScreen` does not even abort; a call whose promise rejects, or whose
answer is no JSON, throws (`SessionThrows`), which inside a session runs its
`finally`, and at the OPEN, which stands before the `try`, undoes nothing
(`OpenRejected`: the key file stays, and the storage too if it was opened); `Reload`
replaces the JavaScript runtime while native calls run on.  Abstractions: reading
through a dangling storage, which is undefined, fails here (a crash is a behaviour
that stops); raising and dropping the serial flag are part of taking and leaving the
lock; the stateless DIGEST method is left out, `deleteFile` succeeds, and INIT loads
its linked-in provider whenever it succeeds, and the answer of a successful INIT is
not lost.  What the code does not check is not checked here either: the error codes of
SELECT_KEY and CERT_INFO.

`KeySession` knows who has the key storage open and with which key container, what
each attempt's signature was made with, and whose was delivered.  Only one attempt
has a storage open and it alone closes it; it signs at most once, with the container
it opened; it delivers what was signed, after the storage is closed.  OPEN, SIGN and
CLOSE in the library are `Open`, `Sign` and `Close` at the moment the library changes,
the app's upload is `Deliver`; calls, the gate, both loaders, reloads and the key
file are invisible.  That the container is the attempt's own is `OwnKey`.

`MCActionPipeline`, `MCDelivery` add the symmetry sets; `MCPdfWorker` and
`MCSigningSession` only name the instances (liveness is checked, so no symmetry).
`ActionPipelineProofs`, `DeliveryProofs`, `WorkerLoopProofs`, `PdfWorkerProofs`,
`SigningSessionProofs` hold the invariance proofs, `ReservationProofs` those about
grants and leases, `ActionPipelineRefinement`, `DeliveryRefinement` the step
simulations.

## 4. Runs

| run | question | bounds |
| --- | --- | --- |
| `idempotency` | can two calls with one key ever commit twice, answer something that never committed, or lose a committed record? can a retry evict an attempt inside its deadline? is it all `SubmitOnce`? | 2 callers, 1 key, 2 payloads, 4 attempts, clock to 4, timeout 1, margin 1, retention 3 |
| `confirmation` | does every high-risk effect have a challenge for exactly its request? does a challenge let one call through the gate only, whatever became of that call? | 2 callers, 2 payloads, 3 attempts, 2 challenges, clock to 2 |
| `idempotency_liveness` | does a retried submit commit? | 2 callers, 3 attempts, clock to 2 |
| `confirmation_reuse` | *violated*: is a challenge single-use? | as `confirmation`, 1 payload, retention 3 |
| `lease_renewal` | *violated*: do long handlers renew their lease? | 2 callers, clock to 3 |
| `delivery` | effects once, handlers serial, claims fenced, dead deliveries block, recorded failures park in time; is it all `OrderedConsumer`? | 2 workers x 2 lanes, 1 consumer, 2 aggregates, 2 events, 2 attempts to park, leases run out up to 3 attempts |
| `delivery_liveness` | does every event settle, and in order, with one fair worker? | 1 worker, 2 aggregates, 2 events |
| `delivery_concurrent_order` | *violated*: is the order kept under concurrent dispatch? | 2 workers, 1 aggregate, 2 events |
| `delivery_parking` | *violated*: does parking take MaxAttempts handler failures? | 2 workers, 1 event |
| `worker` | is a wake ever lost, does `stop()` drain and resolve, does every document settle, is a dead PDF delivery marked or logged unless its executor died, does a ready PDF stay? is it all `DocumentPdf`? | 1 document and 1 foreign delivery, the modelled worker and 1 other executor, 2 lanes, 2 attempts, 2 pieces of work on the chain, 1 fault, 1 replay |
| `signing` | do sessions ever share a storage or sign with another's key, is an opened storage released and the key file erased, is a storage that a failed OPEN left open ever recovered, does every attempt end? is it all `KeySession`? | 2 attempts, 1 reload |
| `signing_reload` | *violated*: does the re-INIT after a reload leave the library with a storage of the loaded provider, or none? | as `signing` |

Why these bounds: the protocol of a key involves at most an owner and a rival,
and a third attempt to follow a takeover; rows of different keys share nothing
but the clock, so one key is enough.  The clock of `idempotency` passes the
lease, the retention and a second lease in the new window.  In `delivery` two
workers and two events cover every pair of lanes: same delivery, same aggregate,
different aggregates; two consumers share nothing but the dispatch transaction.
In `worker` documents share nothing but the lanes, which the foreign delivery
competes for; 2 attempts have a retry and a last one, the fault is a failing tick
or a crashed executor, and the replay starts a second life of a dead delivery
while the first one's `markFailed` may still run.  A chain of 2 has a tick queued
behind a running one and a cleanup between them.  In `signing` two attempts cover
every pair of sessions, one of them cancelled, orphaned, or refused because the other's
OPEN left the storage open, and one reload covers two engine objects whose calls overlap
at the gate.

Two limits of the delivery runs: no passing run has a backlog larger than its batch, so
the cut of a batch by event id is not exercised by `AppliedInSequence` there (with
`BatchSize = 1` TLC refutes it, and `OneWorkerKeepsOrder` has the premise); and the LIMIT
of the claim query and a second consumer are absent, so `EveryEventSettles` is about a
parked aggregate beside another's event, not about starvation by a long list.

The `ActionPipeline` runs switch deadlock checking off, because the clock bound
and the supply of attempt ids end a behaviour; the others keep it on (in
`worker` and `signing`, `Rest` is the state in which everything is over).

`AttemptBound` stops leases from running out again and again; `MaxTime` ends the
clock.  Attempt ids are reused once no row, call or effect names them, as fresh
UUIDs would behave.

### Fairness

`ActionPipeline!FairSpec`: calls proceed and time passes (weak fairness), and
clients retry.  The statements `Insert`, `Select`, `Takeover` and the `Commit` of
a handler get strong fairness: a call that is retried for ever is not always
interrupted at the same statement.  Processes may die for ever; what must stop
at some point is that a call ends while it *owns* a reservation without giving it
up (`Strands`), since each such death costs one lease of the bounded clock.

`Delivery!FairSpec`: ticks, lanes and time go on (the loop is driven by a poll
timer, `loop.ts:291`); ticks may fail and processes may stop or die for ever
before they have claimed something.  What must stop is wasting claims (`Wastes`) and operator
replays.  The premise is real: a handler that kills its process every time is
claimed again for ever and never parked, see the hazards.

`PdfWorker!FairSpec`: the poll timer fires, the chain runs, queries and renderings
end (each has a timeout), what another executor has claimed it finishes or dies
of, and back-offs, retry times and leases run out.  Weak fairness throughout;
nothing is assumed of notifications' arrival, reconnects, `stop()` or replays.

`SigningSession!FairSpec`: the library's threads run, HTTP requests (the library's own
and the app's) are answered or time out while their JavaScript runtime lives, and
promises are continued.  A call whose runtime is gone is answered to nobody, and one
of them need not end at all: a native HTTP request, which of the methods modelled only
SIGN makes (time stamp, OCSP), waits in `await().get()` without a timeout for a
promise of that runtime (`HybridUapkiEngine.hpp:43-45`).  Nothing is assumed of a SIGN
in that position (`AbandonedSign`).  It stays counted, the next serial call keeps the
gate closed and waits for it, and everything waits behind; `AttemptEnds` therefore
excuses attempts when such a SIGN is never left (`<>[]AbandonedSign`), and says that
this is the only way they can hang.  Nothing is assumed of the user.  Weak fairness of
a library step is enough although serial calls compete for the lock: each attempt
makes finitely many calls, so the competition ends.

## 5. What the runs found

* `confirmation_reuse`: a grant that a call resumed from a row can be inserted
  again after the row's retention has ended, by a call that had probed before.
  The challenge then authorises a second commit, in the key's next window.  It
  takes a key whose failed attempt was confirmed near the end of its 48 hours.
  It is the same request again, never another one (`ReuseRepeatsTheRequest`), and the
  challenge passes the gate only once (`ChallengesOpenOnce`).
* `lease_renewal`: no lease is ever renewed, although core.md says so.  Safety
  does not depend on it (`AtMostOnce` holds, finalize is fenced), and up to the
  call's deadline no lease needs to be renewed (`LeaseOutlivesDeadline`).
* `delivery_concurrent_order`: a later event can be applied first while an
  earlier one sits in another dispatcher's uncommitted batch, because a
  predecessor is only seen once it has a delivery row.  The order is kept whenever
  each batch is in sequence (`OrderFollowsDispatch`), which one worker ensures as
  long as what waits fits into one batch (`OneWorkerKeepsOrder`); with a longer
  backlog even one worker does not, because batches are cut by event id.
* `delivery_parking`: the attempt budget counts claims, not handler failures.
  It is never exceeded (`FailuresPark`), and without wasted claims it is what the
  comment says (`FailuresAlonePark`).
* `signing_reload`: `http-init.ts:81-85` provides for a re-INIT after a JavaScript reload
  and bypasses the self-test there so that signing goes on (the "safe" of that comment is
  said of the self-test).  When the reload came during a session, DEINIT deletes the provider
  and leaves `activeStorage` pointing at it.  Every later OPEN then answers
  STORAGE_ALREADY_OPENED, and nobody CLOSEs: signing fails until the process
  ends.  Without a reload it cannot happen (`LiveWithoutReload`).

Two more things the models show, at places where the repository's texts do not look:

* A process that dies between the commit that makes a PDF delivery dead and the one of
  `markFailed` leaves a document with neither a PDF nor a job row, and no log line that
  says so (`forgotten`; `delivery-execute.ts:560` may have logged a dead delivery, without
  the document).  A dead delivery is executed again only if somebody replays it.
  `DeadIsMarked` says that this death is the only exception to "recorded, logged or about
  to be".
* An OPEN that fails after it has opened the storage leaves it open, and then no
  later OPEN of the process succeeds.  Its caller throws before the `try` whose `finally` would
  close (`document-signer.ts:327-336`), and no other path of the app closes, takes over or
  replaces the storage (`LeakStays`); the next runtime's DEINIT leaves it too.

## 6. Proofs

Proved for any number of callers, keys, payloads, workers, consumers, aggregates
and events, any durations and any bounds, from the named assumptions only
(durations are natural numbers, timeouts and retention positive, null is none of
the values or request records, event ids are a finite set of naturals; attempts of
the app are no numbers, since runtimes are; a worker has at least one lane, and
its own deliveries are a finite set that contains the documents').

`ActionPipelineProofs` proves `TypeOK`, `AtMostOnce`, `CommittedIsReplayable` and
`AnswersAreCommitted` from one inductive invariant.  `AtMostOnce` alone is not
inductive: that a second commit is impossible inside a window follows from
`CommittedIsReplayable` (the row of a committed effect is completed, and then no
attempt owns it).  `CommittedIsReplayable` in turn needs the takeover's WHERE: a
reader's clock reading is in the past (`SightingsInThePast`), so a completed row
inside its retention is not reclaimable by it however stale the reader is.  That
an answer belongs to the caller's payload needs `AttemptsKeepTheirHash`: an
attempt id that still stands in the row stands there with the hash of the call
that reserved it.

`ReservationProofs` adds three inductive invariants on top of that one.  `GrantInv`:
every grant, in a call, in a row or in an effect, was issued for the request that
stands beside it; hence `EffectsAreConfirmed`.  A takeover inside the retention
keeps the row's grant beside the row's hash, and that this is the caller's own
request is `AttemptsKeepTheirHash` again.  `LeaseInv`: a lease counts from a clock
reading no earlier than the call's start (`DeadlinesCount`), and an attempt id is
one call's (`AttemptsApart`); hence no WHERE clause matches a row whose owner is
inside its deadline, which is the action property `ReservationOutlivesDeadline`.
`LateOnlyPastDeadline` follows from the same invariant.  `PassedInv`: a challenge that
has let a call through the gate, whatever became of that call and its row, was issued
and is no longer in the store, and a call has no grant before it reaches the gate;
GETDEL takes a challenge out of the store in the step in which it becomes a grant, and
ids are never issued twice, hence `ChallengeOpensGateOnce`.  `ReuseRepeatsTheRequest`
combines `GrantInv` with `AtMostOnce`.

`DeliveryProofs` proves `TypeOK`, `EffectsOnce`, `AggregateSerial`,
`RunningOwnsItsClaim`, `ClaimIsExclusive` and `DeadHoldsItsAggregate`.  The
argument: a row is locked by one transaction at a time (`OneRowLock`), so what a
claim transaction has checked stays true until it commits (`ClaimingIsClaimable`)
and a worker that has re-checked its ownership under the lock keeps it
(`RunningOwnsItsClaim`); hence only a `processing` row is committed, once.  While
a handler runs, an earlier delivery may appear but nobody can claim it past the
advisory lock, so it is `pending` (`RunningIsHead`), and no successor of a dead
delivery is ever running.

`ParkedInTime` is about a counter that goes up and down: a claim spends an attempt, a
release refunds it, a failure is recorded by a transaction of its own and replay
starts again.  Its invariant is `RetryBudget`: the recorded failures are at most the
attempts the row shows, and fewer while a claim is open, so the failure that
completes the budget finds the row at its limit.  `FailuresAlonePark` assumes
`[][~Wastes]_vars`, no claim that ends without an outcome, and strengthens the
bound to an equation (`Ledger`), which needs that a claimed row has a lane that is at
work on it (`ClaimsAreHeld`).  The assumption leaves behaviours in which deliveries
fail, retry and are parked; it only excludes crashes and lost bookkeeping while a
claim is open.

`ActionPipelineRefinement` proves `KeepsSubmitOnce`, that is `Spec =>
SubmitOnce!Spec` under the mapping.  Beyond the invariant above it needs
`AttemptsAreNew`: no two keys carry the same attempt, and an attempt in progress
has committed nothing, so that a commit is an execution that has never been.
A takeover maps to `Forget` because a completed row is reclaimable only by its
retention, and the reader's clock is in the past.

`DeliveryRefinement` proves `KeepsOrderedConsumer`.  That `Emit` extends the log
in sequence needs `SequencesCount` (no sequence number exceeds the number of the
aggregate's events), and that parking never happens under a running successor is
`RunningIsHead`.  The other steps follow from the row lock (nobody else runs the
delivery a lane claims, releases or fails) and the ordering re-check under the
advisory lock.

The same module proves when `AppliedInSequence` holds.  `OrderFollowsDispatch` assumes
that no batch holds an event without its undispatched predecessors (`BatchesInOrder`);
then what is dispatched is closed under predecessors (`DispatchedInOrder`), so the
ordering re-check, which sees only what has arrived, sees everything.
`OneWorkerKeepsOrder` derives the hypothesis for a single worker whose backlog fits
into a batch (`BacklogFits`): an aggregate's earlier event is then in the same batch or
dispatched.  Neither hypothesis can be dropped: with `BatchSize = 1` in
`DeliveryLiveness.cfg` TLC refutes the order for one worker, and the run
`delivery_concurrent_order` refutes it for two.

`WorkerLoopProofs` proves that `LoopInv` holds of the loop whatever the due lists
are and however long lanes take, as two lemmas about a state and a step
(`LoopStarts`, `LoopPreserves`) that a composition can cite, and as a theorem of
`LoopSpec`.  `WakeNotLost` is inductive only with `TickingRuns`: `ticking` is set
exactly while a run is under way, so a wake that `tick()` leaves to "the tick that
runs" is seen by a do-while condition still to come.  `StopDrains` needs
`HeldInRun`: due and busy deliveries exist only while a run executes.

`PdfWorkerProofs` proves `TypeOK`, `WakeNotLost`, `StopDrains`,
`StoppedOwesNothing`, `DeadIsMarked` and `ReadyIsFinal`.  The argument for
`ReadyIsFinal`: a delivery has one rendering executor (`OneRenders`), an
uncommitted job row has one owner (`OneInserted`), and whoever renders again does
so over a failed row (`RerendersFailed`), so nobody writes over a ready one.
`DeadIsMarked` follows from `MarkedHasJob` (a completed `markFailed` left a job
row, which makes its replay a correct answer) and from the lane that holds a
delivery until its failure is recorded (`LanesHold`).  What is in neither the job row nor
the log went with an executor that died (`forgotten`).  That attempts exceed the budget only
by crashes is `AttemptsLeft`.  `ImplementsLoop` says that the composition
takes only steps of the loop, so that every theorem about `LoopSpec` is one about it.

`ImplementsDocumentPdf` proves `KeepsDocumentPdf`, one lemma per kind of step, from
the same invariant.  A commit is `Settle` because a rendered document's delivery is
pending (`RendersPending`) and its job is not ready (`OneInserted`, `RerendersFailed`);
a replayed `markFailed` is `FindRecorded` because a completed one has left a job row
(`MarkedHasJob`).  `OwedPoint` says how an executor's step moves the debt: it is
shared, since a replayed delivery can die again while the first death is still being
recorded, and therefore a step may leave it standing.  A crash loses the debts of the
executor that died and of nobody else (`Forget`).

`SigningSessionProofs` proves `TypeOK`, `SessionHolder`, `StorageReleased`, `OwnKey`,
`OwnCa` and `KeyFileErased` for any number of attempts and reloads. `CallOfStep` ties
an attempt's step to the call it has in the library and `Held` says that an attempt
past its OPEN owns the storage, and that it is `known`. `CloserIsOpener` says that
whoever has a CLOSE or SELECT_KEY under way opened the storage and was told so, and
OPEN needs none to be open; so nothing closes, changes or replaces a leaked one
(`LeaksStay`), whose attempt asks for nothing more (`LeakerIsOver`).  That the storage
is live needs `FirstLoad` and `GenerationLoaded`: in the first runtime nobody calls
DEINIT once a provider is loaded, and in the second one an OPEN can only succeed when
no storage dangles.  A DEINIT that the second runtime left in the thread pool could
still run under a session of the third, which is why `SessionHolder` stops at the
second (`runtime <= 1`).  `OwnKey` and `OwnCa` need `OneLive`: the sheet starts an
attempt only when none it knows of is under way, and the library serialises OPEN with
the cancelled one's CLOSE.

`ImplementsKeySession` proves `KeepsKeySession`.  Beyond the invariant it needs
`SignsOnce`: an attempt that has not come to its SIGN has no signature, so the one it
makes is its first.  `NoCircularWait` is freedom from deadlock at the gate
(`HybridUapkiEngine.hpp:27`, `api-json.cpp:278`): a serial call waits for counted
thread calls only, a call at the gate waits for the serial one that has the lock, and
everybody in front of `processMutex_` waits for somebody inside it (`GateInv`); so as
long as a call is under way, one of them can take its next step.  `LiveWithoutReload`
bounds the one refuted claim to what follows a reload; it rests on `FirstLive`: in the
first runtime a provider, once loaded, is not unloaded, so an open storage is of its
generation.

Every safety property of the runs that pass is proved, `AppliedInSequence` under
the hypotheses above and `SessionHolder` as it is stated, for the first two runtimes.
Only model-checked: liveness (`RetriedSubmitCommits`, `EveryEventSettles`,
`EveryDocumentSettles`, `StopTerminates`, `AttemptEnds`), since fairness is out of
the prover's reach.

## 7. Mutants

Each property of a passing run is paired in `PROJECT.json` with a definition changed
as a bug would change it, kept next to the original and marked `Mutant:`.  The most
telling is `ReclaimableUnchecked`, the takeover without the eligibility re-check,
which is the bug the repository fixed as SHO-434.  Others are `RunAgainNever` (a tick
that forgets the wakes it absorbed), `NoStorageOpenUnchecked` (OPEN without its
try-lock check), `ResetMemoForgotten` (an engine promise that stays rejected),
`ConsumeKeeping` (a challenge read with GET, not GETDEL), `FailedRowLate` (a budget
that is one too large) and `ExecutedUnrecorded` (a lane that does not await the
hand-over).

## 8. Not modelled

Of the modelled components: read actions, post-commit read audit, nested calls
and `callAtomic`, audit rows, clock skew between processes (the lease margin of
15 s and 30 s is meant for it), collisions of 32-bit advisory lock keys (they only
serialize more), transactions that PostgreSQL aborts for deadlocks beyond what
`Rollback` and `RollbackDelivery` cover, the BullMQ schedules of `jobs.ts`
(production puts no render job there), the wording of `complete()`'s late success
in the signing sheet.  A claim that throws is logged with `retryAt` null; no state
depends on it.

Of the rest of the repository: the rate limiter (one atomic Redis script; its
clock arithmetic is a listed hazard), the HTTP layer, orders, documents, files,
chat, invites, customers, catalogue, pricing, companies and the assistant, whose
actions are single transactions under row locks that the plan has not reached;
user interfaces; generated migrations.

Most of the repository's C and C++ (some 186,000 lines) is the vendored UAPKI
distribution: block ciphers, hashes, big-number arithmetic, ASN.1 codecs, curl
headers, a JSON parser.  Those are pure functions over byte strings without a protocol
of their own, and the repository's own logic is TypeScript.  What the project takes
from the C++ is the part with shared state: the gate, the providers and the handlers
of the calls the app makes.  The share of lines mapped is small for this reason.
