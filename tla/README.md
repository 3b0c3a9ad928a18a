# Promptmeter in TLA+

A verification project for Promptmeter, kept beside its code: TLA+ modules of its
components, TLC configurations that check them on small instances, and proofs the
TLA+ proof system checks for every value of the constants. Paths below are relative
to `src/`; `server/internal/` is abbreviated to `…/`.

    tlc -config worker_safety.cfg MCEventWorker.tla    # one run
    tlapm EventWorkerProofs.tla                        # one module's proofs

`PROJECT.json` lists the components, the runs, the definition-to-source map, the
hazards with the properties that cover them, the findings and the theorems.

## 1. The system

    SDK --HTTP--> ingestion --JetStream--> worker --> ClickHouse (events, views)
                     |  Redis, PostgreSQL     \-----> S3 (prompt/response text)
    browser --> dashboard API --> PostgreSQL, Redis, ClickHouse

Three Go processes (`server/cmd/ingestion`, `worker`, `dashboard`), a Python SDK
and a Next.js client. They share no memory; they meet in NATS JetStream, ClickHouse,
PostgreSQL, Redis and S3.

| Component | State it keeps | Operations | What makes it hard | What makes it correct |
|---|---|---|---|---|
| Batch writer and consumers (`…/worker/batchwriter.go`, `worker.go`, `…/nats/consumer.go`) | buffer, ack functions, byte count; batches in flight | Fetch, handleMessage, Add, Flush from a ticker, from any number of size triggers and from shutdown; Start | the lock is released around the insert, so flushes overlap; put-back after a failure; shutdown waits for some goroutines only; crash | no event lost, acknowledgements match inserts, everything is stored in the end |
| JetStream streams and consumer (`…/nats/setup.go`, `publisher.go`) | stream, delivery counts, pending acknowledgements, duplicate window | publish, deliver, AckWait, Nak, limits | at-least-once delivery, MaxDeliver, MaxAckPending below the batch size | a message leaves only stored or by a limit |
| S3 uploader (`…/worker/s3uploader.go`, `…/storage/s3.go`) | upload channel, WaitGroup | Enqueue, processUploads, Drain, reconcile | races the batch insert; two goroutines on one event; queue full; drain | `uploaded` means the object is there, pending events get uploaded, text is kept |
| ClickHouse store (`…/storage/clickhouse.go`, `…/migrate/sql/clickhouse`) | rows and their versions, summing views | InsertEvents, UpdateS3Status, GetPendingS3Events; dashboard queries | an update is an insert; merges are asynchronous; views never deduplicate | one version counts, one count per event |
| Price cache (`…/worker/cost.go`) | prices by model | initial load, periodic refresh, CalculateCost | first load never retried | the price in effect at the event's time |
| Ingestion API (`…/ingestion/handler.go`, `validation.go`) | none | HandleEvent, HandleBatch | a batch succeeds in part, answered 202 | an accepted event is published once |
| API keys (`…/ingestion/middleware.go`, `…/dashboard/handlers/apikeys.go`) | keys in PostgreSQL, cache in Redis | authenticate (read, fill), create, revoke | a cache fill races a revocation; the invalidation looks the key up by id | a revoked key stops working |
| Rate limiter (`…/storage/redis.go`) | counters with expiry | INCR and EXPIRE per request | expiry renewed by every request, rejected ones too | at most the limit per window, and recovery afterwards |
| Sessions (`…/dashboard/handlers/auth.go`, `dashboard/lib/api/client.ts`) | refresh tokens in PostgreSQL, cookies | login, refresh with rotation and reuse detection, logout | check, revoke and insert are separate statements; two tabs, retries | one live descendant per token, reuse ends the session |
| Onboarding (`auth.go`, `server/cmd/dashboard/main.go`, `…/storage/postgres.go`) | user, organization, membership, project, key | OAuth callback, self-hosted bootstrap | inserts without a transaction; concurrent first logins | a later login repairs or finds a complete organization |
| Settings (`…/dashboard/handlers/settings.go`) | organization row | partial update | read-modify-write | no lost update |
| Dashboard queries (`…/dashboard/handlers`) | Redis cache of results | parameters, cache key, cached query | keys built without separators | different queries, different keys |
| Python SDK (`sdk/python/promptmeter/_queue.py`, `_flusher.py`) | bounded queue, flush thread | track, drain, send with retries, stop | stop gives up waiting and flushes beside the thread; partial 202 | a queued event is sent, dropped for a stated reason, or still queued |

Section 10 says what is not modelled, and why.

## 2. The modules

| Module | Models | Proofs | Runs |
|---|---|---|---|
| `EventDelivery` | what the pipeline from the stream to the table promises | | (as `DeliverySpec`) |
| `EventWorker` | stream and consumer, batch writer, shutdown, crash; implements `EventDelivery` | `EventWorkerProofs` | `worker_safety`, `worker_liveness`, `worker_stranded` |
| `S3Uploader` | text uploads, reconciler, row versions, counting views | `S3UploaderProofs` | `s3_uploader`, `s3_text`, `s3_counted` |
| `Ingestion` | SDK queue and flush threads, HTTP, the ingestion handlers, Publish | `IngestionProofs` | `ingestion` |
| `Access` | API keys, their cache, rate limits | `AccessProofs` | `access`, `key_revoked` |
| `Accounts` | sign-in, self-hosted bootstrap, settings update | `AccountsProofs` | `accounts` |
| `Sessions` | refresh tokens, signed sessions, cookies | `SessionsProofs` | `sessions` |
| `Analytics` | dashboard queries and their cache over rows that keep arriving | `AnalyticsProofs` | `analytics` |

Each `MC…` module is the instance TLC checks. The chain of an event runs through three
modules that meet at the stream and the table: the `Publish` of `Ingestion` is that of
`EventWorker` (and of `EventDelivery`), where `stream[e].copies` is what the messages of
`EventWorker` are counted as; the `Handle` of `S3Uploader` is the other half of the
`handleMessage` of `EventWorker`; the `Insert` of `Analytics` is the `InsertOk` of
`EventWorker`, repeated insertions included. `Accounts` ends where `Sessions` begins (a
sign-in's token pair) and where `Access` does (a created key).

Every proof module has the same shape: lemmas about the operators, one lemma per conjunct
of the inductive invariant (with a step per action), the invariant's `IInvStep`, and the
theorems, each `Spec => []P` or `Spec => [][A]_vars`. `SumTheorems` is what they need of
induction: the library's induction theorems take the property as an operator, which the
provers cannot instantiate, but the existence of a minimal element takes it as a *set*, and a
least element is enough for induction over the numbers, in the form that a set with 0
that is closed under successors has every number. From it follow the existence and the
uniqueness of partial sums, which is what a sum over a sequence is.

## 3. EventWorker

**Correspondence.** One action per step that another goroutine can observe: what
happens under one lock, or one call to NATS or ClickHouse.

| Code | Model |
|---|---|
| `published`, `stream`, `deliveries`, `outstanding` | work-queue stream EVENTS and its durable consumer (`setup.go:45-104`); `Publish`, `Deliver`, `AckWaitExpire`, `StreamExpire` |
| `EventConsumer.Start` | `Fetch` (top of the loop, the only place that looks at the context), `FetchEnd`, `HandleUndecodable` (Nak), `Handle` |
| `Worker.handleMessage`, `BatchWriter.Add`, `shouldFlush` | `Handle`, `Add`, `ShouldFlush`; a positive answer starts a goroutine of `AsyncFlushers` |
| `buffer`, `ackFuncs`, `memBytes` | the same; an ack closure is the message it acknowledges |
| `BatchWriter.Flush` | `FlushEmpty`, `FlushTake` (first critical section), `InsertOk`, `InsertFail`, `InsertTimeout` (with `PutBack`, the second one), `Ack`, `FlushReturn` |
| `BatchWriter.Start`, `Worker.Start`, `main` | `Tick`, `LoopFinalFlush`, `MainFinalFlush`, `Return`, `Exit`, `Cancel`, `Crash`, `Restart`; `stage` is how far the shutdown has got |

`select` with both the ticker and `ctx.Done` ready may take either, so `Tick` is
possible after `Cancel`; that flush runs under the cancelled context and may fail
outside the failure budget. After `MainFinalFlush` consumers and size-triggered
flushes still run, as nothing waits for them. Age: `firstAt` is replaced by a free
choice (`elapsed`), except that the first Add of a batch never finds it elapsed.
An acknowledgement is a publish without confirmation: it arrives at once or never;
one that arrives after the process has died is not modelled. `rows` counts the rows
of each message, versions apart (S3Uploader has those). Cost calculation is left out,
and the S3 upload that `handleMessage` starts is the other module.

**Runs.**

| Run | Checks | Bounds |
|---|---|---|
| `worker_safety` | `TypeOK`, `AcksMatchEvents`, `MemBytesExact`, `RowsExplained`, `NoEventLost`, `DeliverySpec` | 2 messages of different size, delivered twice each; 2 consumers, 4 flushing goroutines (two of them size-triggered), batches of 2, memory limit 3, 1 failing insert, 1 stop or crash, 1 expired message |
| `worker_liveness` | `EventuallyStored`, `EventuallyStoredOrSpent`, `ShutdownCompletes` | MaxAckPending 2 below BatchSize 3, fetches of 2, one payload that never decodes, 1 failing insert, 2 stops |
| `worker_stranded` | finds `NoMessageStranded` violated | 1 message, MaxDeliver 2 |

Why these bounds are enough to see the interesting cases: a put-back meets newer
events with two messages; overlap of three flushes needs the ticker, the final flush
and one size trigger; a duplicate row needs two deliveries; the second consumer matters
because nothing waits for it in the shutdown. `AsyncFlushers` bounds the goroutines
`handleMessage` may start; a consumer that would need one more waits in the model. The
proofs below lift every bound for the properties they cover.

**Fairness** (`FairSpec`): goroutines keep running and their calls return (every
insert has a timeout); the ticker fires; AckWait runs out; something restarts the
process. Strong fairness where weak is not enough: a message is again and again
deliverable, though `MaxAckPending` and a pending Fetch switch the step off in
between; and `select`, which chooses at random, chooses `ctx.Done` in the end although
the ticker keeps interrupting. Publishing, crashes, cancellation and expiry are not fair.
`EventuallyStored` speaks of behaviours without a stop, as a stop may use up
deliveries; `EventuallyStoredOrSpent` covers those, and `NoMessageStranded` shows the
remaining case is a real one.

**Findings.** `NoMessageStranded`: AckWait (30 s) may expire while a message sits in
the buffer, its deliveries are used up, a crash takes the buffer, and no code calls
`PublishToDLQ`. (Also seen while modelling: `Worker.Start` returns with an event a
consumer added after its last flush, although its comment says it flushes "any remaining
events"; the stream delivers that event again, and `NoEventLost` holds.)

**Proofs** (`EventWorkerProofs`): for any sets of messages, consumers and flushers, any
limits and any number of failures, stops and expiries:

- `TypeCorrect`: `Spec => []TypeOK` (memBytes apart, its type follows only from a sum
  over the buffer);
- `AcksAligned`: `Spec => []AcksMatchEvents`;
- `NothingLost`: `Spec => []NoEventLost`;
- `MemBytesCounted`: `Spec => []MemBytesExact`;
- `RowsAccounted`: `Spec => []RowsExplained`;
- `ImplementsDelivery`: `Spec => Delivery!Spec`, the refinement.

`NoEventLost` is not inductive: a flush that acknowledges must be known to hold
messages already stored (`AcksMatchEvents`, which in turn needs the two slices equal
at every moment they are taken or put back), and what is inserted must be known to be
published (`OnlyPublished`, needed for the refinement's `Store`). `MainFlushesLast`
says that the final flush is idle before its stage, so starting it cannot overwrite a
batch. `IInv` is their conjunction; `IInvStep` has one lemma per conjunct. The central step
is `AckRemovesStored`: a message an `Ack` removes from the stream is in the table.

`MemBytesExact` rests on `BytesConcat` and `BytesAppend`: the size of a batch is the last of
its partial sums (`SumTheorems`). `RowsExplained` counts copies: the copies of a message in a
sequence are its positions there, those in the process its *places* in the fetched
messages, the buffer and the flushes, and each action moves places from one of them to another or
turns them into rows. Its two clauses need each other and two facts more: a process that is not
running has a stop counted (`StopsCounted`), and no more copies are in process than were
delivered (`CopiesOwed`), which is why an insert that took effect and reports an error costs at
most one row per delivery.

The assumptions are the named ASSUMEs of the module; `GoroutinesAssumption` (there are finitely
many goroutines) is needed for counting only. Liveness is only model-checked (fairness, ENABLED).

## 4. S3Uploader

**Correspondence.** `Handle` is the part of `handleMessage` that concerns the text;
`toInsert` stands for the batch writer (a row that comes some time, or is lost with the
process). `Receive`, `Count`, `StartDraining`, `EndDraining` are `processUploads` and
`doUpload`: the request is counted by the WaitGroup one step after it left the channel.
`Upload`, `UploadFail`, `Update`, `UpdateFail` are `uploadEvent` in either goroutine; a
call may also take effect and report failure. `Reconcile` and `ReconcileNext` are the
reconciler; its events come from the table and carry no text. `Exit` waits for the
WaitGroup only. A row's versions are the status of the newest one (`latest`) and the
set of statuses among the older ones (`stale`), which `Merge` removes; `counted` is what
the views have added up, saturating at 2.

Simplifications: only events with text; versions are ordered by the order of the
inserts (`inserted_at` of one insert and of another come from two clocks in the code,
assumed to agree); rows of one batch may appear one after the other; INSERT … SELECT is
one step; a query of the reconciler that fails changes nothing and is not a step.

**Runs.**

| Run | Checks | Bounds |
|---|---|---|
| `s3_uploader` | `TypeOK`, `UploadedMeansObject`, `EventuallyUploaded` | 2 events, queue of 1 (so it overflows), query limit 1 (so older rows can crowd out an event), 1 failing call, 1 stop |
| `s3_text` | finds `TextKept` violated | no failure, no stop, a queue that never overflows |
| `s3_counted` | finds `CountedOnce` violated | the same |

Deadlock is not checked: once all events are handled, uploaded and merged, only timers
that change nothing remain. A failing insert of the run also puts a second pending row
behind an uploaded one, as a redelivery would.

**Fairness**: the two goroutines run and the reconciler's ticker fires, a shutdown ends,
a restart comes, and ClickHouse merges all rows of an event in the end. The last is an
assumption about ClickHouse rather than a fact of this code, and it is needed: if a
merge may for ever keep an older pending row, a query with a limit and no order may
return that event for ever, and another one is never uploaded.

**Findings.** `TextKept`: the reconciler overwrites stored text with an object that has
neither prompt nor response. `CountedOnce`: the row that updates the status is summed
by the materialized views, so every event with text counts, and costs, twice.
(Also seen: `Drain` waits for the WaitGroup only, which counts a request once it has left
the channel, so the process exits with requests still queued, and their text is gone.)

**Proofs** (`S3UploaderProofs`): `UploaderTypes` and `UploadedInS3`. The inductive
invariant adds to `UploadedMeansObject` that a goroutine about to update the status has
stored its event's object (`UpdateAfterUpload`; objects are replaced but never removed),
and for the types that a row waiting to be inserted was handled (`InsertsHandled`, which
bounds `toInsert` by `MaxDeliver`). Liveness is only model-checked.

## 5. Ingestion

**Correspondence.** The SDK's two threads are `"flusher"` (`_run`) and `"caller"`, which
runs `stop` (`client.shutdown`).

| Code | Model |
|---|---|
| `client.track`, `_EventQueue.put` | `Track`: a full queue drops the new event |
| `_run`, `_flush`, `drain`, `_send_batch` | `Check`, `Flush`, `GetNowait` (item by item, in competition with the other thread), `SendBatch`, `Post`, `OnStatus`, `Retry`, `GiveUp` |
| `stop` | `Stop`, `Join` (which may time out), the caller's own `Flush`, `Close` |
| the HTTP request | a record of `calls`; it stays at the server when its client has given up |
| `…/ingestion/middleware.go` | `Refuse`: 401, 429, 500 or 400 (a body cut off at 5 MB does not decode) before the handler; `Access` has the middleware itself |
| `HandleBatch` | `Begin`, `HandleEach` (one event of the loop), `End` (202 whatever was rejected) |
| `HandleEvent` | `HandleEvent`, called by other clients |
| `ValidateEvent`, `buildProtoEvent` | operators over records of which fields are missing or bad and how long the texts are |
| `Publisher.Publish` | `Publish` with the event's id against the stream's duplicate window, which `WindowPasses` ends |

`fate[e]` is what the event's sender knows. A publish may fail before or after the stream
stored the message; an answer may be lost; a call on a closed httpx client raises
`RuntimeError`, which `_send_batch` does not catch (`_flusher.py:159` names `HTTPError`
and `OSError`), and ends the thread. Back-off times are left out: nothing depends on them
but how long a stop takes. `batchSize` and `maxRetries` take every value within bounds.

**Run** `ingestion`: `TypeOK`, `HeldInOnePlace`, `AcceptedIsStored`,
`DuplicatesNeedAWindow`, `StoredIsValid`, `ShutdownCompletes`, `QueuedIsSettled`, with
three events (a plain one, one with a text over the limit, one with track's default
provider "unknown", which the server rejects), a queue of 2 (it overflows), SDK batches up to
3 against the server's 2 (so 400 happens), one retry, one fault, one passing window. One fault is
enough for a lost answer followed by a retry, and an abandoned request still at the
server beside its retry; with one window passing, a duplicate happens.

**Fairness**: the flush thread, the stopping thread and the server's request goroutines
are scheduled. A thread waiting for an answer is covered by the server's fairness; a
request may also be abandoned, which is not fair. Tracking, stopping and failing are not fair.

Deadlock is not checked: after a shutdown with all events settled nothing happens.

**Proofs** (`IngestionProofs`), for any events, requests, queue and batch sizes, retries, faults and
windows: `IngestionTypes`, `EventsInOnePlace` (`HeldInOnePlace`), `AcceptedEventsStored`
(`AcceptedIsStored`), `DuplicatesPaid` (`DuplicatesNeedAWindow`), `StoredEventsValid`
(`StoredIsValid`). `HeldInOnePlace` is inductive beside the types, the others are not. `AcceptedIsStored` needs to know why 202
means stored: a request whose loop is past an event has stored it or rejected it
(`PastIsServed`), and an answer is given only past the last event. `DuplicatesNeedAWindow`
needs that an event whose id is in the window is in the stream, and that each copy beyond the
first is paid by a window that passed (`CopiesPaid`). `StoredIsValid` needs that a message
stays as `buildProtoEvent` made it (`MessagesBuilt`). `EventsInOnePlace` counts the places of an event in
the queue and in the two batches, each step of a thread moving one (`InAppend`, `InTail`). The
assumptions are `RequestAssumption`, `SizesAssumption`, `IngestionBounds`; the two liveness
properties are model-checked only.

## 6. Access

**Correspondence.** A request goes through `checkRateLimit` for its address, `LookUp`,
`Load`, `Fill`, `Verdict`, and `checkRateLimit` for its organization, each a step; the
dashboard's `HandleRevoke` is `RevokeFind`, `RevokeUpdate`, `RevokeInvalidate`. A Redis
error lets a request pass a limit (`waved`), or counts as a miss; the INCR of a failed
pipeline may have been applied, with or without its EXPIRE. `Tick` is a clock that waits for no
one but the requests: `MaxLatency` is the longest a request takes from its arrival to
its end. A key is what its hash is of (`HashKey`), and `Id` is its row's id, which is never a hash.

**Runs.** `access`: `TypeOK`, `RevokedKeyAgesOut`, `SlidingLimit`, `RefusalIsRight`,
`QuietIsAdmitted`, with one key, three requests, entries of 2 ticks, windows of 2 and 1, limits
of 2 and 1, one failed call, 4 ticks: room for an entry filled after the revocation to
expire, and for a window to pass twice. `key_revoked` finds `RevokeInvalidates` violated.

**Finding.** `HandleRevoke` passes the key's id to `GetAPIKeyByHash`, never finds the key,
and so never deletes the cache entry. What saves the day is that entries age:
`RevokedKeyAgesOut` is the bound that holds all the same, five minutes and a request.

**Proofs** (`AccessProofs`), for any keys, requests, windows, limits and bounds:
`AccessTypes`, `RevocationTakesEffect` (`Spec => []RevokedKeyAgesOut`), `RefusalsAreRight`
(`Spec => RefusalIsRight`). `RevokedKeyAgesOut` is not inductive: an accepted request has
its `got` from the cache or from the store, and the cache has its entry from a request that
loaded the key earlier. `IInv` therefore says, besides the types: what is held is known
(`HeldIsKnown`) and "revoked" stays true (`RevokedStaysRevoked`); an active request is
within `MaxLatency` (`InTime`, the guard of `Tick`); a request that is about to fill with a
live key that is revoked by now arrived before the revocation (`LoadedBefore`); hence the
entry it makes ends within `MaxLatency + CacheTTL` of the revocation (`EntryAges`), and whoever
reads it came before that (`HeldAges`). The assumption is `AccessAssumption`.

`LimitSlides` (`Spec => []SlidingLimit`) and `RateRefusalsHaveCause` (`Spec => QuietIsAdmitted`) are
about the counters. A counter is no sliding window: it counts from its first request to its
expiry, which every request renews, refused ones too. So the requests of a counter form *runs*
(`Run`): within a run the count bounds the admitted requests, and a run begins only when the
counter expired, a window after the last admitted request of the run before. An interval as
long as the window meets one run only, and that is `SlidingLimit`; a lost EXPIRE only prolongs a run. That
the expiry is never later than a window after some request that asked (`Renewed`) gives the other.

## 7. Accounts

**Correspondence.** One step per SQL statement of `HandleOAuthCallback` (a process of
`Logins`), of `bootstrapSelfHosted` (a process of `Replicas`) and of the settings'
`HandleUpdate`. Nothing is in a transaction. `StatementFails` takes the error path of the
statement: the handlers log and go on after `AddOrgMember` (a sign-in only),
`CreateProject` and `CreateAPIKey`, and end after the others; `Dies` ends the run
anywhere. `Begin` may start a failed run again. Unique columns are `users.email` and
`organizations.slug`; the slug is made from the name ("Ana" gives "ana-org").

**Run** `accounts`: `TypeOK`, `OneOrgPerUser`, `ReplicasAgree`, `RefusedForCause`,
`SessionIsOwn`, `BootstrapEnsures`, `UntouchedUnlessOverlapped`, with two concurrent
sign-ins of one user and one of a namesake, two processes that bootstrap, two updates
and one failure anywhere. The constraint `Apart` explores updates beside one other process only: no
statement of the others writes a column an update writes. `OneOrgPerUser` is stated for users whose
sign-ins bring one name (`OneName`): if the name changed between two overlapping first ones, the
slugs would differ and each would create an organization.

**What the code does not promise**, and the properties therefore except: a namesake is
refused for ever (the slug is taken); a sign-in whose `AddOrgMember` failed, or that died
before it, locks its user out, as the organization exists and he is not a member; a
bootstrap that failed after `CreateOrg` makes every later start exit, one that failed after
`AddOrgMember` leaves no default project or key, which no later start creates.

**Proofs** (`AccountsProofs`), for any sign-ins, replicas, updates, names and failures: a theorem for
each of the seven properties, `AccountsTypes`, `UsersApart` (`OneOrgPerUser`), `ReplicasServeOne`,
`RefusalsHaveCause`, `SessionsOpenOwn`, `BootstrapCompletes`, `UpdatesKeepTheRest`. They share one inductive
invariant, `Ownership`. Its core: slugs are unique (`UniqueSlugs`), an organization has one
creator (`CreatorsApart`) and only the creator adds a member to it (`MembersCreated`), so
that a membership leads back to the slug, and through it to the name, of the process that made it. Around
it: what each process holds is a row of its table (`HoldsOrg`, `RowsKnown`); a process past
`AddOrgMember` has made its user a member or knows of a failure (`MadeMember`, `FailedForCause`);
what a bootstrap has done by each label (`DefaultsFollow`); and which runs were crowded by another of their
slug (`CrowdKnown`, `SeenStill`), the exception in `RefusedForCause`. The assumption is
`AccountsAssumption`.

## 8. Sessions

**Correspondence.** `tokens` is the table `refresh_tokens` (a row's number stands for the
token, its hash and its cookie), `jar` the cookies of each browser. `Lookup`,
`RevokeRefreshToken`, `issueTokenPair`, `RevokeAllUserTokens`, `DropToken` are the
statements of `HandleRefresh` and `HandleLogout`; `RevokeFails` is logged only, as in the
code; `Answer` sets or clears the cookies, or `AnswerLost`. A refresh is sent by
`tryRefresh`, which shares one attempt per page; two tabs share the cookies and not the
attempt, so requests of one browser overlap. `late`, `quiet`, `debt`, `disturbed` are
history variables the properties need; no step reads them.

**Run** `sessions`: `TypeOK`, `ReuseEndsSessions`, `RotationAccounted`,
`SignedInUnlessDisturbed`, with one user, two browsers, two concurrent requests, three rows, sessions of one
tick, tokens of two, three ticks, one failure. Two requests suffice for each race named
under "hazards", as each is between two; a third row makes the row of the loser.

**What the code does not promise**: two overlapping refreshes both get a pair
(`RotationAccounted` counts them); a retry after a lost answer, or the second tab, is taken
for a reuse and ends every session of the user (`SignedInUnlessDisturbed` excepts it); and
a refresh already past its checks survives reuse detection (`late`).

**Proofs** (`SessionsProofs`), for any users, browsers, requests, lives and failures: `SessionTypes`,
`ReuseEnds` (`ReuseEndsSessions`), `RotationCounts` (`RotationAccounted`), `StaysSignedIn`
(`SignedInUnlessDisturbed`). The inductive invariant begins with ownership: the row a request holds
and the row in a browser's jar are of that browser's user (`HeldKnown`, `JarsOwn`), and no row is in two
jars, nor in one and on its way to another (`RowsApart`). `ReuseEndsSessions` needs what is true of the user's rows and
of the requests in flight since the reuse was detected (`QuietHolds`); `SignedInUnlessDisturbed` what
an undisturbed browser and its one request know of each other (`Settled`, `Steady`);
`RotationAccounted` is a count: live rows of a family and requests about to issue one, a refresh
moving its row from the first to the second when it revokes it. The assumption is
`SessionsAssumption`, with finitely many requests, as they are counted.

## 9. Analytics

**Correspondence.** `inserted[e]` counts the rows of an event: the views add up each, `FINAL`
reads one. A sum is kept as the bag of rows it adds, so that a property can say *which* rows an
answer counts. `HourRows` and `DayRows` are the WHERE clauses of the two families of views,
`RawRows` that of the queries on `events FINAL`; `GetCostBreakdown` and what it dispatches
to, the top and detail queries of the time series and the loop that joins points
(`DetailRows`, `AddRow`, `Series`, `Bucket`) follow `…/storage/clickhouse.go`. Where ORDER BY
leaves an order open so does the model: `Largest` with ties of cost, `DetailRows` with the rows
of one time. A handler is the list of queries it sends (`Handler`), one step each, between
`CheckCache` and `Fill`. A key is the sequence of the parameters that are not empty, since
nothing separates them; a parameter is one word, so that "a" and "bc" is not "ab" and "c" here, though
it is for `cacheKey`, which also cuts the hash to 48 bits. No model or feature is called "_other": one
would be listed twice.

**Run** `analytics`: `TypeOK`, `SeriesPartition`, `PeriodsTile`, `OldRowsAreCounted`,
`OwnAnswer`, with three events of two organizations, two insertions, three ticks, thirteen questions that cover the
five endpoints, each grouping, each period and the pairs whose cache keys collide; two
requests, `Top` 1 (so "_other" is used), a tick of half an hour, days of 2 hours, weeks of 2 days. The
constraint `Apart` explores together only requests with one cache key: others share nothing.
Three ticks are what it takes for an entry to expire (one tick), for a request that fills it to be as late as
it may (`MaxLatency`, one tick) and for a third moment at which its age is seen.
`MaxLatency` is the server's WriteTimeout (`…/dashboard/server.go:58`), after which no
answer is read.

**What the code does not promise.** `OwnAnswer` says that an answer is to a question of the same
organization, endpoint and window, with three exceptions: `cost-filters` answers with
another period's lists, its key having no period; a filter value in another filter's place
has the same key (`Words` are the same, which says less than that each filter is); and a value
that is named like a grouping can be taken for one, so that grouping and filters are those of the question only when
no filter is called "model", "feature" or "project". `OldRowsAreCounted` allows the answer's window to have moved by
`MaxLatency`: a request that came later may fill the entry before an earlier one looks
into the cache, and the earlier one is then answered for the later window.
`getTimeseriesByModel` and `getCostByProject` ignore filters, and are modelled so.

**Proofs** (`AnalyticsProofs`), for any rows, questions, requests, periods, units, `Top` and failures:
`AnalyticsTypes`, `SeriesPartitioned`, `PeriodsTiled`, `OldRowsCounted`, `OwnAnswers`. No property is inductive
by itself, as it speaks of answers only, and these are made of what was read steps before, while rows
went on arriving. `IInv` says of a request what its parts are worth (`HonestRequest`), of an
entry what its answer is and when it expires at the latest (`HonestEntry`), and of a reply how its question and the answer's are
related (`HonestReply`). What a part is worth is measured by `There`, the rows that were in the store when
the request came: inserting adds none to it, since a new row is of now, so that once a part has them all it
does for good (`Later`, `HonestStable`) and only the step that reads the part has to be looked at. Its time must have passed
when a row is inserted (`HappenedFirst`), or a row stored before the request could be of a time after its window.
`SeriesPartition` is about a loop: `Series` is a recursive function, `SeriesLoop` shows by the set
induction of `SumTheorems` that there is one, and `Joined` is the loop's invariant: after k rows, each series is ordered by
time, its last point is not after the k-th row, and each event of those rows is in the point its row was put into, and
in no other. It holds whatever the first query chose. `OwnAnswers` compares what two equal keys are made of
(`SameKey`). The assumptions are `AnalyticsAssumption`: units are
positive, events finitely many, a question's period not empty (`parseDashboardParams` puts "7d") and its grouping
one of `validGroupBy` or none.

## 10. Only checked, and not modelled

Model-checked and not proved: all liveness (`EventuallyStored`,
`EventuallyStoredOrSpent`, `EventuallyUploaded`, both `ShutdownCompletes`, `QueuedIsSettled`), as the
provers know neither fairness's ENABLED nor well-founded progress.

Not modelled:

- prices (`…/worker/cost.go`): one map replaced under a lock and a multiplication in floating
  point; its failing first load is listed as a hazard;
- the percentages, changes and averages the dashboard computes from its sums, among them the
  unsigned difference of request counts in `GetCostCompare` (a hazard); time zones, which no
  query uses; the limits of 100 values in the lists of filters;
- `AutoLoginMiddleware`, logging, CORS, recovery; the handlers that only read (`HandleMe`, whose
  route is shadowed by that of the other auth handlers, `HandleList`, `HandleGet`);
- configuration, connecting, migrations, seed data and traffic generators: no state shared with
  the running system's steps;
- the user interface and the SDK's provider wrappers: sequential code without shared state.

## 11. How to read a property

Each property in the modules is preceded by what it says and the code it is about.
Definitions that begin with "Mutant:" are the bugs used to see that a property can
fail: replacing a definition by its mutant makes TLC refute the property
(`PROJECT.json`, "mutants"). They are not part of `Next`.
