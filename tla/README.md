# View Server: verification project

TLA+ models of `bmvantunes/view-server`, checked with TLC and, where a theorem is stated, proved with TLAPS. View Server
keeps a topic's rows in memory, answers queries over them and keeps subscribers up to date with snapshots and deltas.
What is at stake is that a subscriber who believes its rows current has the right rows, whatever the order in which
mutations, subscribers, builds, refreshes, child processes and shutdown come; most of the models are about that.

Paths below are relative to `src/packages/core/src/` unless they name a document.

## The system

A runtime has one *topic worker* per topic and one chDB child process per worker. Mutations come from sources (Kafka, or
code that calls the runtime) and from clients; clients reach the worker over Effect RPC on a websocket. JavaScript runs
one step at a time, so the interleavings are those of fibers at their awaits, of message handlers and of processes. A
semaphore of one permit, the *gate*, orders a worker's queries, subscribes, unsubscribes, mutations, installs and shutdown.

| Component | State | Operations | Works with | What makes it right |
| --- | --- | --- | --- | --- |
| Mutation store and log (`worker/mutation-store.ts`, `mutation-log.ts`) | rows, id index, version, ring of recent mutations | publish, patch, delete, initial rows, replay | called by the worker core | the index is exact; the ring is the newest run; a replayed copy equals the store |
| Fan-out queue (`worker/fanout-queue.ts`) | events, queued delta, lag | offer delta, status, snapshot | written by fan-out, read by a stream | bounded, ordered, nothing lost or applied twice |
| Subscription registry (`worker/subscription-registry.ts`) | subscriptions by request id | replace, remove by id, remove by queue | core, plans, refreshes | one subscription per id; a late finalizer removes its own only |
| Worker core (`worker/topic-worker-core.ts`) | gate, fibers, health | query, subscribe, unsubscribe, mutate, shutdown | all of the above | each stream is fed or ended; a batch's applied prefix is delivered |
| Active plan coordinator (`worker/active-plan-coordinator.ts`, `active-view.ts`) | plans, pending builds, build queue | prepare, begin, discard, install, release | build fibers, registry | admission is exact; a plan is current when installed; nobody is forgotten |
| Query engine and planner (`worker/query-engine.ts`, `query-planner.ts`, `protocol/query-semantics.ts`) | none | filter, order, window, project, group | core, views | one contract, whichever way a query is answered |
| Active view and sorted index (`worker/active-view.ts`, `active-sorted-index.ts`) | rows by id, blocks of ids | build, apply a mutation, window, delta | plans | every window is a fresh evaluation's |
| Grouped accumulator (`worker/grouped-accumulator.ts`, `aggregate-functions.ts`) | groups with aggregate states | add, remove, update a row | core | equal to a recomputation |
| Grouped refresh coordinator (`worker/grouped-refresh-coordinator.ts`) | scheduled, pending and running requests | schedule, begin, install, reset, release | refresh fibers, backend | an overtaken result is not installed; a stale subscription has a refresh under way |
| Snapshot reconciler (`worker/snapshot-reconciler.ts`) | none | reconcile | core and backend | rows taken are those of the target version |
| chDB backend and supervisor (`snapshot/chdb-backend.ts`, `chdb-worker-supervisor.ts`) | parent's mirror, reported version, restart flags | init, apply, snapshot, restart, close | forked batch fibers, process client | no mutation lost across restarts |
| Process client and child (`snapshot/chdb-process-client.ts`, `chdb-query-worker-entry.ts`, `chdb-in-process-backend.ts`) | pending requests; table, pending mutations, version | request, restart, exit; init, apply, flush, query | IPC messages | every request ends; the version claimed is in the table |
| SQL mirror and compiler (`snapshot/chdb-sql-mirror.ts`, `chdb-sql-compiler.ts`) | columns, live rows | init, upsert, delete, raw and grouped query | child, chDB | answers as memory does |
| Client (`client/create-client.ts`, `live-query-lifecycle.ts`, `live-query-store.ts`, `visible-rows.ts`, the React hook) | rows and status per query, attempts | mount, connect, retry, apply events, close | RPC streams | what is shown was served; nothing is waited for that nobody sends; what is left is cleaned up |
| Runtime (`server/*.ts`) | closing flag, health sync flags, sources | operations, close, health sync | workers, sources | health is never better than what it sums up and catches up; closing ends |
| Kafka (`kafka/*.ts`, `server/kafka-source-supervisor.ts`) | source status, batches, offset | receive, decode, apply, commit, fail, interrupt | runtime | acknowledged is applied, in order and once |
| Websocket transport (`rpc/*.ts`) | sockets, queues, calls, acknowledgements, metrics | connect, ask, send, flush, disconnect, shut down | worker thread, RPC server | order kept; a client that has gone ends; every ask ends |
| Borders (`client/rpc-boundary.ts`, `rpc/wire.ts`, `worker/topic-worker-node-*.ts`, `snapshot/row-wire-codec.ts`, `kafka/record-decoders.ts`) | none | encode, decode, validate | everything | a value survives; an answer decodes |
| Limits, catalog, auth (`server/query-limit-policy.ts`, `config/*.ts`, `server/auth-policy.ts`) | counters | normalise, validate, authorise | runtime operations | what passes can be answered |
| Metrics UI, apps, testing, benchmarks | view state | render, measure | client | not modelled |

Hard behaviours, each listed at its line in `PROJECT.json` under `hazards`: finalizers outside the gate; changes that
arrive between the copy a build or refresh works on and its install; a slow reader's queue being rewritten while it is
read; request ids and connections that overtake each other; batches handed to forked fibers; children and threads that die
between two messages; incremental structures that must stay what a recomputation would give; values that change at a border.

## Modules

| Module | Models | State, actions |
| --- | --- | --- |
| `VersionedTable` | what a topic's memory promises: one value per id, a version that counts writes | `contents`, `tableVersion`; `Write`, `Erase` |
| `MutationLog` | `mutation-log.ts` | operators on a ring record |
| `MutationStore` | `mutation-store.ts`: `table` is rows and index, `copy` an older copy that replay catches up | `Publish`, `UpdateExisting`, `DeleteById`, copies for a build and for a backend |
| `FanoutQueue` | `fanout-queue.ts` as operators | `OfferDelta`, `OfferFull` |
| `LiveQuery` | one raw query without a plan: gate, batches, fan-out stream by stream, subscribe, replace, unsubscribe, finalizers, closing, readers | `MutateBatch`, `FanoutChange`, `Finish`, ... |
| `ActivePlan` | shared plans: admission, build fibers, catch-up, discard, install, release, the counts of health | `Subscribe`, `Mutate`, `Begin`, `Install`, ... |
| `GroupedRefresh` | shared refreshes of grouped queries without an accumulator | `Mutate`, `Begin`, `BackendAnswers`, `CopyMemory`, `Install`, ... |
| `SnapshotFence` | the chDB mirror from the worker's batches to the child's table and back | `Mutate`, `Ask`, `Start`, `Respawn`, `Handle`, `Receive`, `Crash`, `NoticeExit`, `Close...` |
| `RowQuery` | the query contract and its evaluation in memory | operators: `Matches`, `Compare...`, `WindowBySplice`, `WindowByHeap`, `WindowBySort`, `ExecuteRawQuery` |
| `SortedIndex` | `active-sorted-index.ts` | operators on a sequence of blocks |
| `Aggregates` | grouped evaluation and the incremental accumulator | operators |
| `VisibleRows` | `visible-rows.ts`: difference, application by list and by tree | operators |
| `SqlMirror` | the mirror's columns and what the compiled SQL means, with SQL's nulls | operators; a raw answer is a set, SQL leaves ties open |
| `TopicViews` | a topic with its plan, subscriptions, clients and mirror | `Open`, `Close`, `Mutate` (an operation of the store, `Publish` or `Delete`), `RestartMirror` |
| `LiveQueryLifecycle` | what a reader is shown, and the client's store | operators on a store record |
| `ClientSubscription` | one live query of the generated client, its loop and its server over lossy connections | `Mount`, `Attempt`, `TakeEvent`, `TakeError`, `Wake`, `Close`, `HandleSubscribe`, `NoticeGone`, `Lose`, ... |
| `HealthProjection` | worker marks, topic and runtime health, the health rows | operators |
| `KafkaSource` | the consumer's batches and the fate of a source | operators on a source record |
| `ServerRuntime` | operations, health syncs, one Kafka topic, one client topic, closing | `Request`, `LoopSync`, `ReaderFlush`, `PublishRow`, `Receive`, `ApplyBatch`, `CommitRecord`, `Close`, ... |
| `WebsocketClients` | sockets, the RPC server's calls and acks, and the metrics, common to both transports | `FrameArrives`, `WriteRequests`, `NextChunk`, `TakeDisconnect`, as operators and steps of both |
| `SocketFanout` | the in-process transport | `TakeFirst`, `TakeRest`, `Written`, `SocketOver` |
| `IsolatedTransport` | the worker thread, its parent and the two ports | `HandleParentMessage`, `FlushClient`, `ParentReceives`, `ThreadExits`, ... |
| `WebsocketTransport` | the two composed: a behaviour has one of them | `InProcess`, `WorkerThread`, `Bridge` |
| `WireValues` | values and what `wire.ts`, the row codec, the worker protocol and `JSON` make of them | operators |
| `TopicSchema` | the catalog: field kinds and validators read off a schema | operators |
| `ClientCodec` | `rpc-boundary.ts`: queries, rows and patches out, rows and operations in | operators |
| `QueryGate` | configuration, limits, catalog check and authorization in their order | operators |
| `QueryBoundary` | a row's way in (client, server, Kafka) and back (query, subscription), through both placements of the worker and the chDB child | `Ask`, `Admit`, `Answer`, `Receive`, `Subscribe`, `TakeEvent`, `Write`, `Ingest`, ... |
| `FanoutQueueProofs` | what the queue's recursive functions compute for every sequence of events, and what an offer does to a queue | lemmas |
| `MutationStoreProofs`, `LiveQueryProofs`, `ActivePlanProofs`, `GroupedRefreshProofs`, `SnapshotFenceProofs`, `ClientSubscriptionProofs` | inductive invariants and theorems of the module each is named for | |
| `ServerProofs` | the same for `ServerRuntime` and `WebsocketTransport` | |
| `MC...` | constants, scenarios and symmetry for TLC | |

How they compose: `LiveQuery`, `ActivePlan` and `GroupedRefresh` extend `FanoutQueue`; `MutationStore` extends
`MutationLog` and instantiates `VersionedTable` with `contents` computed from the row array; `TopicViews` extends
`SortedIndex`, `Aggregates`, `VisibleRows` and `SqlMirror`, all over `RowQuery`; `ClientSubscription` extends
`LiveQueryLifecycle`; `ServerRuntime` extends `HealthProjection` and `KafkaSource`; `WebsocketTransport` extends
`SocketFanout` and `IsolatedTransport`, both over `WebsocketClients`; `QueryBoundary` extends `QueryGate`, `ClientCodec`,
`TopicSchema` and `WireValues`, each over the next.

Choices common to the models:

* Concurrency and content are separate. In `LiveQuery`, `ActivePlan`, `GroupedRefresh`, `SnapshotFence` and
  `ClientSubscription` rows are *the version that last changed them* (per query, or per row in `SnapshotFence`), and a
  delta carries the rows it was computed from and those it leads to: applied to any other rows it yields garbage, so a
  lost, repeated or reordered delta shows. `TopicViews` has real rows, orders and windows and changes one mutation at a
  time; `QueryBoundary` has real values and their encodings.
* What runs under the gate without an await that others can see is one step; `LiveQuery` alone splits a fan-out by stream,
  because readers take events from the queues meanwhile. In `SnapshotFence` a step of a fiber is what runs between two
  awaits, and a child's step is one message with the flush it causes. `ServerRuntime` breaks steps at policies, gates,
  commits and delays. In the isolated transport a step is one message of a port, one timer or one turn of a thread.
* A reader empties its queue after the queue failed or ended, as `effect`'s queues do.
* Every RPC of the node client opens a connection of its own, so in `ClientSubscription` an `Unsubscribe` may overtake
  the `Subscribe` it means.
* In the isolated transport a `serverBatch` is, for each client, the sequence of its own entries: the thread files them by
  client, and the order of entries of different clients is nowhere used.
* Initial rows have distinct ids; the store itself does not check it. A runtime's startup is over: topics are verified,
  placed and synced once, sources have started.
* In `TopicViews` strings are numbers of which `Fold` gives the lower-case form, sums are exact, an average is the pair of
  sum and count, a concatenation the sequence of its parts. Its ids differ in more than case.
* Operators named as a definition plus a fault (`SwapRemoveLosesMoved`, `SettleBehind`) are seeded faults of that
  definition; no action uses them, and `PROJECT.json` pairs them with the property that detects them.

## Runs

Each run is small in what the properties do not tell apart (ids, streams) and reaches what they do: a ring that wraps, a
full queue, a build released and queued again, a crash, a lost connection. Deadlock is not checked where the models stop at
their bounds (versions, calls, records), at shutdown, or where a child's last crash leaves nothing to do.

| Run | Instance | Shows |
| --- | --- | --- |
| `mutation_store` | 3 ids, 2 values, ring of 2, 4 mutations | index, ring and replay exact; refines `VersionedTable`. Two slots and four mutations wrap the ring twice; three ids give swap-remove its first, middle and last case |
| `live_query` | 2 streams, 2 request ids, 3 versions in batches of 2, coalescing, depth 2 | queues sound, nothing lost, no stream without a feeder, stages only move forward. Three versions overflow a depth of two, by events and by the span of merged deltas |
| `active_plan` | 2 subscribers, 2 keys, 1 plan allowed, 1 build fiber (the default of `activePlanBuildConcurrency`), log of 1, 2 mutations, one query per key, fairness | admission and counts exact, no build forgotten, stale subscribers are told, each gets its own query's rows, waiting ends. Two mutations outrun a log of one, so builds are both caught up and discarded |
| `grouped_refresh` | 2 subscribers of one query, 3 mutations, fairness | nobody stale without a refresh, no overtaken result shown, staleness ends. Refreshes of different queries share nothing but the store's version, so one query is enough |
| `snapshot_fence` | restarts, 2 rows, 2 batches, a query and a refresh, 1 crash | answers exact and no batch lost across failed writes and restarts that race. Two rows tell a lost batch from one that a later write hides |
| `snapshot_fence_chunked` | chunked restarts whose rows may be refused, 1 batch, 2 crashes, fairness | every query ends |
| `topic_views` | 3 rows, 3 fields, nulls, strings `A`, `a`, `b`; two windows over one plan, one filtered memory query, one grouped query; blocks of at most two ids, windows by list, heap and sort, operations by list and tree | plan, accumulator, deltas, client and mirror show what a fresh evaluation does. Unbounded histories: the state is the rows and what was made of them. The thresholds at which the code changes its algorithm (`SpliceLimit`, `HeapLimit`, `BlockSize`, `TreeRows`, `TreeOps`) are constants, set so that three rows cross them |
| `client` | 2 request ids, 2 mutations, a pipe of 2 events, 1 lost connection or `Unsubscribe`, mounted by the hook or by `createStore`, with or without initial data | shows served rows, never waits for a stream nobody feeds, releases, recovers. Two ids give one retry, whose events meet those of the attempt before |
| `runtime` | 3 records in batches of 2; scenarios: no bad record with a client's subscribe, a bad record in each place, one upset of a backend, mark or queue with a client's publish and no commits | log followed, requests for health syncs not forgotten, health truthful; failures shown, closing ends |
| `transport` | both transports; scenarios: two calls of one client, two clients, garbage and an interrupt with unencodable responses, metrics with a thread that dies | order, bounds by acks, exact metrics; disconnects drain, queued responses are written, asks end |
| `boundary` | one topic with required, optional, nullable, literal and untyped fields, the health topic, 18 queries on both sides of each limit, rows that lack fields or have more, envelopes and rows from Kafka, 3 mutations, 1 call | what the server answers decodes at the client and no value changes at a border |
| `active_plan_windows` | two queries that share a key | ends in a violation of `WindowsPerSubscription`: a subscription that joins a pending build is activated with the other subscription's query; `findings` quotes the document |

`active_plan` gives each query a key of its own because of that last run's finding: with a shared key `ServesOwnQuery`
fails as well.

Left out of the samples of `boundary`, because the code does not preserve them (see below): user objects that look like a
tagged number, `undefined` inside arrays, `Schema.optionalKey`, a sum over a union of numbers and decimals. Its live
subscriptions are raw and see all rows; grouped queries are asked once. Sums and joined texts are tokens.

### Disagreements

Where the code does something other than a document, comment or type of the repository says. Those with a property in a
module can be reproduced with TLC by checking it with the constants named; none is checked by a run, apart from
`active_plan_windows`.

* `GroupedRefresh`, `ReuseRequestIds = TRUE`, violates `CurrentUnlessStale`: a request id subscribed again while a refresh
  for its former subscription runs gets the older result over its newer snapshot
  (`worker/grouped-refresh-coordinator.ts:138`; `docs/worker-state-machine-review.md:15`). The run leaves it off, because
  the generated client takes a new id for each attempt.
* `LiveQuery` violates `VersionContiguous`: a mutation that leaves a subscription's rows alone sends nothing, so its next
  delta does not begin at the version the reader has (`worker/topic-worker-core.ts:338`;
  `docs/worker-state-machine-review.md:16`). The client takes the gap for a defect; see `DeadLoopIsShown`.
* In `LiveQuery` a subscribe admitted before closing registers after `Shutdown` emptied the registry; so `ServerRuntime`
  violates `NoSubscriberLeft` (`worker/topic-worker-core.ts:1325`; `docs/fault-tolerance.md:59`). Coalescing across versions
  that sent no delta makes one delta span more versions than `maxQueueDepth` (`worker/fanout-queue.ts:84`; `plan.md:1487`),
  and once a status is queued behind a delta, the next delta's lag replaces the one reported instead of adding to it.
* `SnapshotFence`, `InitMayFail = TRUE`, violates `AcceptedExact`: a restart whose rows were refused leaves a child that
  claims the version; its empty table is accepted (`snapshot/chdb-in-process-backend.ts:83`; `docs/fault-tolerance.md:23`).
  With `ChunkedInit = TRUE` it violates `NoMutationLost`: a batch acknowledged during a chunked restart is discarded by its
  commit (`:85`). Both need `restartWorkerOnUnexpectedExit`, which the default factory (`snapshot/chdb-backend.ts:25`)
  leaves off; the safety run has neither refused nor chunked rows.
* In `SnapshotFence` a `Respawn` under way while the backend closes, or two of them, leave a living child after `CloseEnd`
  (`snapshot/chdb-worker-supervisor.ts:220`; `docs/adr/0002:20`), and `known` runs ahead of the child's version
  (`snapshot/chdb-backend.ts:98`; `CONTEXT.md:59`).
* `TopicViews` violates `GroupedWindowParity`: the SQL of a grouped query orders by what the query asks and leaves ties
  open, where memory appends the groups' fields (`snapshot/chdb-sql-compiler.ts:61`; `protocol/query-semantics.ts:14`). With
  `RowValues <- MCRowValuesMissing` it violates `RawParity`: a row that lacks a column the mirror has as not nullable is
  stored with the type's default (`snapshot/chdb-sql-mirror.ts:337`; `protocol/query-semantics.ts:20`). A column's type is
  never widened either.
* Ids that differ in case only tie in the raw order, and the extreme of such strings may differ between accumulator and
  recomputation; the group key makes one group of `1n` and `"1"`; sums of floating numbers drift in the accumulator. The
  instance has none of these.
* `ClientSubscription` violates `DeadLoopIsShown`: a version gap, an answer that does not decode or the server's shutdown
  ends the loop with the live status still shown (`client/create-client.ts:247`, `:263`; `plan.md:1027`). Before a retry after a
  `TransportError` nothing is unsubscribed (`docs/fault-tolerance.md:40`); the worker drains the old stream when it notices
  the connection.
* Kafka: records below the batch size wait until more come (`kafka/platformatic-consumer.ts:116`); a record that fails
  stops the source for good with the records before it applied and uncommitted (`kafka/ingest.ts:80`); a row with a `type`
  field that looks like an envelope is taken for one, and envelopes other than publish are not validated
  (`kafka/record-decoders.ts:149`, `kafka/ingest.ts:206`).
* Health: syncs that overlap may publish older rows after newer ones, and a reader interrupted in its flush has cleared
  the request for everybody; `FailureIsShown` and `NoRequestForgotten` name both exceptions. `ok` counts the health topic
  itself; a second close returns at once.
* Limits: a query the catalog refuses is not counted as rejected.
* `WebsocketTransport` with `Crash` of `MCTransport` as its only demand violates `DeadThreadDrains`: when the transport thread dies its clients'
  calls stay, and nothing restarts it (`rpc/websocket-isolated-transport.ts:192`; `docs/fault-tolerance.md:27`). The parent
  drops requests that come before the RPC server runs (`:133`); one response that cannot be encoded fails its whole batch;
  a failed write ends the flushing of an in-process client.
* `QueryBoundary`, `Watches <- MCHealthWatches`, violates `AnswersDecode`: a delta of the health topic fails in the client,
  whose configuration has no such topic (`client/rpc-boundary.ts:175`; `docs/operations.md:84`). Optional fields cannot be
  cleared by a client's delta-publish, since `undefined` does not cross the wire.

## Fairness

Weak fairness on the fibers that the scheduler runs whenever they are runnable, and on nothing a peer may withhold:

* `active_plan`: a build fiber. `grouped_refresh`: a refresh's start weakly, its computation and install strongly, since a
  computation may fail and be scheduled again; a backend that failed every time would leave subscribers stale, as documented.
* `snapshot_fence_chunked`: the forked fibers, and that a child that lives answers; `chdb-process-client.ts` sets no
  timeout on requests, so `AnswersCome` is only as good as that assumption.
* `client`: the loop, the closer, and a server that answers and notices closed connections. A reader need not mount or
  close, connections need not be lost.
* `runtime`: the scheduler's fiber, a flush and the closer; sources and brokers owe nothing.
* `transport`: message and timer callbacks, flush fibers and closing sockets, all together as one action, which is less
  than event loops give each. Clients need not connect, ask, acknowledge or close.

`LiveQuery.FairSpec` and `ChangeArrives` (each change reaches each open reader, or its stream ends) are stated, but no run checks them:
the instance of `live_query` is too large for it. It passes with one request id, two versions, depth 1 and no coalescing.

## Proofs

TLC's runs say which formulas hold on a small instance; the theorems hold for every value of the constants. Each inductive
invariant was first checked by TLC on the run of its module.

`MutationStoreProofs`, for any ids, values, log capacity and number of mutations:

* `StoreAlwaysSound` (from `TypeCorrect` and `IndexAlwaysExact`) and `LogAlwaysNewestRun` from one inductive invariant, `IInv`: types (with the ring's
  start and size within capacity), the exact index, the ring as the newest run and `copy.version <= version`. The index
  alone is not inductive: swap-remove relies on ids being distinct in the array, and the ring's order relies on the
  start's range, so they are proved together. The array lemmas (`TabulateExact`, `PutRowExact`, `SwapRemoveExact`) and the
  ring lemmas (`WrapOnce`, `WrapInjective`, `WrapShift`, `AppendKeepsRun`) carry the work; each action then has one step.
* `ReplayAlwaysOffered`: a copy at most a log's capacity behind is never refused.
* `ReplayAlwaysCatchesUp`, from `ReplayInv`. `CopyCatchesUp` claims more than `ReplayCatchesUp`: replay brings the copy to the
  present whenever the log is long enough, whether or not it is asked to. It is kept by each mutation because what the log
  holds above the copy's version is its newest stretch (`HeldIsStretch`), an appended entry is replayed last
  (`NewestIsReplayedLast`), and replaying it does to a table what the mutation did (`GoodLog` says that entries which are no
  deletes carry values). A backend's copy has an order of its own, so swap-remove moves other rows in it than in memory:
  the two are compared by the value of each id and by length (`Same`), which every entry keeps (`ReplayKeepsSame`). `Replay`
  and `EntriesExclusive` are recursive functions over the log; they are unrolled as in `FanoutQueueProofs`, which see.
* `StoreImplementsTable`: initial states and steps map to those of `VersionedTable`.

`FanoutQueueProofs` has no theorem of its own. What a reader shows (`RowsShown`), whether it is stale (`StaleShown`), the
lag (`QueuedLag`) and the queue without statuses (`WithoutStatus`) are recursive functions over the queued events. The
module unrolls each at both ends: readers take the oldest event, offers append the newest. The library's induction theorems
take an operator and are of no use here, so induction goes by a set: one that holds 0 and the successor of what it holds,
up to a bound, holds everything up to the bound (`UpTo`, from the least element outside it). On this rest
`ShownFromOldest`, `OfferFullTells` and what an accepted or refused delta does to a queue, which the next three modules cite.

`LiveQueryProofs`, for any streams, request ids, versions, batches and queue limits:

* `EveryStreamFed`. `NoOrphan` alone is not inductive: a refused offer clears the registration of the stream's request id
  whoever holds it by then. `Fed` closes the gap: the streams a fan-out still has to visit are open or closed by their own
  finalizer, and when the gate is free there are none, so nothing that needs the gate (a replacement, an unsubscribe,
  shutdown) can have ended them in between. `EndOne` covers every way a single stream ends.
* `NoChangeLost`. What is queued for an open stream takes its reader to the version and rows the worker holds for it.
  Between the changes of a batch the streams stand at different versions; `Sound` says at which: `Done(s)`, which depends on
  whether the fan-out has visited the stream, and `Standing(s)`, the rows it may have (a view is moved change by change,
  memory is ahead by the whole batch). `InOrder` keeps a chain of versions also in the queues of streams that have ended,
  because readers still empty those. Its part `Drains` says that there
  is a function tracing the queue; TLC, which cannot enumerate such functions, has checked the form that computes the trace.
* `QueuesStaySound`, where `MaxQueueDepth > 0`: configuration admits positive depths only (`config/define-config.ts:329`),
  and with a depth of zero the initial snapshot alone would exceed it.
* `NeverBack`: the action property `OnlyForward`, from the same invariant.

`ActivePlanProofs`, for any requests, queries, keys, build fibers, limits, log sizes and numbers of mutations, has one
inductive invariant, `IInv` (theorem `Inductive`):

* `BooksAreRight`: the coordinator counts subscriptions up and down; `Books` says of each plan and build whose count it is
  (the cardinality of those who name it), and `PlansSound`, types included, follows from it. That every subscription is
  counted by one of plans, builds and fallbacks compares sums over plans with one over subscriptions; it is proved by
  numbering the members of each plan (`PairsCounted`).
* `BuildsAreNotForgotten`. `NoBuildForgotten` is not inductive: the key of a build that runs may be queued, and the fiber
  that takes it will drop it. `Remembered` is: a build that is queued has its key in the queue or with a fiber that has
  just taken it, and one that runs has a fiber that runs it.
* `ReadersAreTold`: for this a subscription's queue must show what the worker believes, and the events in it be no newer
  than the topic (`Told`, `Ordered`), so that no two deltas have one identity.
* `OwnQueriesServed`, where no two queries share a key. Those that differ in their window do share one in the code; then
  the property fails, which is what `active_plan_windows` shows.

`GroupedRefreshProofs`, for any requests, queries, fibers, limits and numbers of mutations:

* `NobodyIsForgotten`, although ids may be used again. `ListsSound` and `MarksSound` say what the two marks of a
  subscription mean for the coordinator's lists, `FibersSound` which fiber each refresh has. `Owed` has a parameter, the
  requests for which the claim is suspended, because a handler first marks the subscriptions it concerns (stale, or idle
  again) and then schedules them.
* `StalenessAlwaysTold`: `StaleIsTold`, the half of `ClientsTold` that needs no hypothesis.
* `ClientsAreToldRight`, while no request id is used again (`~ReuseRequestIds`, the setting of the run; with it the
  property fails, see above). A refresh may install rows for a request only if the subscription under that id is the one
  it was computed for (`OwnRefresh`), and rows stay those of the version that a dirty mark names (`UpToDirt`).

`SnapshotFenceProofs`, for any rows, readers, numbers of mutations and crashes, has one inductive invariant, `IInv` (theorem
`Inductive`), under `Sheltered`: the child is not restarted, which is the default, or a restart's rows arrive in one request
and are taken. Without it `NoMutationLost` and `AcceptedExact` fail, which are the hazards at
`snapshot/chdb-in-process-backend.ts:83` and `:85`; the chunked and refused init is left to `snapshot_fence_chunked`, and of it
only that queries end is claimed.

* `ReadersGetTheirVersion`. `FenceSound` speaks of the answer taken; what makes it true is what travels. A child's table
  holds the rows of its version (`SoundTable`), pending batches apart, so a response made from it is right for the version it
  carries; it is right for its reader because among all children, dead ones included, at most one message or response is
  for a fiber (`Alone`) and it is of the kind the fiber waits for (`SoundMessage`, `SoundResponse`). An answer that outlives
  its child can then never be taken for the answer to a later request. `Owner` numbers responses before messages, so that
  handling a request leaves the owner of each place as it was (`Fewer`). A query holds the gate until it ends, so what it asks for stays the store's
  version (`Asked`).
* `MutationsReachTheWorker`. A living child has, or has been sent, each mutation the mirror has (`Covered`), and the
  batches whose fibers still wait are exactly those the mirror lacks (`Forked`); a restart hands over the mirror, so the
  two together leave no gap when a child is replaced.

`ClientSubscriptionProofs`, for any request ids, mutations, lost connections and limit of the pipe, has one inductive
invariant, `IInv`:

* `RowsShownWereServed`. Every event on its way carries the rows of the version it leads to (`SoundEvent`), and history only
  grows, so an event that is late is still right about its version. The store keeps rows and version from the same event.
* `ReadersAreFed`. `ReaderIsFed` is not inductive: a request whose connection was lost may still be registered, and what
  feeds its loop then is the end of the stream in the pipe. `Awaited` says so; it relies on `SoundRequest`, by which a request id
  is subscribed once and a stream that has its end is fed no more, and on `Fresh`: nothing is known of ids not used yet.

`ServerProofs` for `ServerRuntime`, for any log, batch size, bad records, topics, syncs and scenarios:

* `LogAlwaysFollowed`. `SourceFollows` says for each state of the source which records are in its hands: what was applied,
  the batch and what is pending are consecutive runs of the log, also while a batch is dispatched and may or may not have
  been applied, and after a stream ends or is interrupted.
* `RequestsAlwaysAnswered`, with `FlagsSound`: a pending flush has its fiber and an open scheduler.
* `HealthAlwaysTrue`: of every state of the right shape; it is a fact about the operators of `HealthProjection`.

`ServerProofs` for `WebsocketTransport`, for both transports, any finite clients and calls and any demands, has one
inductive invariant, `TransportInv`:

* `DeliveredAlwaysInOrder`. What a client got and what waits for it at each place it passes, joined (`Whole`), is what the
  RPC server sent it (`Ordered`). Each step moves entries across one border of that sequence; entries go missing only with
  the socket, after a defect or with the thread, and then the client's socket is no longer open or the client knows.
  `Placed` ties the places to the socket: nothing is being written outside a flush, and what was sent to a client that is
  not connected is empty.
* `ClientsAlwaysSound`. That a call has one chunk under way is not inductive: it rests on the ack, which is under way in
  the other direction. `Account` keeps the books of a call on both sides of the ports: requests, chunks sent and got, acks
  sent and acks coming, the exit. What is counted per client is in a socket's hands (`Placed`), at most two responses of each
  call (`CountsBounded`). Before the RPC server runs, and after it is over, no call goes on (`Unserved`), which is why a
  request the parent drops leaves the books right.

Assumptions, each named in the module that declares the constants: capacities, depths and bounds are naturals; marks of
absence are none of what they stand beside (`NoVal`, `NoStream`, `NoSub`, `NoKey`, `NoQuery`); initial row arrays have distinct ids;
`KeyOf` gives each query a key; readers of the mirror are no batches and `Nobody` is no fiber (`FibersDiffer`); in `RuntimeAssumption` the topics' names differ; in
`ClientsAssumption` clients are numbered from 0, as the server numbers its connections, and clients and calls are finite.

Only model-checked:

* `TopicViews` and `QueryBoundary`: their algorithms and codecs compute by recursive operators, which the provers do not take.
* All liveness: `WaitingEnds`, `StaleEnds`, `AnswersCome`, and those of the client, the runtime and the transports.

## Plan

1. Done: the worker's memory, live queries, plans, refreshes and fence; views, aggregates and mirror; the client; the
   runtime with health and Kafka; the transports; the borders. Proofs for the store, live queries, plans, refreshes,
   the fence, the client, the runtime and the transports.
2. Further models: startup and the supervision of worker threads; redelivery by Kafka after a restart of the process.

## Not modelled

Rendering and the metrics UI, apps, benchmarks, the testing harness, tracing and timing counters. Byte estimates of plans
are a nondeterministic limit. Signals and the timers of termination are one step; a child that survives `SIGKILL` is not
considered. Startup (verification of topics, placement, the first health sync), loading of configuration and environment,
the schema registries of Kafka, HTTP and listening on a port. The text of the SQL, of messages and of errors. chDB itself:
`SqlMirror` states what its SQL means. Interruption of a subscribe between its registration and its finalizer. States of
aggregates that no accumulated query reaches.
