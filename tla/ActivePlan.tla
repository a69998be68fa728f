----------------------------- MODULE ActivePlan -----------------------------
(***************************************************************************)
(* Shared active plans of one topic worker: raw subscriptions whose        *)
(* queries have the same filter and order share one plan (a sorted index), *)
(* built in the background from a copy of the rows, caught up through the  *)
(* mutation log and installed under the gate.  A subscription that waits   *)
(* for its plan is not recomputed on a change: it is told that it is stale *)
(* and gets one snapshot when the build is installed or given up.          *)
(*                                                                         *)
(* Everything done under the gate is one step here (LiveQuery interleaves  *)
(* readers with a fan-out); the builders, the removals by finalizers and   *)
(* the readers interleave with those steps.  A query's rows are a pair     *)
(* <<query, version that last changed them>>.                              *)
(***************************************************************************)
EXTENDS FanoutQueue, FiniteSets, Functions

CONSTANTS
  Requests, Queries, Keys, Builders,
  KeyOf,               (* query -> plan key (activeRawPlanKey)                    *)
  NoSub, NoQuery, NoKey,
  MaxActivePlans,      (* worker.maxActivePlans                                   *)
  MutationLogSize,     (* worker.mutationLogSize                                  *)
  BytesLimited,        (* whether maxActivePlanEstimatedBytes is set              *)
  MaySkip,             (* whether a topic may outgrow activePlanAutoBuildMaxRows  *)
  MaxVersion,          (* bound of the model on the number of mutations           *)
  MaxSubscribes        (* bound of the model on the number of subscribe calls     *)

ASSUME ActivePlanConstants ==
  /\ KeyOf \in [Queries -> Keys]
  /\ NoQuery \notin Queries /\ NoKey \notin Keys
  /\ {MaxActivePlans, MutationLogSize, MaxVersion, MaxSubscribes} \subseteq Nat
  /\ {BytesLimited, MaySkip} \subseteq BOOLEAN

VARIABLES
  version,     (* the topic's version                                           *)
  changed,     (* query -> the versions whose mutation changed its rows         *)
  sub,         (* request id -> its registered subscription, or NoSub           *)
  reader,      (* request id -> [rows, stale]: what its store shows             *)
  plans,       (* plan key -> [at, subscribers]; `at` is the version of its data *)
  builds,      (* plan key -> [query, requests, state]                          *)
  buildQueue,  (* activePlanBuildQueue                                          *)
  builder,     (* build fiber -> [phase, key, query, version]                   *)
  asked,       (* subscribe calls so far                                        *)
  open         (* FALSE once the worker has shut down                           *)

vars == <<version, changed, sub, reader, plans, builds, buildQueue, builder, asked, open>>

RowsOf(q, v) == <<q, Max({c \in changed[q] : c <= v} \cup {0})>>

Idle == [phase |-> "idle", key |-> NoKey, query |-> NoQuery, version |-> 0]

With(f, k, entry) == [j \in DOMAIN f \cup {k} |-> IF j = k THEN entry ELSE f[j]]

Without(f, k) == Restrict(f, DOMAIN f \ {k})

Subscribed == {r \in Requests : sub[r] # NoSub}

Pending(s) == (s.build # NoKey \/ s.skipped) /\ ~s.fallback /\ s.view = NoQuery

-----------------------------------------------------------------------------
(* What the removal of the subscriptions of the requests R releases. *)

PlanUsers(k, R) == {r \in R : sub[r] # NoSub /\ sub[r].plan = k}

ReleasePlans(ps, R) ==
  LET left == {k \in DOMAIN ps : ps[k].subscribers > Cardinality(PlanUsers(k, R))}
  IN  [k \in left |-> [ps[k] EXCEPT !.subscribers = @ - Cardinality(PlanUsers(k, R))]]

ReleaseBuilds(bs, R) ==
  LET Waiting(k) == bs[k].requests \ {r \in R : sub[r] # NoSub /\ sub[r].build = k}
  IN  [k \in {j \in DOMAIN bs : Waiting(j) # {}} |-> [bs[k] EXCEPT !.requests = Waiting(k)]]

(* The lifecycle that the registry keeps of a subscription. *)

MarkQueued(s, k) == [s EXCEPT !.build = k]

MarkSkipped(s) == [s EXCEPT !.skipped = TRUE, !.build = NoKey]

MarkFallback(s) == [s EXCEPT !.build = NoKey, !.fallback = TRUE]

Activated(s, k, q) ==
  [s EXCEPT !.plan = k, !.build = NoKey, !.fallback = FALSE, !.skipped = FALSE, !.view = q]

ApplyDelta(s, rows) == [s EXCEPT !.rows = rows]

ApplySnapshot(s, rows) == [s EXCEPT !.rows = rows, !.dirty = FALSE]

(* A fresh snapshot (or the failure of a full queue) ends the staleness. *)
Refreshed(s, rows) ==
  LET offer == OfferFull(s.queue, SnapshotEvent(version, rows))
  IN  IF offer.offered THEN [ApplySnapshot(s, rows) EXCEPT !.queue = offer.queue] ELSE NoSub

(* A status tells that the subscription is stale; a full queue ends it. *)
MarkedDirty(s, v) ==
  LET offer == OfferFull(s.queue, StatusEvent(v))
  IN  IF offer.offered THEN [s EXCEPT !.dirty = TRUE, !.queue = offer.queue] ELSE NoSub

(* Seeded fault of MarkedDirtyForBatch: only a batch of one kind is told. *)
MarkedDirtyForBatchLast(s, first, second, v) ==
  IF s # NoSub /\ s.query \in second THEN MarkedDirty(s, v) ELSE s

(* One status for the changes of a batch that concern the subscription. *)
MarkedDirtyForBatch(s, first, second, v) ==
  IF s # NoSub /\ s.query \in first \cup second THEN MarkedDirty(s, v) ELSE s

-----------------------------------------------------------------------------
Init ==
  /\ version = 0
  /\ changed = [q \in Queries |-> {}]
  /\ sub = [r \in Requests |-> NoSub]
  /\ reader = [r \in Requests |-> [rows |-> NoRows, stale |-> FALSE]]
  /\ plans = << >>
  /\ builds = << >>
  /\ buildQueue = << >>
  /\ builder = [b \in Builders |-> Idle]
  /\ asked = 0
  /\ open = TRUE

(* Seeded fault of CountLimitReached: one plan more than the limit. *)
CountLimitOneMore(ps, bs) == Cardinality(DOMAIN ps) + Cardinality(DOMAIN bs) > MaxActivePlans

(* The count limit of a new build. *)
CountLimitReached(ps, bs) == Cardinality(DOMAIN ps) + Cardinality(DOMAIN bs) >= MaxActivePlans

Fresh(q) ==
  [query |-> q, build |-> NoKey, plan |-> NoKey, view |-> NoQuery, skipped |-> FALSE,
   fallback |-> FALSE, dirty |-> FALSE, rows |-> RowsOf(q, version),
   queue |-> [EmptyQueue EXCEPT !.events = <<SnapshotEvent(version, RowsOf(q, version))>>]]

(* subscribe and prepareSubscription: the subscription that the request id *)
(* named before is released first; then the new one takes the plan of its  *)
(* key, joins its build, is skipped or refused, or queues a build.         *)
Subscribe(r, q) ==
  LET k == KeyOf[q]
      ps == ReleasePlans(plans, {r})
      bs == ReleaseBuilds(builds, {r})
      Admit(s, ps2, bs2, queued) ==
        /\ sub' = [sub EXCEPT ![r] = s]
        /\ plans' = ps2 /\ builds' = bs2 /\ buildQueue' = queued
      Activate == Admit(Activated(Fresh(q), k, q),
                        [ps EXCEPT ![k].subscribers = @ + 1], bs, buildQueue)
      Join == Admit(MarkQueued(Fresh(q), k), ps,
                    [bs EXCEPT ![k].requests = @ \cup {r}], buildQueue)
      Skip == Admit(MarkSkipped(Fresh(q)), ps, bs, buildQueue)
      FallBack == Admit(MarkFallback(Fresh(q)), ps, bs, buildQueue)
      Enqueue == Admit(MarkQueued(Fresh(q), k), ps,
                       With(bs, k, [query |-> q, requests |-> {r}, state |-> "queued"]),
                       Append(buildQueue, k))
  IN  /\ open
      /\ asked < MaxSubscribes
      /\ asked' = asked + 1
      /\ reader' = [reader EXCEPT ![r] = [rows |-> NoRows, stale |-> FALSE]]
      /\ \/ k \in DOMAIN ps /\ Activate
         \/ k \notin DOMAIN ps /\ k \in DOMAIN bs /\ Join
         \/ /\ k \notin DOMAIN ps \cup DOMAIN bs
            /\ \/ MaySkip /\ Skip
               \/ (BytesLimited \/ CountLimitReached(ps, bs)) /\ FallBack
               \/ ~CountLimitReached(ps, bs) /\ Enqueue
      /\ UNCHANGED <<version, changed, builder, open>>

(* Unsubscribe, or the finalizer of the subscription's stream. *)
Release(r) ==
  /\ sub[r] # NoSub
  /\ sub' = [sub EXCEPT ![r] = NoSub]
  /\ plans' = ReleasePlans(plans, {r})
  /\ builds' = ReleaseBuilds(builds, {r})
  /\ UNCHANGED <<version, changed, reader, buildQueue, builder, asked, open>>

(* Every plan applies the n changes; one that missed some stays behind. *)
Applied(ps, n) ==
  [k \in DOMAIN ps |-> [ps[k] EXCEPT !.at = IF @ = version THEN @ + n ELSE @]]

(* The fan-out is over: who it removed has released what it held. *)
Tell(told, ps) ==
  LET removed == {r \in Subscribed : told[r] = NoSub}
  IN  /\ sub' = told
      /\ plans' = ReleasePlans(ps, removed)
      /\ builds' = ReleaseBuilds(builds, removed)

(* One mutation and its fan-out: it concerns the fields of the queries in  *)
(* `relevant` and changes the rows of those in `hits`.  Every plan applies *)
(* it, then each subscription it concerns is told: a waiting one that it   *)
(* is stale, the others by the difference of their rows.                   *)
Mutate(relevant, hits) ==
  LET v == version + 1
      After(q) == IF q \in hits THEN <<q, v>> ELSE RowsOf(q, v)
      applied == Applied(plans, 1)
      ViewRows(s) == IF s.view \notin hits THEN s.rows
                     ELSE IF applied[s.plan].at = v THEN <<s.view, v>>
                     ELSE RowsOf(s.view, applied[s.plan].at)
      Moved(s, rows) ==
        LET offer == OfferDelta(s.queue, DeltaEvent(version, v,
                                                    <<[base |-> s.rows, rows |-> rows]>>))
        IN  IF rows = s.rows THEN s
            ELSE IF offer.offered THEN [ApplyDelta(s, rows) EXCEPT !.queue = offer.queue]
            ELSE NoSub
      Told(s) == IF s = NoSub \/ s.query \notin relevant THEN s
                 ELSE IF Pending(s) THEN MarkedDirty(s, v)
                 ELSE Moved(s, IF s.view = NoQuery THEN After(s.query) ELSE ViewRows(s))
  IN  /\ open
      /\ version < MaxVersion
      /\ version' = v
      /\ changed' = [q \in Queries |-> IF q \in hits THEN changed[q] \cup {v} ELSE changed[q]]
      /\ Tell([r \in Requests |-> IF sub[r] = NoSub THEN NoSub ELSE Told(sub[r])], applied)
      /\ UNCHANGED <<reader, buildQueue, builder, asked, open>>

AllPending == Subscribed # {} /\ \A r \in Subscribed : Pending(sub[r])

(* Two changes of one batch while every subscription waits for its plan:   *)
(* each is told once, at the version of the last.  The first change        *)
(* concerns and changes the queries `first`, the second those in `second`. *)
MutateTogether(first, second) ==
  LET v == version + 2
      At(q, hits, w) == IF q \in hits THEN {w} ELSE {}
  IN  /\ open
      /\ AllPending
      /\ v <= MaxVersion
      /\ version' = v
      /\ changed' = [q \in Queries |->
                       changed[q] \cup At(q, first, version + 1) \cup At(q, second, v)]
      /\ Tell([r \in Requests |-> MarkedDirtyForBatch(sub[r], first, second, v)],
              Applied(plans, 2))
      /\ UNCHANGED <<reader, buildQueue, builder, asked, open>>

-----------------------------------------------------------------------------
(* activePlanBuildLoop *)

Take(b) ==
  /\ builder[b].phase = "idle"
  /\ buildQueue # << >>
  /\ builder' = [builder EXCEPT ![b] = [Idle EXCEPT !.phase = "taken", !.key = Head(buildQueue)]]
  /\ buildQueue' = Tail(buildQueue)
  /\ UNCHANGED <<version, changed, sub, reader, plans, builds, asked, open>>

(* Seeded fault of Begin: the build is not marked as begun. *)
BeginUnmarked(b) ==
  LET k == builder[b].key
  IN  /\ builder[b].phase = "taken"
      /\ builder' = [builder EXCEPT ![b] =
           IF k \in DOMAIN builds
             THEN [phase |-> "building", key |-> k, query |-> builds[k].query,
                   version |-> version]
             ELSE Idle]
      /\ UNCHANGED <<version, changed, sub, reader, plans, builds, buildQueue, asked, open>>

(* Copy the rows, unless the build is gone or another fiber has begun it. *)
Begin(b) ==
  LET k == builder[b].key
  IN  /\ builder[b].phase = "taken"
      /\ IF k \in DOMAIN builds /\ builds[k].state = "queued"
           THEN /\ builds' = [builds EXCEPT ![k].state = "building"]
                /\ builder' = [builder EXCEPT ![b] = [phase |-> "building", key |-> k,
                                                      query |-> builds[k].query,
                                                      version |-> version]]
           ELSE builder' = [builder EXCEPT ![b] = Idle] /\ UNCHANGED builds
      /\ UNCHANGED <<version, changed, sub, reader, plans, buildQueue, asked, open>>

(* The registered subscriptions that wait for the build of key k. *)
Waiters(k) == IF k \in DOMAIN builds
                THEN {r \in builds[k].requests : sub[r] # NoSub /\ sub[r].build = k}
                ELSE {}

(* Seeded fault of Discard: its waiters are not told that it is gone. *)
DiscardKeepsWaiters(k) == builds' = Without(builds, k) /\ UNCHANGED <<plans, sub>>

(* A waiter falls back to memory, and is refreshed from it if it is stale. *)
Discarded(s) ==
  LET fallen == MarkFallback(s)
  IN  IF s.dirty THEN Refreshed(fallen, RowsOf(s.query, version)) ELSE fallen

(* discardBuild *)
Discard(k) ==
  /\ sub' = [r \in Requests |-> IF r \in Waiters(k) THEN Discarded(sub[r]) ELSE sub[r]]
  /\ builds' = Without(builds, k)
  /\ UNCHANGED plans

(* catchUpActivePlan: the log still holds what changed since the copy. *)
CaughtUp(from) == version - from <= MutationLogSize

PlanVersion(from) == IF version - from <= MutationLogSize THEN version ELSE from

(* Seeded fault of Installed: the stale waiters are activated, not refreshed. *)
InstalledStale(s, k, q, from) == Activated(s, k, q)

(* A waiter is activated with a view of the query the build was begun for. *)
Installed(s, k, q, from) ==
  LET active == Activated(s, k, q)
  IN  IF s.dirty THEN Refreshed(active, RowsOf(q, PlanVersion(from))) ELSE active

(* installBuild: the plan goes to the waiters the build has by now, and    *)
(* stays if any of them does.                                              *)
InstallPlan(k, q, from) ==
  LET kept == {r \in Waiters(k) : Installed(sub[r], k, q, from) # NoSub}
  IN  /\ sub' = [r \in Requests |-> IF r \in Waiters(k) THEN Installed(sub[r], k, q, from) ELSE sub[r]]
      /\ builds' = Without(builds, k)
      /\ plans' = IF kept = {} THEN plans
                  ELSE With(plans, k, [at |-> PlanVersion(from), subscribers |-> Cardinality(kept)])

(* The plan is ready: install it, or discard it when the log no longer     *)
(* covers its version or the limits leave no room.                         *)
Install(b) ==
  LET k == builder[b].key
      fits == Cardinality(DOMAIN plans) + Cardinality(DOMAIN builds) <= MaxActivePlans
  IN  /\ builder[b].phase = "building"
      /\ builder' = [builder EXCEPT ![b] = Idle]
      /\ \/ /\ CaughtUp(builder[b].version) /\ fits
            /\ InstallPlan(k, builder[b].query, builder[b].version)
         \/ /\ ~CaughtUp(builder[b].version) \/ ~fits \/ BytesLimited
            /\ Discard(k)
      /\ UNCHANGED <<version, changed, reader, buildQueue, asked, open>>

(* The build is estimated too large, or fails. *)
Abandon(b) ==
  /\ builder[b].phase = "building"
  /\ builder' = [builder EXCEPT ![b] = Idle]
  /\ Discard(builder[b].key)
  /\ UNCHANGED <<version, changed, reader, buildQueue, asked, open>>

-----------------------------------------------------------------------------
Deliver(r) ==
  LET event == Head(sub[r].queue.events)
  IN  /\ sub[r] # NoSub
      /\ sub[r].queue.events # << >>
      /\ sub' = [sub EXCEPT ![r].queue.events = Tail(@)]
      /\ reader' = [reader EXCEPT ![r] =
           [rows |-> RowsTaken(@.rows, event), stale |-> event.type = "status"]]
      /\ UNCHANGED <<version, changed, plans, builds, buildQueue, builder, asked, open>>

(* The worker's shutdown clears the registry and the coordinator and       *)
(* interrupts the build fibers.                                            *)
Shutdown ==
  /\ open
  /\ open' = FALSE
  /\ sub' = [r \in Requests |-> NoSub]
  /\ plans' = << >> /\ builds' = << >> /\ buildQueue' = << >>
  /\ builder' = [b \in Builders |-> Idle]
  /\ UNCHANGED <<version, changed, reader, asked>>

Build(b) == Take(b) \/ Begin(b) \/ Install(b) \/ Abandon(b)

Next ==
  \/ \E r \in Requests, q \in Queries : Subscribe(r, q)
  \/ \E r \in Requests : Release(r) \/ Deliver(r)
  \/ \E relevant \in SUBSET Queries : \E hits \in SUBSET relevant : Mutate(relevant, hits)
  \/ \E first, second \in SUBSET Queries : MutateTogether(first, second)
  \/ \E b \in Builders : Build(b)
  \/ Shutdown

Spec == Init /\ [][Next]_vars

(* The build fibers run on; nothing is assumed of subscribers or mutations.*)
FairSpec == Spec /\ \A b \in Builders : WF_builder(Build(b))

-----------------------------------------------------------------------------
(* The counts that the coordinator's metrics report to health: of what the *)
(* plans and builds remember (a sum over them, as the size of a disjoint   *)
(* union), and of the marks of the subscriptions.                          *)
Metrics ==
  [views |-> Cardinality(UNION {{k} \X (1 .. plans[k].subscribers) : k \in DOMAIN plans}),
   pending |-> Cardinality(UNION {{k} \X builds[k].requests : k \in DOMAIN builds}),
   fallbacks |-> Cardinality({r \in Subscribed : sub[r].fallback}),
   skipped |-> Cardinality({r \in Subscribed : sub[r].skipped})]

(* Properties *)

Rows == (Queries \X Nat) \cup {NoRows}

Subscription ==
  [query : Queries, build : Keys \cup {NoKey}, plan : Keys \cup {NoKey},
   view : Queries \cup {NoQuery}, skipped : BOOLEAN, fallback : BOOLEAN, dirty : BOOLEAN,
   rows : Rows, queue : Queues(Rows)]

ASSUME NoSubscription == NoSub \notin Subscription

TypeOK ==
  /\ version \in Nat /\ asked \in Nat /\ open \in BOOLEAN
  /\ changed \in [Queries -> SUBSET (1 .. version)]
  /\ sub \in [Requests -> {NoSub} \cup Subscription]
  /\ reader \in [Requests -> [rows : Rows, stale : BOOLEAN]]
  /\ DOMAIN plans \subseteq Keys
  /\ \A k \in DOMAIN plans : plans[k] \in [at : Nat, subscribers : Nat \ {0}]
  /\ DOMAIN builds \subseteq Keys
  /\ \A k \in DOMAIN builds :
       builds[k] \in [query : Queries, requests : SUBSET Requests, state : {"queued", "building"}]
  /\ buildQueue \in Seq(Keys)
  /\ builder \in [Builders -> [phase : {"idle", "taken", "building"}, key : Keys \cup {NoKey},
                               query : Queries \cup {NoQuery}, version : Nat]]

(* Plans and builds are counted exactly: a plan exists as long as it has   *)
(* users and knows how many, a build exists as long as somebody waits for  *)
(* it, no key has both, and together they stay within maxActivePlans,      *)
(* whatever the order of subscribing, replacing, leaving, backpressure and *)
(* builds that end.                                                        *)
AdmissionExact ==
  /\ \A k \in Keys :
       LET users == {r \in Subscribed : sub[r].plan = k}
           waiting == {r \in Subscribed : sub[r].build = k}
       IN  /\ k \in DOMAIN plans <=> users # {}
           /\ k \in DOMAIN plans => plans[k].subscribers = Cardinality(users)
           /\ k \in DOMAIN builds <=> waiting # {}
           /\ k \in DOMAIN builds => builds[k].requests = waiting
           /\ users = {} \/ waiting = {}
  /\ Cardinality(DOMAIN plans) + Cardinality(DOMAIN builds) <= MaxActivePlans

(* The counts of health account for every subscription once: it is served  *)
(* by a view, waits for a build, fell back or was skipped.                 *)
EachCountedOnce ==
  Metrics.views + Metrics.pending + Metrics.fallbacks + Metrics.skipped
    = Cardinality(Subscribed)

(* A build that waits has its key in the queue or with a fiber that is     *)
(* about to begin it, and one that runs has a fiber: no waiting            *)
(* subscription is forgotten, even when builds are released and queued     *)
(* again under the same key while fibers hold it.                          *)
NoBuildForgotten ==
  \A k \in DOMAIN builds :
    \/ \E i \in 1 .. Len(buildQueue) : buildQueue[i] = k
    \/ \E b \in Builders :
         /\ builder[b].key = k
         /\ builder[b].phase = IF builds[k].state = "queued" THEN "taken" ELSE "building"

(* What a reader shows once it has taken what is queued: the rows the      *)
(* worker believes it has, marked stale exactly as long as the worker owes *)
(* it a refresh.                                                           *)
StaleIsTold ==
  \A r \in Subscribed :
    /\ RowsShown(reader[r].rows, sub[r].queue.events) = sub[r].rows
    /\ StaleShown(reader[r].stale, sub[r].queue.events) <=> sub[r].dirty

(* A subscription that is not marked stale has the rows its own query has  *)
(* at the current version.                                                 *)
ServesOwnQuery ==
  \A r \in Subscribed : ~sub[r].dirty => sub[r].rows = RowsOf(sub[r].query, version)

(* A plan in use has applied every mutation: the copy it was built from    *)
(* and the log it was caught up with left no gap.                          *)
PlansCurrent == \A k \in DOMAIN plans : plans[k].at = version

(* The coordinator's own books are right: types, admission, counts, and    *)
(* plans that are current.                                                 *)
PlansSound == TypeOK /\ AdmissionExact /\ EachCountedOnce /\ PlansCurrent

Waits(r) == sub[r] # NoSub /\ sub[r].build # NoKey

(* A subscription does not wait for a plan for ever: it gets it, or falls  *)
(* back to memory, or ends; and then it does not stay stale, unless its    *)
(* topic was too large to build for (docs/operations.md).                  *)
WaitingEnds ==
  \A r \in Requests :
    []<>(~Waits(r) /\ (sub[r] = NoSub \/ ~sub[r].dirty \/ sub[r].skipped))

-----------------------------------------------------------------------------
(* What the documents say and the code does not do. *)

(* Offset, limit and fields are a window of each subscription of its own   *)
(* over the shared plan: an activated subscription is served by a view of  *)
(* its own query.                                                          *)
WindowsPerSubscription ==
  \A r \in Subscribed : sub[r].view # NoQuery => sub[r].view = sub[r].query
=============================================================================
