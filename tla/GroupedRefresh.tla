--------------------------- MODULE GroupedRefresh ---------------------------
(***************************************************************************)
(* The refresh of grouped subscriptions that have no incremental           *)
(* accumulator.  A mutation only marks such a subscription stale and       *)
(* schedules a refresh, shared by all subscriptions with the same query; a *)
(* fiber debounces, fixes the subscriptions and the version it computes    *)
(* for, asks the snapshot backend, copies memory when the backend is not   *)
(* at that very version, and installs the result under the gate, unless a  *)
(* newer mutation has dirtied the subscription meanwhile.                  *)
(*                                                                         *)
(* What happens under the gate is one step.  The key of a refresh is the   *)
(* query itself, and its rows are <<query, version that last changed them>>.*)
(* When one fan-out both removes and schedules subscriptions of a query,   *)
(* the removals come first; another order forks at most fewer fibers.      *)
(***************************************************************************)
EXTENDS FanoutQueue, FiniteSets, Functions, TLC

CONSTANTS
  Requests, Queries, NoSub,
  ReuseRequestIds,   (* FALSE: as the generated client, a new id for each attempt *)
  MaxVersion,        (* bound of the model on the number of mutations             *)
  MaxSubscribes      (* bound of the model on the number of subscribe calls       *)

ASSUME GroupedRefreshConstants ==
  ReuseRequestIds \in BOOLEAN /\ MaxVersion \in Nat /\ MaxSubscribes \in Nat

VARIABLES
  version,    (* the topic's version                                            *)
  changed,    (* query -> the versions whose mutation changed its rows          *)
  sub,        (* request id -> its registered subscription, or NoSub            *)
  reader,     (* request id -> [rows, stale]: what its store shows              *)
  used,       (* the request ids of the subscribe calls so far                  *)
  asked,      (* their number                                                   *)
  entries,    (* query -> [requests, pending, running, state], the coordinator  *)
  sleeping,   (* query -> the number of fibers that have not begun              *)
  flight,     (* query -> [phase, requests, version], the fiber that has begun  *)
  open        (* FALSE once the worker has shut down                            *)

vars == <<version, changed, sub, reader, used, asked, entries, sleeping, flight, open>>

(* The rows of a query are named by the version that last changed them. *)
Rows == (Queries \X Nat) \cup {NoRows}

(* Its queue holds snapshots and statuses only. *)
Subscription ==
  [query : Queries, dirty : Nat, scheduled : BOOLEAN, inFlight : BOOLEAN, rows : Rows,
   queue : [events : Seq({event \in Events(Rows) : event.type # "delta"}),
            pending : {0}, lag : {0}]]

ASSUME NoSubscription == NoSub \notin Subscription

NotDirty == 0   (* dirtyTargetVersion undefined; a mutation's version is at least 1 *)

NoFlight == [phase |-> "none", requests |-> {}, version |-> 0]

RowsOf(q, v) == <<q, Max({c \in changed[q] : c <= v} \cup {0})>>

Subscribed == {r \in Requests : sub[r] # NoSub}

-----------------------------------------------------------------------------

(* GroupedRefreshCoordinator.release for the requests R. *)
ReleaseRequests(es, R) ==
  LET Left(q) == [es[q] EXCEPT !.requests = @ \ R, !.pending = @ \ R, !.running = @ \ R]
      over == {q \in DOMAIN es : es[q].state = "queued" /\ Left(q).requests \cup Left(q).pending = {}}
  IN  [q \in DOMAIN es \ over |-> Left(q)]

(* The marks that the registry keeps of a refresh. *)

MarkScheduled(s) == [s EXCEPT !.scheduled = TRUE]

MarkInFlight(s) == [s EXCEPT !.scheduled = FALSE, !.inFlight = TRUE]

MarkIdle(s) == [s EXCEPT !.scheduled = FALSE, !.inFlight = FALSE]

(* The subscriptions of R with query q that are neither scheduled nor in flight. *)
Schedulable(subs, R, q) ==
  {r \in R : /\ subs[r] # NoSub
             /\ subs[r].query = q
             /\ ~subs[r].scheduled /\ ~subs[r].inFlight}

(* They start a refresh of their query, join the one that is queued, or    *)
(* wait for the next when it runs already.                                 *)
Joined(es, q, new) ==
  CASE q \notin DOMAIN es ->
         [requests |-> new, pending |-> {}, running |-> {}, state |-> "queued"]
    [] q \in DOMAIN es /\ es[q].state = "queued" -> [es[q] EXCEPT !.requests = @ \cup new]
    [] q \in DOMAIN es /\ es[q].state = "running" -> [es[q] EXCEPT !.pending = @ \cup new]

(* schedule, for the requests R; a refresh that starts forks a fiber. *)
Scheduled(subs, es, R) ==
  LET New(q) == Schedulable(subs, R, q)
      starts == {q \in Queries : New(q) # {} /\ q \notin DOMAIN es}
  IN  [subs |-> [r \in Requests |->
                   IF \E q \in Queries : r \in New(q) THEN MarkScheduled(subs[r])
                                                      ELSE subs[r]],
       entries |-> [q \in DOMAIN es \cup starts |-> Joined(es, q, New(q))],
       forked |-> starts]

Become(s) ==
  /\ sub' = s.subs
  /\ entries' = s.entries
  /\ sleeping' = [q \in Queries |-> sleeping[q] + IF q \in s.forked THEN 1 ELSE 0]

-----------------------------------------------------------------------------
Init ==
  /\ version = 0
  /\ changed = [q \in Queries |-> {}]
  /\ sub = [r \in Requests |-> NoSub]
  /\ reader = [r \in Requests |-> [rows |-> NoRows, stale |-> FALSE]]
  /\ used = {} /\ asked = 0
  /\ entries = << >>
  /\ sleeping = [q \in Queries |-> 0]
  /\ flight = [q \in Queries |-> NoFlight]
  /\ open = TRUE

Fresh(q) ==
  [query |-> q, dirty |-> NotDirty, scheduled |-> FALSE, inFlight |-> FALSE,
   rows |-> RowsOf(q, version),
   queue |-> [EmptyQueue EXCEPT !.events = <<SnapshotEvent(version, RowsOf(q, version))>>]]

Subscribe(r, q) ==
  /\ open
  /\ asked < MaxSubscribes
  /\ ReuseRequestIds \/ r \notin used
  /\ asked' = asked + 1
  /\ used' = used \cup {r}
  /\ sub' = [sub EXCEPT ![r] = Fresh(q)]
  /\ entries' = ReleaseRequests(entries, {r})
  /\ reader' = [reader EXCEPT ![r] = [rows |-> NoRows, stale |-> FALSE]]
  /\ UNCHANGED <<version, changed, sleeping, flight, open>>

(* Unsubscribe, or the finalizer of the subscription's stream. *)
Release(r) ==
  /\ sub[r] # NoSub
  /\ sub' = [sub EXCEPT ![r] = NoSub]
  /\ entries' = ReleaseRequests(entries, {r})
  /\ UNCHANGED <<version, changed, reader, used, asked, sleeping, flight, open>>

(* One mutation and its fan-out (markGroupedSubscriptionDirty): the        *)
(* subscriptions whose fields it touches are dirty up to it and told so, a *)
(* full queue ends them, and those without a refresh in flight are         *)
(* scheduled.                                                              *)
Mutate(relevant, hits) ==
  LET v == version + 1
      Stale(s) ==
        LET offer == OfferFull(s.queue, StatusEvent(v))
        IN  IF offer.offered THEN [s EXCEPT !.dirty = v, !.queue = offer.queue] ELSE NoSub
      concerned == {r \in Subscribed : sub[r].query \in relevant}
      told == [r \in Requests |-> IF r \in concerned THEN Stale(sub[r]) ELSE sub[r]]
      removed == {r \in concerned : told[r] = NoSub}
  IN  /\ open
      /\ version < MaxVersion
      /\ version' = v
      /\ changed' = [q \in Queries |-> IF q \in hits THEN changed[q] \cup {v} ELSE changed[q]]
      /\ Become(Scheduled(told, ReleaseRequests(entries, removed), concerned))
      /\ UNCHANGED <<reader, used, asked, flight, open>>

-----------------------------------------------------------------------------
(* begin: the debounced fiber fixes its version and its subscriptions.     *)
Begin(q) ==
  LET due == {r \in entries[q].requests : sub[r] # NoSub /\ sub[r].dirty # NotDirty}
  IN  /\ sleeping[q] > 0
      /\ sleeping' = [sleeping EXCEPT ![q] = @ - 1]
      /\ IF q \notin DOMAIN entries \/ entries[q].state = "running"
           THEN UNCHANGED <<sub, entries, flight>>
         ELSE IF due = {}
           THEN /\ entries' = Restrict(entries, DOMAIN entries \ {q})
                /\ UNCHANGED <<sub, flight>>
         ELSE /\ entries' = [entries EXCEPT ![q].requests = {}, ![q].running = due,
                                            ![q].state = "running"]
              /\ sub' = [r \in Requests |->
                   IF r \in due THEN MarkInFlight(sub[r]) ELSE sub[r]]
              /\ flight' = [flight EXCEPT ![q] = [phase |-> "asking", requests |-> due,
                                                  version |-> version]]
      /\ UNCHANGED <<version, changed, reader, used, asked, open>>

(* Who waits for the refresh of q, in whatever way. *)
Everyone(q) ==
  IF q \in DOMAIN entries
    THEN entries[q].requests \cup entries[q].pending \cup entries[q].running
    ELSE {}

(* Seeded fault of Reset: nobody is scheduled again. *)
ResetForgets(q) ==
  /\ entries' = Restrict(entries, DOMAIN entries \ {q})
  /\ flight' = [flight EXCEPT ![q] = NoFlight]
  /\ UNCHANGED <<sub, sleeping>>

(* reset: the entry goes, and who is still dirty is scheduled again. *)
Reset(q) ==
  LET mine == {r \in Everyone(q) : sub[r] # NoSub}
      idle == [r \in Requests |-> IF r \in mine THEN MarkIdle(sub[r]) ELSE sub[r]]
  IN  /\ Become(Scheduled(idle, Restrict(entries, DOMAIN entries \ {q}),
                          {r \in mine : sub[r].dirty # NotDirty}))
      /\ flight' = [flight EXCEPT ![q] = NoFlight]

(* The backend answers for exactly the version asked. *)
BackendAnswers(q) ==
  /\ flight[q].phase = "asking"
  /\ flight' = [flight EXCEPT ![q].phase = "computed"]
  /\ UNCHANGED <<version, changed, sub, reader, used, asked, entries, sleeping, open>>

(* It fails, is at another version or there is none: memory is copied      *)
(* under the gate, at the version it has by then, for the subscriptions    *)
(* that are still there and dirty.                                         *)
CopyMemory(q) ==
  LET still == {r \in flight[q].requests : sub[r] # NoSub /\ sub[r].dirty # NotDirty}
  IN  /\ flight[q].phase = "asking"
      /\ IF still = {}
           THEN Reset(q)
           ELSE /\ flight' = [flight EXCEPT ![q] = [phase |-> "computed", requests |-> still,
                                                    version |-> version]]
                /\ UNCHANGED <<sub, entries, sleeping>>
      /\ UNCHANGED <<version, changed, reader, used, asked, open>>

(* The computation dies. *)
Fail(q) ==
  /\ flight[q].phase # "none"
  /\ Reset(q)
  /\ UNCHANGED <<version, changed, reader, used, asked, open>>

(* Seeded fault of UpToDate: what happened during the refresh is ignored. *)
UpToDateAlways(s, v) == TRUE

(* No newer mutation dirtied the subscription while the refresh computed. *)
UpToDate(s, v) == s.dirty = NotDirty \/ s.dirty <= v

(* A snapshot, or the failure of a full queue, ends the staleness. *)
Refreshed(s, v, rows) ==
  LET offer == OfferFull(s.queue, SnapshotEvent(v, rows))
  IN  IF offer.offered
        THEN [MarkIdle(s) EXCEPT !.rows = rows, !.dirty = NotDirty, !.queue = offer.queue]
        ELSE NoSub

(* Of the subscriptions q was computed for, those that take the result, and *)
(* those that a newer mutation has dirtied or that came while it ran.       *)
Fit(q) == {r \in flight[q].requests : sub[r] # NoSub /\ UpToDate(sub[r], flight[q].version)}

Overtaken(q) ==
  ({r \in flight[q].requests : sub[r] # NoSub} \ Fit(q))
    \cup (IF q \in DOMAIN entries THEN {r \in entries[q].pending : sub[r] # NoSub} ELSE {})

(* installGroupedRefresh: the result goes to the subscriptions the refresh *)
(* was begun for, found by their request ids, unless a newer mutation has  *)
(* dirtied them; these, and those that came while it ran, are scheduled    *)
(* again if they are dirty.                                                *)
Install(q) ==
  LET has == flight[q]
      after == [r \in Requests |->
                  IF r \in Fit(q) THEN Refreshed(sub[r], has.version, RowsOf(q, has.version))
                  ELSE IF r \in Overtaken(q) THEN MarkIdle(sub[r])
                  ELSE sub[r]]
      removed == {r \in Fit(q) : after[r] = NoSub}
  IN  /\ has.phase = "computed"
      /\ flight' = [flight EXCEPT ![q] = NoFlight]
      /\ Become(Scheduled(after,
                          ReleaseRequests(Restrict(entries, DOMAIN entries \ {q}), removed),
                          {r \in Overtaken(q) : after[r] # NoSub /\ after[r].dirty # NotDirty}))
      /\ UNCHANGED <<version, changed, reader, used, asked, open>>

-----------------------------------------------------------------------------
Deliver(r) ==
  LET event == Head(sub[r].queue.events)
  IN  /\ sub[r] # NoSub
      /\ sub[r].queue.events # << >>
      /\ sub' = [sub EXCEPT ![r].queue.events = Tail(@)]
      /\ reader' = [reader EXCEPT ![r] =
           [rows |-> RowsTaken(@.rows, event), stale |-> event.type = "status"]]
      /\ UNCHANGED <<version, changed, used, asked, entries, sleeping, flight, open>>

(* The worker's shutdown clears the registry and the coordinator and       *)
(* interrupts the refresh fibers.                                          *)
Shutdown ==
  /\ open
  /\ open' = FALSE
  /\ sub' = [r \in Requests |-> NoSub]
  /\ entries' = << >>
  /\ sleeping' = [q \in Queries |-> 0]
  /\ flight' = [q \in Queries |-> NoFlight]
  /\ UNCHANGED <<version, changed, reader, used, asked>>

Compute(q) == BackendAnswers(q) \/ CopyMemory(q)

Next ==
  \/ \E r \in Requests, q \in Queries : Subscribe(r, q)
  \/ \E r \in Requests : Release(r) \/ Deliver(r)
  \/ \E relevant \in SUBSET Queries : \E hits \in SUBSET relevant : Mutate(relevant, hits)
  \/ \E q \in Queries : Begin(q) \/ Compute(q) \/ Fail(q) \/ Install(q)
  \/ Shutdown

Spec == Init /\ [][Next]_vars

(* The refresh fibers run on, and a query whose computation can be started *)
(* and installed over and over does not fail every single time.            *)
FairSpec == Spec /\ \A q \in Queries : /\ WF_vars(Begin(q))
                                      /\ SF_vars(Compute(q)) /\ SF_vars(Install(q))

-----------------------------------------------------------------------------
(* Properties *)

TypeOK ==
  /\ version \in Nat /\ asked \in Nat /\ open \in BOOLEAN /\ used \subseteq Requests
  /\ changed \in [Queries -> SUBSET (1 .. version)]
  /\ sub \in [Requests -> Subscription \cup {NoSub}]
  /\ \A r \in Subscribed : sub[r].dirty <= version
  /\ reader \in [Requests -> [rows : Rows, stale : BOOLEAN]]
  /\ DOMAIN entries \subseteq Queries
  /\ \A q \in DOMAIN entries :
       entries[q] \in [requests : SUBSET Requests, pending : SUBSET Requests,
                       running : SUBSET Requests, state : {"queued", "running"}]
  /\ \A q \in DOMAIN entries : entries[q].state = "queued" => entries[q].requests # {}
  /\ sleeping \in [Queries -> Nat]
  /\ flight \in [Queries -> [phase : {"none", "asking", "computed"},
                             requests : SUBSET Requests, version : Nat]]

(* Who is stale is on somebody's list: scheduled in a refresh of its own   *)
(* query that a fiber will begin, waiting for the refresh that runs to     *)
(* end, or in that refresh; never left stale with nothing under way.       *)
NoOneForgotten ==
  /\ \A r \in Subscribed : sub[r].dirty # NotDirty =>
       /\ sub[r].query \in DOMAIN entries
       /\ LET entry == entries[sub[r].query]
          IN  \/ entry.state = "queued" /\ sub[r].scheduled /\ r \in entry.requests
              \/ entry.state = "running" /\ sub[r].scheduled /\ r \in entry.pending
              \/ /\ entry.state = "running" /\ sub[r].inFlight
                 /\ r \in entry.running \cap flight[sub[r].query].requests
  /\ \A q \in DOMAIN entries :
       IF entries[q].state = "queued" THEN sleeping[q] > 0 ELSE flight[q].phase # "none"

(* What a reader shows once it has taken what is queued: the rows the      *)
(* worker believes it has, marked stale exactly as long as the worker owes *)
(* it a refresh.                                                           *)
StaleIsTold ==
  \A r \in Subscribed :
    /\ RowsShown(reader[r].rows, sub[r].queue.events) = sub[r].rows
    /\ StaleShown(reader[r].stale, sub[r].queue.events) <=> sub[r].dirty # NotDirty

(* A subscription that is not marked stale has the result its own query    *)
(* has at the current version: a refresh that a newer mutation overtook is *)
(* not installed over it.                                                  *)
CurrentUnlessStale ==
  \A r \in Subscribed : sub[r].dirty = NotDirty => sub[r].rows = RowsOf(sub[r].query, version)

(* What clients are told is right: types, staleness and results. *)
ClientsTold == TypeOK /\ StaleIsTold /\ CurrentUnlessStale

(* A stale subscription is refreshed up to date at last, or ends. *)
StaleEnds ==
  \A r \in Requests :
    (sub[r] # NoSub /\ sub[r].dirty # NotDirty) ~> (sub[r] = NoSub \/ sub[r].dirty = NotDirty)
=============================================================================
