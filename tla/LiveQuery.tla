----------------------------- MODULE LiveQuery -----------------------------
(***************************************************************************)
(* One topic worker serving one raw query to several subscribers: the gate *)
(* that orders mutations, subscribes and unsubscribes, the fan-out of each *)
(* change to the registered subscriptions, their queues with coalescing    *)
(* and backpressure, the subscribe finalizer that runs outside the gate,   *)
(* shutdown, and the reader at the far end of each queue.                  *)
(*                                                                         *)
(* The rows of the query are abstracted to the version that last changed   *)
(* them: `changed` holds those versions, and RowsAt(v) is the newest one   *)
(* up to v.  A stream is one subscribe call, with a queue of its own; its  *)
(* request id is the client's choice.  The transport between a queue and   *)
(* its reader keeps the order of the events and adds nothing, so a reader  *)
(* takes events straight off the queue.                                    *)
(***************************************************************************)
EXTENDS FanoutQueue, FiniteSets

CONSTANTS
  Streams,     (* subscribe calls                                   *)
  Requests,    (* request ids they may use                          *)
  NoStream,    (* registry value of an id without a subscription    *)
  MaxVersion,  (* bound of the model on the number of mutations     *)
  MaxBatch     (* bound of the model on the mutations of one batch  *)

ASSUME LiveQueryConstants ==
  /\ NoStream \notin Streams
  /\ NoRows \in Int
  /\ MaxVersion \in Nat
  /\ MaxBatch \in Nat

VARIABLES
  version,   (* the topic's version                                          *)
  changed,   (* the versions whose mutation changed the query's rows         *)
  fan,       (* [at, last, todo]: the change being fanned out, the last one  *)
             (* of its batch, the streams that still have to see it          *)
  registry,  (* request id -> stream                                         *)
  stream,    (* stream -> [phase, request, path, rows, queue, told]          *)
  reader,    (* stream -> [version, rows, gap]                               *)
  worker     (* "open", "closing" (operations refused), "stopped"            *)

vars == <<version, changed, fan, registry, stream, reader, worker>>

RowsAt(v) == LET upTo == {c \in changed : c <= v} IN Max(upTo \cup {0})

GateFree == fan.at > fan.last

Registered == {registry[r] : r \in Requests} \ {NoStream}

-----------------------------------------------------------------------------
Init ==
  /\ version = 0
  /\ changed = {}
  /\ fan = [at |-> 1, last |-> 0, todo |-> {}]
  /\ registry = [r \in Requests |-> NoStream]
  /\ stream = [s \in Streams |-> [phase |-> "idle", request |-> NoStream, path |-> "memory",
                                  rows |-> 0, queue |-> EmptyQueue, told |-> "nothing"]]
  /\ reader = [s \in Streams |-> [version |-> 0, rows |-> 0, gap |-> FALSE]]
  /\ worker = "open"

(* A subscribe call passes the runtime's ensureOpen. *)
Ask(s, r) ==
  /\ worker = "open"
  /\ stream[s].phase = "idle"
  /\ stream' = [stream EXCEPT ![s].phase = "asked", ![s].request = r]
  /\ UNCHANGED <<version, changed, fan, registry, reader, worker>>

(* Queue.end and Queue.fail: the queue accepts nothing more, its consumer  *)
(* still takes what it holds and then learns the outcome.                  *)
Finished(st, outcome) == [st EXCEPT !.phase = "ending", !.told = outcome]

(* Under the gate: the fenced snapshot, the end of a subscription with the *)
(* same request id, the registration and the snapshot event.  An active    *)
(* plan that exists already serves the subscription from then on ("view"), *)
(* else every change re-runs the query over memory.                        *)
Subscribe(s) ==
  LET previous == registry[stream[s].request]
      Opened(path) == [stream[s] EXCEPT
                         !.phase = "open", !.path = path, !.rows = RowsAt(version),
                         !.queue.events = <<SnapshotEvent(version, RowsAt(version))>>]
  IN  /\ GateFree
      /\ stream[s].phase = "asked"
      /\ \E path \in {"memory", "view"} :
           stream' = [t \in Streams |->
                        IF t = s THEN Opened(path)
                        ELSE IF t = previous THEN Finished(stream[t], "replaced")
                        ELSE stream[t]]
      /\ registry' = [registry EXCEPT ![stream[s].request] = s]
      /\ UNCHANGED <<version, changed, fan, reader, worker>>

(* Seeded fault of Unsubscribe: the queue ends, the registration stays. *)
UnsubscribeKeepsRegistration(r) ==
  /\ GateFree
  /\ registry[r] # NoStream
  /\ stream' = [stream EXCEPT ![registry[r]] = Finished(@, "unsubscribed")]
  /\ UNCHANGED <<version, changed, fan, registry, reader, worker>>

Unsubscribe(r) ==
  /\ GateFree
  /\ registry[r] # NoStream
  /\ stream' = [stream EXCEPT ![registry[r]] = Finished(@, "unsubscribed")]
  /\ registry' = [registry EXCEPT ![r] = NoStream]
  /\ UNCHANGED <<version, changed, fan, reader, worker>>

(* A batch changes memory as a whole before its changes are fanned out one *)
(* after the other; the gate stays taken until the last one is.  `hits`    *)
(* are the changes that alter the query's rows.                            *)
MutateBatch(n, hits) ==
  /\ GateFree
  /\ version + n <= MaxVersion
  /\ version' = version + n
  /\ changed' = changed \cup hits
  /\ fan' = [at |-> version + 1, last |-> version + n, todo |-> Registered]
  /\ UNCHANGED <<registry, stream, reader, worker>>

(* The rows a subscription diffs against: the active view has applied the  *)
(* changes up to this one, memory already holds the whole batch.           *)
RowsAfter(s) == IF stream[s].path = "view" THEN RowsAt(fan.at) ELSE RowsAt(version)

(* The visible rows changed: the subscription advances and its delta is    *)
(* offered; when it is refused the subscription is removed and its queue   *)
(* failed.  A queue whose consumer is gone takes no offer.                 *)
FanoutChange(s) ==
  LET delta == DeltaEvent(fan.at - 1, fan.at,
                          <<[base |-> stream[s].rows, rows |-> RowsAfter(s)]>>)
      offer == OfferDelta(stream[s].queue, delta)
      kept == [stream[s] EXCEPT !.rows = RowsAfter(s), !.queue = offer.queue]
  IN  /\ s \in fan.todo
      /\ RowsAfter(s) # stream[s].rows
      /\ fan' = [fan EXCEPT !.todo = @ \ {s}]
      /\ IF stream[s].phase = "closed"
           THEN UNCHANGED <<stream, registry>>
         ELSE IF offer.offered
           THEN stream' = [stream EXCEPT ![s] = kept] /\ UNCHANGED registry
         ELSE /\ stream' = [stream EXCEPT ![s] = Finished(kept, "backpressure")]
              /\ registry' = [registry EXCEPT ![stream[s].request] = NoStream]
      /\ UNCHANGED <<version, changed, reader, worker>>

(* No event: an update of fields the query does not depend on is skipped   *)
(* before the rows are looked at, and any other change is dropped when the *)
(* rows it leaves are those the subscription has.                          *)
FanoutNothing(s) ==
  /\ s \in fan.todo
  /\ fan.at \notin changed \/ RowsAfter(s) = stream[s].rows
  /\ fan' = [fan EXCEPT !.todo = @ \ {s}]
  /\ UNCHANGED <<version, changed, registry, stream, reader, worker>>

NextChange ==
  /\ ~GateFree
  /\ fan.todo = {}
  /\ fan' = [fan EXCEPT !.at = @ + 1,
                        !.todo = IF fan.at < fan.last THEN Registered ELSE {}]
  /\ UNCHANGED <<version, changed, registry, stream, reader, worker>>

(* The consumer takes the oldest event, and the reader's store applies it: *)
(* a snapshot replaces rows and version, a delta must start at the store's *)
(* version, which else throws versionGap.  The rows are what a reader that *)
(* ignores versions makes of the operations.                               *)
Deliver(s) ==
  LET event == Head(stream[s].queue.events)
      has == reader[s]
  IN  /\ stream[s].phase \in {"open", "ending"}
      /\ stream[s].queue.events # << >>
      /\ stream' = [stream EXCEPT ![s].queue.events = Tail(@)]
      /\ reader' = [reader EXCEPT ![s] =
           IF event.type = "snapshot"
             THEN [version |-> event.from, rows |-> RowsTaken(has.rows, event), gap |-> has.gap]
             ELSE [version |-> event.to, rows |-> RowsTaken(has.rows, event),
                   gap |-> has.gap \/ has.version # event.from]]
      /\ UNCHANGED <<version, changed, fan, registry, worker>>

(* Seeded fault of Finalize: it removes by request id alone. *)
FinalizeByRequest(s) ==
  /\ stream' = [stream EXCEPT ![s].phase = "closed", ![s].queue = EmptyQueue]
  /\ registry' = [registry EXCEPT ![stream[s].request] = NoStream]
  /\ UNCHANGED <<version, changed, fan, reader, worker>>

(* The scope of a stream closes and its finalizer runs, without the gate:  *)
(* it removes the registration, if that is still this queue's.             *)
Finalize(s) ==
  /\ stream' = [stream EXCEPT ![s].phase = "closed", ![s].queue = EmptyQueue]
  /\ registry' = [r \in Requests |-> IF r = stream[s].request /\ registry[r] = s
                                       THEN NoStream ELSE registry[r]]
  /\ UNCHANGED <<version, changed, fan, reader, worker>>

(* The consumer has drained an ended or failed queue. *)
Finish(s) ==
  /\ stream[s].phase = "ending"
  /\ stream[s].queue.events = << >>
  /\ Finalize(s)

(* The consumer walks away. *)
Leave(s) ==
  /\ stream[s].phase \in {"asked", "open", "ending"}
  /\ Finalize(s)

(* The runtime refuses new operations. *)
CloseRuntime ==
  /\ worker = "open"
  /\ worker' = "closing"
  /\ UNCHANGED <<version, changed, fan, registry, stream, reader>>

(* The worker's shutdown: the registry is emptied under the gate, then the *)
(* queues are failed.                                                      *)
Shutdown ==
  /\ worker = "closing"
  /\ GateFree
  /\ worker' = "stopped"
  /\ registry' = [r \in Requests |-> NoStream]
  /\ stream' = [s \in Streams |-> IF s \in Registered THEN Finished(stream[s], "shutdown")
                                                      ELSE stream[s]]
  /\ UNCHANGED <<version, changed, fan, reader>>

Next ==
  \/ \E s \in Streams, r \in Requests : Ask(s, r)
  \/ \E s \in Streams : \/ Subscribe(s) \/ FanoutChange(s) \/ FanoutNothing(s)
                        \/ Deliver(s) \/ Finish(s) \/ Leave(s)
  \/ \E r \in Requests : Unsubscribe(r)
  \/ \E n \in 1 .. MaxBatch : \E hits \in SUBSET ((version + 1) .. (version + n)) :
       MutateBatch(n, hits)
  \/ NextChange
  \/ CloseRuntime
  \/ Shutdown

Spec == Init /\ [][Next]_vars

(* The worker fiber that holds the gate carries on, and a consumer that    *)
(* has not left keeps pulling.                                             *)
FairSpec ==
  /\ Spec
  /\ WF_vars(NextChange)
  /\ \A s \in Streams : /\ WF_vars(FanoutChange(s) \/ FanoutNothing(s))
                        /\ WF_vars(Deliver(s) \/ Finish(s))

-----------------------------------------------------------------------------
(* Properties *)

TypeOK ==
  /\ version \in Nat
  /\ changed \subseteq 1 .. version
  /\ fan.at \in Nat /\ fan.last \in Nat /\ fan.todo \subseteq Streams
  /\ registry \in [Requests -> Streams \cup {NoStream}]
  /\ stream \in [Streams ->
        [phase : {"idle", "asked", "open", "ending", "closed"},
         request : Requests \cup {NoStream}, path : {"memory", "view"}, rows : Int,
         queue : Queues(Int),
         told : {"nothing", "replaced", "unsubscribed", "backpressure", "shutdown"}]]
  /\ reader \in [Streams -> [version : Nat, rows : Int, gap : BOOLEAN]]
  /\ worker \in {"open", "closing", "stopped"}

(* A queue never holds more than maxQueueDepth events, nor a delta made of *)
(* more than maxQueueDepth changes; and the delta the producer would       *)
(* coalesce into is its last event, so coalescing neither                  *)
(* rewrites an event the consumer has taken nor reorders what it has not.  *)
QueueSound ==
  \A s \in Streams :
    LET q == stream[s].queue
    IN  /\ Len(q.events) <= MaxQueueDepth
        /\ q.lag <= MaxQueueDepth
        /\ q.pending # 0 /\ q.events # << >> =>
             /\ Last(q.events).seq = q.pending
             /\ \A i \in 1 .. (Len(q.events) - 1) : q.events[i].seq # q.pending

(* Every queue is as its producer remembers it, and well typed. *)
QueuesSound == TypeOK /\ QueueSound

(* What the reader has, with everything still queued applied in order, is  *)
(* what the worker believes it shows (lastRows), and once the gate is free *)
(* that is the query's current result: no delta is lost, doubled or        *)
(* computed from rows the reader never had, through coalescing, batches    *)
(* and backpressure.                                                       *)
NothingLost ==
  \A s \in Streams : stream[s].phase = "open" =>
    /\ RowsShown(reader[s].rows, stream[s].queue.events) = stream[s].rows
    /\ GateFree => stream[s].rows = RowsAt(version)

(* A stream that is open is the one its request id is registered to, and a *)
(* registered one is open: no subscriber waits on a queue that nobody      *)
(* feeds, and no dead subscription is fed, whatever the order of replaced  *)
(* subscriptions, finalizers, unsubscribes, backpressure and shutdown.     *)
NoOrphan ==
  /\ \A s \in Streams : stream[s].phase = "open" => registry[stream[s].request] = s
  /\ \A r \in Requests : registry[r] # NoStream =>
       stream[registry[r]].phase = "open" /\ stream[registry[r]].request = r

(* A reader never goes back to an older version or to older rows, and a    *)
(* worker whose subscription is gone never adds to its queue.              *)
OnlyForward ==
  [][\A s \in Streams :
       /\ reader'[s].version >= reader[s].version
       /\ reader'[s].rows >= reader[s].rows
       /\ stream[s].phase \in {"ending", "closed"} =>
            Len(stream'[s].queue.events) <= Len(stream[s].queue.events)]_vars

(* A change reaches every open reader that keeps reading, or that reader   *)
(* learns that its stream is over.                                         *)
ChangeArrives ==
  \A s \in Streams, v \in 1 .. MaxVersion :
    (stream[s].phase = "open" /\ v \in changed)
      ~> (reader[s].rows >= v \/ stream[s].phase = "closed")

-----------------------------------------------------------------------------
(* What the documents say and the code does not do. *)

(* A subscription queue delivers version-contiguous events: the store      *)
(* never meets a delta that does not start at its version.                 *)
VersionContiguous == \A s \in Streams : ~reader[s].gap
=============================================================================
