--------------------------- MODULE LiveQueryProofs ---------------------------
(***************************************************************************)
(* That every open stream is fed and every registration is alive, and that *)
(* what is queued for a stream brings its reader to the rows of the worker *)
(* and never back, for any number of streams, request ids, versions and    *)
(* any queue limits.  The first proof turns on who may end a stream while  *)
(* a fan-out is under way, the second on which version of the rows a       *)
(* stream stands at while changes are fanned out one by one.               *)
(***************************************************************************)
EXTENDS LiveQuery, FanoutQueueProofs

(* As much of the types as the registrations depend on. *)
Shape ==
  /\ version \in Int
  /\ fan \in [at : Int, last : Int, todo : SUBSET Streams]
  /\ registry \in [Requests -> Streams \cup {NoStream}]
  /\ DOMAIN stream = Streams
  /\ \A s \in Streams : {"phase", "request", "path", "rows", "queue", "told"} \subseteq DOMAIN stream[s]

(* A stream that has asked uses a request id. *)
Named == \A s \in Streams : stream[s].phase \in {"asked", "open"} => stream[s].request \in Requests

(* What is being fanned out goes to streams that were registered when its  *)
(* turn came: only their own finalizer, which needs no gate, may have      *)
(* ended them since; and once the gate is free nothing is left to feed.    *)
Fed ==
  /\ \A s \in fan.todo : stream[s].phase \in {"open", "closed"}
  /\ GateFree => fan.todo = {}

IInv == Shape /\ Named /\ Fed /\ NoOrphan

-----------------------------------------------------------------------------
(* The invariant holds at first. *)
LEMMA InitEstablishes == Init => IInv
<1> USE LiveQueryConstants
<1> SUFFICES ASSUME Init PROVE IInv
  OBVIOUS
<1>1. Shape
  BY DEF Init, Shape
<1>2. \A s \in Streams : stream[s].phase = "idle"
  BY DEF Init
<1>3. Named /\ Fed
  BY <1>2 DEF Init, Named, Fed
<1>4. NoOrphan
  BY <1>2 DEF Init, NoOrphan
<1> QED BY <1>1, <1>3, <1>4 DEF IInv

(* A client asks for a stream. *)
LEMMA AskKeeps ==
  ASSUME IInv, NEW s \in Streams, NEW r \in Requests, Ask(s, r)
  PROVE  IInv'
<1> USE DEF IInv, Ask
<1>1. \A t \in Streams : IF t = s THEN stream'[t].phase = "asked" /\ stream'[t].request = r
                                  ELSE stream'[t] = stream[t]
  BY DEF Shape
<1>2. Shape'
  BY DEF Shape
<1>3. Named'
  BY <1>1 DEF Named
<1>4. Fed'
  BY <1>1 DEF Fed, GateFree, Shape
<1>5. NoOrphan'
  BY <1>1 DEF NoOrphan, Shape
<1> QED BY <1>2, <1>3, <1>4, <1>5

(* A subscribe, which replaces whoever had the request id. *)
LEMMA SubscribeKeeps ==
  ASSUME IInv, NEW s \in Streams, Subscribe(s)
  PROVE  IInv'
<1> USE LiveQueryConstants DEF IInv
<1> DEFINE r == stream[s].request
           previous == registry[r]
<1>1. stream[s].phase = "asked" /\ r \in Requests
  BY DEF Subscribe, Named
<1> DEFINE Opened(path) ==
             [stream[s] EXCEPT !.phase = "open", !.path = path, !.rows = RowsAt(version),
                !.queue.events = <<SnapshotEvent(version, RowsAt(version))>>]
<1>0. PICK path \in {"memory", "view"} :
        stream' = [t \in Streams |-> IF t = s THEN Opened(path)
                                     ELSE IF t = previous THEN Finished(stream[t], "replaced")
                                     ELSE stream[t]]
  BY Zenon DEF Subscribe
<1> DEFINE new == Opened(path)
<1>a. new.phase = "open" /\ new.request = r /\ DOMAIN new = DOMAIN stream[s]
  BY DEF Shape
<1>b. \A t \in Streams : LET old == Finished(stream[t], "replaced") IN
        old.phase = "ending" /\ old.request = stream[t].request /\ DOMAIN old = DOMAIN stream[t]
  BY DEF Shape, Finished
<1> HIDE DEF new
<1>2. \A t \in Streams :
        IF t = s THEN stream'[t].phase = "open" /\ stream'[t].request = r
        ELSE IF t = previous
          THEN stream'[t].phase = "ending" /\ stream'[t].request = stream[t].request
        ELSE stream'[t] = stream[t]
  BY <1>0, <1>a, <1>b DEF new
<1>3. registry' = [registry EXCEPT ![r] = s]
  BY DEF Subscribe
<1>4. Shape'
  BY <1>0, <1>1, <1>3, <1>a, <1>b DEF Shape, Subscribe, new
<1>5. Named'
  BY <1>1, <1>2 DEF Named
<1>6. fan' = fan /\ fan.todo = {}
  BY DEF Subscribe, Fed
<1>7. Fed'
  BY <1>6 DEF Fed
<1>8. NoOrphan'
  <2>1. ASSUME NEW t \in Streams, stream'[t].phase = "open"
        PROVE  registry'[stream'[t].request] = t
    <3>1. CASE t = s
      BY <1>1, <1>2, <1>3, <3>1 DEF Shape
    <3>2. CASE t # s
      <4>1. t # previous /\ stream'[t] = stream[t]
        BY <1>2, <2>1, <3>2
      <4>2. registry[stream[t].request] = t
        BY <2>1, <4>1 DEF NoOrphan
      <4>3. stream[t].request # r
        BY <4>1, <4>2
      <4>4. stream[t].request \in Requests
        BY <2>1, <4>1 DEF Named
      <4> QED BY <1>3, <4>1, <4>2, <4>3, <4>4 DEF Shape
    <3> QED BY <3>1, <3>2
  <2>2. ASSUME NEW q \in Requests, registry'[q] # NoStream
        PROVE  stream'[registry'[q]].phase = "open" /\ stream'[registry'[q]].request = q
    <3>1. CASE q = r
      BY <1>1, <1>2, <1>3, <3>1 DEF Shape
    <3>2. CASE q # r
      <4>1. registry'[q] = registry[q] /\ registry[q] \in Streams
        BY <1>1, <1>3, <2>2, <3>2 DEF Shape
      <4>2. stream[registry[q]].phase = "open" /\ stream[registry[q]].request = q
        BY <2>2, <4>1 DEF NoOrphan
      <4>3. registry[q] # s
        BY <1>1, <4>2
      <4>4. registry[q] # previous
        BY <1>1, <3>2, <4>1, <4>2 DEF NoOrphan
      <4> QED BY <1>2, <4>1, <4>2, <4>3, <4>4
    <3> QED BY <3>1, <3>2
  <2> QED BY <2>1, <2>2 DEF NoOrphan
<1> QED BY <1>4, <1>5, <1>7, <1>8

(* An unsubscribe by request id. *)
LEMMA UnsubscribeKeeps ==
  ASSUME IInv, NEW r \in Requests, Unsubscribe(r)
  PROVE  IInv'
<1> USE LiveQueryConstants DEF IInv
<1> DEFINE s == registry[r]
<1>1. s \in Streams /\ stream[s].phase = "open" /\ stream[s].request = r
  BY DEF Unsubscribe, Shape, NoOrphan
<1>2. \A t \in Streams :
        IF t = s THEN stream'[t].phase = "ending" /\ stream'[t].request = r
                 ELSE stream'[t] = stream[t]
  BY <1>1 DEF Unsubscribe, Shape, Finished
<1>3. registry' = [registry EXCEPT ![r] = NoStream]
  BY DEF Unsubscribe
<1>4. Shape'
  BY <1>1, <1>3 DEF Unsubscribe, Shape, Finished
<1>5. Named'
  BY <1>2 DEF Named
<1>6. Fed'
  BY DEF Unsubscribe, Fed, GateFree
<1>7. NoOrphan'
  <2>1. ASSUME NEW t \in Streams, stream'[t].phase = "open"
        PROVE  registry'[stream'[t].request] = t
    <3>1. t # s /\ stream'[t] = stream[t]
      BY <1>2, <2>1
    <3>2. registry[stream[t].request] = t /\ stream[t].request \in Requests
      BY <2>1, <3>1 DEF NoOrphan, Named
    <3> QED BY <1>3, <3>1, <3>2 DEF Shape
  <2>2. ASSUME NEW q \in Requests, registry'[q] # NoStream
        PROVE  stream'[registry'[q]].phase = "open" /\ stream'[registry'[q]].request = q
    <3>1. q # r /\ registry'[q] = registry[q] /\ registry[q] \in Streams
      BY <1>3, <2>2 DEF Shape
    <3>2. stream[registry[q]].phase = "open" /\ stream[registry[q]].request = q
      BY <2>2, <3>1 DEF NoOrphan
    <3> QED BY <1>1, <1>2, <3>1, <3>2
  <2> QED BY <2>1, <2>2 DEF NoOrphan
<1> QED BY <1>4, <1>5, <1>6, <1>7

(* A batch of mutations starts its fan-out. *)
LEMMA MutateBatchKeeps ==
  ASSUME IInv, NEW n \in 1 .. MaxBatch, NEW hits, MutateBatch(n, hits)
  PROVE  IInv'
<1> USE LiveQueryConstants DEF IInv, MutateBatch
<1>1. Registered \subseteq Streams /\ \A s \in Registered : stream[s].phase = "open"
  BY DEF Registered, Shape, NoOrphan
<1>2. Shape'
  BY <1>1 DEF Shape
<1>3. Named' /\ NoOrphan'
  BY DEF Named, NoOrphan
<1>4. Fed'
  BY <1>1 DEF Fed, GateFree, Shape
<1> QED BY <1>2, <1>3, <1>4

(* A stream that stops being open takes its registration with it, whoever  *)
(* ends it; nothing else changes.                                          *)
LEMMA EndOne ==
  ASSUME IInv, NEW s \in Streams, DOMAIN stream' = Streams,
         \A t \in Streams : DOMAIN stream'[t] = DOMAIN stream[t],
         \A t \in Streams \ {s} : stream'[t] = stream[t],
         stream'[s].request = stream[s].request,
         stream'[s].phase \in {"ending", "closed"},
         registry' = [r \in Requests |-> IF r = stream[s].request /\ registry[r] = s
                                           THEN NoStream ELSE registry[r]],
         version' = version, fan' = fan \/ fan' = [fan EXCEPT !.todo = @ \ {s}],
         stream'[s].phase = "closed" \/ s \notin fan'.todo
  PROVE  IInv'
<1> USE LiveQueryConstants DEF IInv
<1>1. Shape'
  BY DEF Shape
<1>2. Named'
  BY DEF Named
<1>3. Fed'
  BY DEF Fed, GateFree, Shape
<1>4. NoOrphan'
  <2>1. ASSUME NEW t \in Streams, stream'[t].phase = "open"
        PROVE  registry'[stream'[t].request] = t
    <3>1. t # s /\ stream'[t] = stream[t]
      BY <2>1
    <3>2. registry[stream[t].request] = t /\ stream[t].request \in Requests
      BY <2>1, <3>1 DEF NoOrphan, Named
    <3> QED BY <3>1, <3>2
  <2>2. ASSUME NEW q \in Requests, registry'[q] # NoStream
        PROVE  stream'[registry'[q]].phase = "open" /\ stream'[registry'[q]].request = q
    <3>1. registry'[q] = registry[q] /\ registry[q] \in Streams
      BY <2>2 DEF Shape
    <3>2. stream[registry[q]].phase = "open" /\ stream[registry[q]].request = q
      BY <2>2, <3>1 DEF NoOrphan
    <3>3. registry[q] # s
      BY <2>2, <3>1, <3>2
    <3> QED BY <3>1, <3>2, <3>3
  <2> QED BY <2>1, <2>2 DEF NoOrphan
<1> QED BY <1>1, <1>2, <1>3, <1>4

(* A finalizer, which removes its own queue only. *)
LEMMA FinalizeKeeps ==
  ASSUME IInv, NEW s \in Streams, Finalize(s)
  PROVE  IInv'
<1>1. /\ DOMAIN stream' = Streams
      /\ \A t \in Streams : DOMAIN stream'[t] = DOMAIN stream[t]
      /\ \A t \in Streams \ {s} : stream'[t] = stream[t]
      /\ stream'[s].request = stream[s].request /\ stream'[s].phase = "closed"
  BY DEF IInv, Shape, Finalize
<1>2. version' = version /\ fan' = fan
  BY DEF Finalize
<1>3. registry' = [r \in Requests |-> IF r = stream[s].request /\ registry[r] = s
                                       THEN NoStream ELSE registry[r]]
  BY DEF Finalize
<1> QED BY <1>1, <1>2, <1>3, EndOne

(* The fan-out of a change to one stream. *)
LEMMA FanoutChangeKeeps ==
  ASSUME IInv, NEW s \in Streams, FanoutChange(s)
  PROVE  IInv'
<1> DEFINE rows == RowsAfter(s)
           offer == OfferDelta(stream[s].queue,
                      DeltaEvent(fan.at - 1, fan.at, <<[base |-> stream[s].rows, rows |-> rows]>>))
           kept == [stream[s] EXCEPT !.rows = rows, !.queue = offer.queue]
<1>1. /\ s \in fan.todo /\ fan' = [fan EXCEPT !.todo = @ \ {s}] /\ version' = version
      /\ \/ stream[s].phase = "closed" /\ stream' = stream /\ registry' = registry
         \/ /\ stream[s].phase # "closed"
            /\ stream' = [stream EXCEPT ![s] = kept] /\ registry' = registry
         \/ /\ stream[s].phase # "closed"
            /\ stream' = [stream EXCEPT ![s] = Finished(kept, "backpressure")]
            /\ registry' = [registry EXCEPT ![stream[s].request] = NoStream]
  BY Zenon DEF FanoutChange
<1>2. /\ kept.phase = stream[s].phase /\ kept.request = stream[s].request
      /\ DOMAIN kept = DOMAIN stream[s]
  BY DEF IInv, Shape
<1> HIDE DEF kept, offer, rows
<1>3. /\ Finished(kept, "backpressure").phase = "ending"
      /\ Finished(kept, "backpressure").request = stream[s].request
      /\ DOMAIN Finished(kept, "backpressure") = DOMAIN stream[s]
  BY <1>2 DEF IInv, Shape, Finished
<1> DEFINE ended == Finished(kept, "backpressure")
<1> HIDE DEF ended
<1>4. stream[s].phase \in {"open", "closed"}
  BY <1>1 DEF IInv, Fed
<1>5. CASE stream[s].phase = "closed" /\ stream' = stream /\ registry' = registry
  BY <1>1, <1>5 DEF IInv, Shape, Named, Fed, GateFree, NoOrphan
<1>6. CASE stream[s].phase # "closed" /\ stream' = [stream EXCEPT ![s] = kept] /\ registry' = registry
  <2>1. \A t \in Streams : /\ stream'[t].phase = stream[t].phase
                            /\ stream'[t].request = stream[t].request
                            /\ DOMAIN stream'[t] = DOMAIN stream[t]
    BY <1>2, <1>6 DEF IInv, Shape
  <2>2. Shape'
    BY <1>1, <1>6, <2>1 DEF IInv, Shape
  <2>3. Named' /\ NoOrphan'
    BY <1>6, <2>1 DEF IInv, Shape, Named, NoOrphan
  <2>4. Fed'
    BY <1>1, <2>1 DEF IInv, Shape, Fed, GateFree
  <2> QED BY <2>2, <2>3, <2>4 DEF IInv
<1>7. CASE /\ stream[s].phase # "closed"
           /\ stream' = [stream EXCEPT ![s] = ended]
           /\ registry' = [registry EXCEPT ![stream[s].request] = NoStream]
  <2>1. stream[s].phase = "open" /\ stream[s].request \in Requests
        /\ registry[stream[s].request] = s
    BY <1>4, <1>7 DEF IInv, Named, NoOrphan
  <2>2. registry' = [r \in Requests |-> IF r = stream[s].request /\ registry[r] = s
                                         THEN NoStream ELSE registry[r]]
    BY <1>7, <2>1 DEF IInv, Shape
  <2>3. /\ DOMAIN stream' = Streams
        /\ \A t \in Streams : DOMAIN stream'[t] = DOMAIN stream[t]
        /\ \A t \in Streams \ {s} : stream'[t] = stream[t]
        /\ stream'[s].request = stream[s].request /\ stream'[s].phase = "ending"
    BY <1>3, <1>7 DEF IInv, Shape, ended
  <2>4. s \notin fan'.todo
    BY <1>1 DEF IInv, Shape
  <2>5. version' = version /\ fan' = [fan EXCEPT !.todo = @ \ {s}]
    BY <1>1
  <2> QED BY <2>2, <2>3, <2>4, <2>5, EndOne
<1> QED BY <1>1, <1>5, <1>6, <1>7 DEF ended

(* The fan-out passes a stream whose rows did not change. *)
LEMMA FanoutNothingKeeps ==
  ASSUME IInv, NEW s \in Streams, FanoutNothing(s)
  PROVE  IInv'
BY DEF IInv, Shape, Named, Fed, GateFree, NoOrphan, FanoutNothing

(* The fan-out goes on to the next change of its batch. *)
LEMMA NextChangeKeeps ==
  ASSUME IInv, NextChange
  PROVE  IInv'
<1> USE LiveQueryConstants DEF IInv, NextChange
<1>1. Registered \subseteq Streams /\ \A s \in Registered : stream[s].phase = "open"
  BY DEF Registered, Shape, NoOrphan
<1>2. Shape'
  <2> DEFINE todo == IF fan.at < fan.last THEN Registered ELSE {}
  <2>1. todo \subseteq Streams
    BY <1>1
  <2>2. fan = [at |-> fan.at, last |-> fan.last, todo |-> fan.todo] /\ {fan.at, fan.last} \subseteq Int
    BY DEF Shape
  <2>3. fan' = [fan EXCEPT !.at = @ + 1, !.todo = todo]
    OBVIOUS
  <2> HIDE DEF todo
  <2>4. fan' = [at |-> fan.at + 1, last |-> fan.last, todo |-> todo]
    BY <2>2, <2>3
  <2> QED BY <2>1, <2>2, <2>4 DEF Shape
<1>3. Named' /\ NoOrphan'
  BY DEF Named, NoOrphan
<1>4. Fed'
  BY <1>1 DEF Fed, GateFree, Shape
<1> QED BY <1>2, <1>3, <1>4

(* A reader that takes an event. *)
LEMMA DeliverKeeps ==
  ASSUME IInv, NEW s \in Streams, Deliver(s)
  PROVE  IInv'
<1> USE DEF IInv
<1>1. /\ stream' = [stream EXCEPT ![s].queue.events = Tail(@)]
      /\ UNCHANGED <<version, fan, registry>>
  BY DEF Deliver
<1>2. \A t \in Streams : /\ stream'[t].phase = stream[t].phase
                          /\ stream'[t].request = stream[t].request
                          /\ DOMAIN stream'[t] = DOMAIN stream[t]
  BY <1>1 DEF Shape
<1>3. Shape'
  BY <1>1, <1>2 DEF Shape
<1>4. Named' /\ NoOrphan'
  BY <1>1, <1>2 DEF Shape, Named, NoOrphan
<1>5. Fed'
  BY <1>1, <1>2 DEF Shape, Fed, GateFree
<1> QED BY <1>3, <1>4, <1>5

(* The worker shuts down and ends all streams. *)
LEMMA ShutdownKeeps ==
  ASSUME IInv, Shutdown
  PROVE  IInv'
<1> USE LiveQueryConstants DEF IInv
<1>1. \A s \in Streams :
        /\ stream'[s].request = stream[s].request
        /\ DOMAIN stream'[s] = DOMAIN stream[s]
        /\ IF s \in Registered THEN stream'[s].phase = "ending"
                               ELSE stream'[s].phase = stream[s].phase
  BY DEF Shutdown, Shape, Finished
<1>2. \A s \in Streams : stream[s].phase = "open" => s \in Registered
  BY DEF Registered, Named, NoOrphan
<1>3. \A s \in Streams : stream'[s].phase # "open"
  BY <1>1, <1>2
<1>4. Shape'
  <2>1. registry' \in [Requests -> Streams \cup {NoStream}] /\ DOMAIN stream' = Streams
    BY DEF Shutdown
  <2>2. version' = version /\ fan' = fan
    BY DEF Shutdown
  <2>3. \A s \in Streams : DOMAIN stream'[s] = DOMAIN stream[s]
    BY <1>1
  <2> QED BY <2>1, <2>2, <2>3 DEF Shape
<1>5. Named'
  BY <1>1, <1>3 DEF Named
<1>6. Fed'
  BY DEF Shutdown, Fed, GateFree
<1>7. NoOrphan'
  BY <1>3 DEF Shutdown, NoOrphan
<1> QED BY <1>4, <1>5, <1>6, <1>7

-----------------------------------------------------------------------------
(* Every step keeps the invariant. *)
LEMMA StepKeeps == IInv /\ [Next]_vars => IInv'
<1> SUFFICES ASSUME IInv, [Next]_vars PROVE IInv'
  OBVIOUS
<1>1. CASE \E s \in Streams, r \in Requests : Ask(s, r)
  BY <1>1, AskKeeps
<1>2. CASE \E s \in Streams : Subscribe(s)
  BY <1>2, SubscribeKeeps
<1>3. CASE \E s \in Streams : FanoutChange(s)
  BY <1>3, FanoutChangeKeeps
<1>4. CASE \E s \in Streams : FanoutNothing(s)
  BY <1>4, FanoutNothingKeeps
<1>5. CASE \E s \in Streams : Deliver(s)
  BY <1>5, DeliverKeeps
<1>6. CASE \E s \in Streams : Finish(s) \/ Leave(s)
  BY <1>6, FinalizeKeeps DEF Finish, Leave
<1>7. CASE \E r \in Requests : Unsubscribe(r)
  BY <1>7, UnsubscribeKeeps
<1>8. CASE \E n \in 1 .. MaxBatch : \E hits \in SUBSET ((version + 1) .. (version + n)) :
             MutateBatch(n, hits)
  BY <1>8, MutateBatchKeeps
<1>9. CASE NextChange
  BY <1>9, NextChangeKeeps
<1>10. CASE Shutdown
  BY <1>10, ShutdownKeeps
<1>11. CASE CloseRuntime \/ UNCHANGED vars
  BY <1>11 DEF CloseRuntime, vars, IInv, Shape, Named, Fed, GateFree, NoOrphan
<1> QED
  BY <1>1, <1>2, <1>3, <1>4, <1>5, <1>6, <1>7, <1>8, <1>9, <1>10, <1>11 DEF Next

(* A stream is open exactly while its request id is registered to it,      *)
(* however subscribes, replacements, unsubscribes, finalizers outside the  *)
(* gate, backpressure and shutdown interleave with a fan-out.              *)
THEOREM EveryStreamFed == Spec => []NoOrphan
<1>1. IInv => NoOrphan
  BY DEF IInv
<1> QED BY InitEstablishes, StepKeeps, <1>1, PTL DEF Spec

-----------------------------------------------------------------------------
(* The newest change up to a version *)

Newest(S, v) == Max({c \in S : c <= v} \cup {0})

(* The newest change up to a version is the greatest of them, or zero. *)
LEMMA NewestIs ==
  ASSUME NEW n \in Nat, NEW S \in SUBSET (1 .. n), NEW v \in Nat
  PROVE  /\ Newest(S, v) \in Nat /\ Newest(S, v) <= v
         /\ Newest(S, v) = 0 \/ Newest(S, v) \in S
         /\ \A c \in S : c <= v => c <= Newest(S, v)
<1> DEFINE T == {c \in S : c <= v} \cup {0}
<1>1. T \in SUBSET (0 .. n) /\ T # {}
  <2>1. 0 \in 0 .. n /\ 0 \in T
    OBVIOUS
  <2>2. \A c \in S : c \in 0 .. n
    OBVIOUS
  <2> QED BY <2>1, <2>2
<1>2. Max(T) \in T /\ \A k \in T : k <= Max(T)
  <2> HIDE DEF T
  <2> QED BY <1>1, MaxIsGreatest
<1>3. Newest(S, v) = Max(T)
  BY DEF Newest
<1> QED BY <1>1, <1>2, <1>3

(* It grows with the version ... *)
LEMMA NewestGrows ==
  ASSUME NEW n \in Nat, NEW S \in SUBSET (1 .. n), NEW v \in Nat, NEW w \in Nat, v <= w
  PROVE  Newest(S, v) <= Newest(S, w)
<1>1. /\ Newest(S, v) \in Nat /\ Newest(S, v) <= v /\ (Newest(S, v) = 0 \/ Newest(S, v) \in S)
      /\ Newest(S, w) \in Nat /\ \A c \in S : c <= w => c <= Newest(S, w)
  BY NewestIs
<1> QED BY <1>1

(* ... and depends only on the changes up to it. *)
LEMMA NewestSame ==
  ASSUME NEW n \in Nat, NEW S \in SUBSET (1 .. n), NEW T \in SUBSET (1 .. n),
         NEW v \in Nat, NEW w \in Nat,
         \A c \in 1 .. n : (c \in S /\ c <= v) <=> (c \in T /\ c <= w)
  PROVE  Newest(S, v) = Newest(T, w)
<1>1. {c \in S : c <= v} = {c \in T : c <= w}
  OBVIOUS
<1> QED BY <1>1 DEF Newest

-----------------------------------------------------------------------------
(* What stands between a reader and the worker *)

StreamRecords ==
  [phase : {"idle", "asked", "open", "ending", "closed"},
   request : Requests \cup {NoStream}, path : {"memory", "view"}, rows : Int,
   queue : Queues(Int),
   told : {"nothing", "replaced", "unsubscribed", "backpressure", "shutdown"}]

ReaderRecords == [version : Nat, rows : Int, gap : BOOLEAN]

(* The change being fanned out is one of the versions there are. *)
Position == fan.last = version /\ fan.at \in 1 .. (version + 1)

(* The version a stream has seen. *)
Done(s) == IF s \in fan.todo \/ GateFree THEN fan.at - 1 ELSE fan.at

(* The rows it may have been left with: a view has applied the changes one *)
(* by one, memory is ahead of them by the whole batch.                     *)
Standing(s) ==
  IF stream[s].path = "view" THEN {RowsAt(Done(s))} ELSE {RowsAt(Done(s)), RowsAt(version)}

InOrder(st, rd) ==
  /\ Bounded(st.queue)
  /\ Drains(rd.version, rd.rows, st.queue.events)
  /\ st.phase \in {"idle", "asked"} =>
       st.queue = EmptyQueue /\ rd.version = 0 /\ rd.rows = 0

UpToDate(st, rd, top) == Leads(rd.version, rd.rows, st.queue.events, top, st.rows)

OnTime(s) ==
  stream[s].phase = "open" =>
    UpToDate(stream[s], reader[s], Done(s)) /\ stream[s].rows \in Standing(s)

Sound ==
  /\ Position
  /\ \A s \in Streams : InOrder(stream[s], reader[s])
  /\ \A s \in Streams : OnTime(s)

Inv == IInv /\ TypeOK /\ Sound

(* The types of the variables, by the names of their records. *)
LEMMA TypesAre ==
  TypeOK <=> /\ version \in Nat
             /\ changed \subseteq 1 .. version
             /\ fan.at \in Nat /\ fan.last \in Nat /\ fan.todo \subseteq Streams
             /\ registry \in [Requests -> Streams \cup {NoStream}]
             /\ stream \in [Streams -> StreamRecords]
             /\ reader \in [Streams -> ReaderRecords]
             /\ worker \in {"open", "closing", "stopped"}
BY DEF TypeOK, StreamRecords, ReaderRecords

(* A stream that ends keeps its queue. *)
LEMMA FinishedIs ==
  ASSUME NEW st \in StreamRecords,
         NEW outcome \in {"nothing", "replaced", "unsubscribed", "backpressure", "shutdown"}
  PROVE  LET ended == Finished(st, outcome)
         IN  /\ ended \in StreamRecords /\ ended.phase = "ending"
             /\ ended.queue = st.queue /\ ended.request = st.request
BY DEF StreamRecords, Finished

(* A stream that is ended keeps the order of what is queued. *)
LEMMA FinishedInOrder ==
  ASSUME NEW st \in StreamRecords, NEW rd, InOrder(st, rd), NEW ended, ended \in StreamRecords,
         ended.phase = "ending", ended.queue = st.queue
  PROVE  InOrder(ended, rd)
BY DEF InOrder

(* An empty queue is in order for any reader. *)
LEMMA NothingDrains ==
  ASSUME NEW v \in Nat, NEW rows \in Int
  PROVE  Drains(v, rows, << >>) /\ Bounded(EmptyQueue) /\ EmptyQueue \in Queues(Int)
<1> DEFINE none == << >>
           f == [n \in 0 .. 0 |-> rows]
<1>1. Len(none) = 0 /\ none \in Seq(Events(Int))
  <2> DEFINE E == Events(Int)
  <2> HIDE DEF E
  <2>1. Len(none) = 0 /\ none \in Seq(E)
    OBVIOUS
  <2> QED BY <2>1 DEF E
<1>2. EmptyQueue = [events |-> none, pending |-> 0, lag |-> 0]
  BY DEF EmptyQueue
<1>3. f \in [0 .. 0 -> Int] /\ f[0] = rows
  OBVIOUS
<1> HIDE DEF f
<1>4. EmptyQueue \in Queues(Int)
  BY <1>1, <1>2 DEF Queues
<1>5. Bounded(EmptyQueue)
  BY <1>1, <1>2, QueueConstants DEF Bounded
<1>6. \A n : n \notin 1 .. Len(none)
  BY <1>1
<1> HIDE DEF none
<1>7. Rising(f, rows, none)
  BY <1>1, <1>3, <1>6 DEF Rising, Reading
<1>8. Chain(v, none)
  BY <1>6 DEF Chain
<1>9. Drains(v, rows, none)
  BY <1>1, <1>7, <1>8 DEF Drains
<1> QED BY <1>4, <1>5, <1>9 DEF none

-----------------------------------------------------------------------------
(* Each action keeps the types and the order *)

(* The facts of the invariant in the form the proofs use them. *)
LEMMA Facts ==
  ASSUME Inv
  PROVE  /\ version \in Nat /\ changed \in SUBSET (1 .. version)
         /\ fan.at \in Nat /\ fan.last = version /\ 1 <= fan.at /\ fan.at <= version + 1
         /\ fan.todo \subseteq Streams
         /\ registry \in [Requests -> Streams \cup {NoStream}]
         /\ stream \in [Streams -> StreamRecords]
         /\ reader \in [Streams -> ReaderRecords]
         /\ GateFree <=> fan.at = version + 1
         /\ \A s \in Streams : InOrder(stream[s], reader[s]) /\ OnTime(s)
<1>1. TypeOK /\ Sound
  BY DEF Inv
<1>2. fan.last = version /\ fan.at \in 1 .. (version + 1) /\ version \in Nat
  BY <1>1, TypesAre DEF Sound, Position
<1>3. fan.at \in Nat /\ 1 <= fan.at /\ fan.at <= version + 1 /\ (GateFree <=> fan.at = version + 1)
  BY <1>2 DEF GateFree
<1>4. changed \in SUBSET (1 .. version)
  BY <1>1, TypesAre
<1> QED BY <1>1, <1>2, <1>3, <1>4, TypesAre DEF Sound

(* A step that leaves the versions, the fan-out and the open streams alone. *)
LEMMA QuietKeeps ==
  ASSUME Inv, UNCHANGED <<version, changed, fan>>,
         registry' \in [Requests -> Streams \cup {NoStream}],
         stream' \in [Streams -> StreamRecords], reader' \in [Streams -> ReaderRecords],
         worker' \in {"open", "closing", "stopped"},
         \A s \in Streams : InOrder(stream'[s], reader'[s]),
         \A s \in Streams : stream'[s].phase = "open" =>
           stream'[s] = stream[s] /\ reader'[s] = reader[s]
  PROVE  TypeOK' /\ Sound'
<1> USE Facts
<1>1. TypeOK'
  BY DEF TypeOK, StreamRecords, ReaderRecords
<1>2. Position' /\ (GateFree' <=> GateFree)
  BY DEF Position, GateFree, Inv, Sound
<1>3. ASSUME NEW s \in Streams PROVE OnTime(s)'
  <2>1. CASE stream'[s].phase = "open"
    <3>1. stream'[s] = stream[s] /\ reader'[s] = reader[s] /\ OnTime(s)
      BY <2>1
    <3>2. Done(s)' = Done(s)
      BY <1>2 DEF Done
    <3>3. Standing(s)' = Standing(s)
      BY <3>1, <3>2 DEF Standing, RowsAt
    <3> QED BY <3>1, <3>2, <3>3 DEF OnTime
  <2>2. CASE stream'[s].phase # "open"
    BY <2>2 DEF OnTime
  <2> QED BY <2>1, <2>2
<1> QED BY <1>1, <1>2, <1>3 DEF Sound

(* A new stream waits with an empty queue. *)
LEMMA AskSound ==
  ASSUME Inv, NEW s \in Streams, NEW r \in Requests, Ask(s, r)
  PROVE  TypeOK' /\ Sound'
<1> USE Facts
<1> DEFINE st == stream[s]
           next == [st EXCEPT !.phase = "asked", !.request = r]
<1>1. st \in StreamRecords /\ st.phase = "idle" /\ reader[s] \in ReaderRecords
      /\ InOrder(st, reader[s])
  BY DEF Ask
<1> HIDE DEF st
<1>2. next \in StreamRecords /\ next.phase = "asked" /\ next.queue = st.queue
  BY <1>1 DEF StreamRecords
<1>3. stream' = [stream EXCEPT ![s] = next]
  BY DEF Ask, st
<1>4. InOrder(next, reader[s])
  BY <1>1, <1>2 DEF InOrder
<1> HIDE DEF next
<1>5. UNCHANGED <<version, changed, fan, registry, reader, worker>>
  BY DEF Ask
<1>6. worker \in {"open", "closing", "stopped"}
  BY TypesAre DEF Inv
<1>7. stream' \in [Streams -> StreamRecords]
  BY <1>2, <1>3
<1>8. \A t \in Streams : stream'[t] = IF t = s THEN next ELSE stream[t]
  BY <1>3
<1>9. \A t \in Streams : InOrder(stream'[t], reader'[t])
  BY <1>4, <1>5, <1>8
<1>10. \A t \in Streams : stream'[t].phase = "open" => stream'[t] = stream[t] /\ reader'[t] = reader[t]
  BY <1>2, <1>5, <1>8
<1> QED BY <1>5, <1>6, <1>7, <1>9, <1>10, QuietKeeps

(* Streams that end keep their queues, whoever ends them. *)
LEMMA EndedSound ==
  ASSUME Inv, UNCHANGED <<version, changed, fan, reader>>,
         registry' \in [Requests -> Streams \cup {NoStream}],
         worker' \in {"open", "closing", "stopped"},
         NEW outcome \in {"nothing", "replaced", "unsubscribed", "backpressure", "shutdown"},
         NEW ends, stream' = [s \in Streams |-> IF s \in ends THEN Finished(stream[s], outcome)
                                                              ELSE stream[s]]
  PROVE  TypeOK' /\ Sound'
<1> USE Facts
<1>1. \A s \in Streams : LET ended == Finished(stream[s], outcome)
                         IN  /\ ended \in StreamRecords /\ ended.phase = "ending"
                             /\ InOrder(ended, reader[s])
  <2> SUFFICES ASSUME NEW s \in Streams
               PROVE  LET ended == Finished(stream[s], outcome)
                      IN  /\ ended \in StreamRecords /\ ended.phase = "ending"
                          /\ InOrder(ended, reader[s])
    OBVIOUS
  <2> DEFINE ended == Finished(stream[s], outcome)
  <2>1. ended \in StreamRecords /\ ended.phase = "ending" /\ ended.queue = stream[s].queue
    BY FinishedIs
  <2>2. InOrder(stream[s], reader[s]) /\ stream[s] \in StreamRecords
    OBVIOUS
  <2>3. InOrder(ended, reader[s])
    <3> HIDE DEF ended
    <3> QED BY <2>1, <2>2, FinishedInOrder
  <2> QED BY <2>1, <2>3
<1>2. stream' \in [Streams -> StreamRecords]
  BY <1>1
<1>3. \A s \in Streams : InOrder(stream'[s], reader'[s])
  BY <1>1
<1>4. \A s \in Streams : stream'[s].phase = "open" => stream'[s] = stream[s] /\ reader'[s] = reader[s]
  BY <1>1
<1>5. reader' \in [Streams -> ReaderRecords]
  OBVIOUS
<1> QED BY <1>2, <1>3, <1>4, <1>5, QuietKeeps

(* An unsubscribe keeps what is queued sound. *)
LEMMA UnsubscribeSound ==
  ASSUME Inv, NEW r \in Requests, Unsubscribe(r)
  PROVE  TypeOK' /\ Sound'
<1> USE Facts
<1>1. registry[r] \in Streams /\ worker \in {"open", "closing", "stopped"}
  BY LiveQueryConstants, TypesAre DEF Unsubscribe, Inv
<1>2. UNCHANGED <<version, changed, fan, reader>> /\ worker' = worker
  BY DEF Unsubscribe
<1>3. registry' \in [Requests -> Streams \cup {NoStream}]
  BY DEF Unsubscribe
<1> DEFINE ends == {registry[r]}
<1>4. stream' = [s \in Streams |-> IF s \in ends THEN Finished(stream[s], "unsubscribed")
                                                 ELSE stream[s]]
  BY <1>1 DEF Unsubscribe
<1> HIDE DEF ends
<1> QED BY <1>1, <1>2, <1>3, <1>4, EndedSound

(* Shutting down keeps what is queued sound. *)
LEMMA ShutdownSound ==
  ASSUME Inv, Shutdown
  PROVE  TypeOK' /\ Sound'
<1>1. UNCHANGED <<version, changed, fan, reader>> /\ worker' = "stopped"
  BY DEF Shutdown
<1>2. registry' \in [Requests -> Streams \cup {NoStream}]
  BY DEF Shutdown
<1>3. stream' = [s \in Streams |-> IF s \in Registered THEN Finished(stream[s], "shutdown")
                                                       ELSE stream[s]]
  BY DEF Shutdown
<1> QED BY <1>1, <1>2, <1>3, EndedSound

(* A finalizer keeps what is queued sound. *)
LEMMA FinalizeSound ==
  ASSUME Inv, NEW s \in Streams, Finalize(s)
  PROVE  TypeOK' /\ Sound'
<1> USE Facts
<1> DEFINE st == stream[s]
           next == [st EXCEPT !.phase = "closed", !.queue = EmptyQueue]
<1>1. st \in StreamRecords /\ reader[s] \in ReaderRecords
  OBVIOUS
<1>2. reader[s].version \in Nat /\ reader[s].rows \in Int
  BY <1>1 DEF ReaderRecords
<1>3. /\ Drains(reader[s].version, reader[s].rows, << >>)
      /\ Bounded(EmptyQueue) /\ EmptyQueue \in Queues(Int)
  BY <1>2, NothingDrains
<1>4. stream' = [stream EXCEPT ![s] = next]
  BY DEF Finalize
<1> HIDE DEF st
<1>5. next \in StreamRecords /\ next.phase = "closed" /\ next.queue = EmptyQueue
  BY <1>1, <1>3 DEF StreamRecords
<1> HIDE DEF next
<1>6. InOrder(next, reader[s])
  BY <1>3, <1>5 DEF InOrder, EmptyQueue
<1>7. UNCHANGED <<version, changed, fan, reader, worker>>
  BY DEF Finalize
<1>8. worker \in {"open", "closing", "stopped"}
  BY TypesAre DEF Inv
<1>9. registry' \in [Requests -> Streams \cup {NoStream}]
  BY DEF Finalize
<1>10. \A t \in Streams : stream'[t] = IF t = s THEN next ELSE stream[t]
  BY <1>4
<1>11. stream' \in [Streams -> StreamRecords]
  BY <1>4, <1>5
<1>12. \A t \in Streams : InOrder(stream'[t], reader'[t])
  BY <1>6, <1>7, <1>10
<1>13. \A t \in Streams : stream'[t].phase = "open" => stream'[t] = stream[t] /\ reader'[t] = reader[t]
  BY <1>5, <1>7, <1>10
<1> QED BY <1>7, <1>8, <1>9, <1>11, <1>12, <1>13, QuietKeeps

(* A stream that is open is registered. *)
LEMMA OpenRegistered ==
  ASSUME Inv, NEW s \in Streams, stream[s].phase = "open"
  PROVE  s \in Registered
<1>1. stream[s].request \in Requests /\ registry[stream[s].request] = s
  BY DEF Inv, IInv, Named, NoOrphan
<1> QED BY <1>1, LiveQueryConstants DEF Registered

(* The first rows are the current ones, and the stream has seen them. *)
LEMMA SubscribeSound ==
  ASSUME Inv, NEW s \in Streams, Subscribe(s)
  PROVE  TypeOK' /\ Sound'
<1> USE Facts
<1> DEFINE st == stream[s]
           rd == reader[s]
           rows == RowsAt(version)
           previous == registry[st.request]
           snapshot == SnapshotEvent(version, rows)
           Opened(path) == [st EXCEPT !.phase = "open", !.path = path, !.rows = RowsAt(version),
                              !.queue.events = <<SnapshotEvent(version, RowsAt(version))>>]
           queue == [events |-> <<snapshot>>, pending |-> 0, lag |-> 0]
<1>1. PICK path \in {"memory", "view"} :
        stream' = [t \in Streams |-> IF t = s THEN Opened(path)
                                     ELSE IF t = previous THEN Finished(stream[t], "replaced")
                                     ELSE stream[t]]
  BY Zenon DEF Subscribe
<1>2. /\ GateFree /\ st.phase = "asked" /\ UNCHANGED <<version, changed, fan, reader, worker>>
      /\ registry' = [registry EXCEPT ![st.request] = s]
  BY DEF Subscribe
<1>3. rows \in Nat
  <2>1. Newest(changed, version) \in Nat
    BY NewestIs
  <2> QED BY <2>1 DEF Newest, RowsAt
<1>4. st \in StreamRecords /\ st.queue = EmptyQueue /\ rd.version = 0 /\ rd.rows = 0
  BY <1>2 DEF InOrder
<1> DEFINE next == Opened(path)
<1>5. next = [phase |-> "open", request |-> st.request, path |-> path, rows |-> rows,
              queue |-> queue, told |-> st.told]
  <2> DEFINE q == st.queue
  <2>1. [q EXCEPT !.events = <<snapshot>>] = queue
    BY <1>4 DEF EmptyQueue
  <2>2. st = [phase |-> st.phase, request |-> st.request, path |-> st.path, rows |-> st.rows,
              queue |-> q, told |-> st.told]
    BY <1>4 DEF StreamRecords
  <2>3. next = [st EXCEPT !.phase = "open", !.path = path, !.rows = rows,
                          !.queue = [q EXCEPT !.events = <<snapshot>>]]
    OBVIOUS
  <2> HIDE DEF st, next, rows, snapshot, queue, q
  <2> QED BY <2>1, <2>2, <2>3
<1>6. Leads(0, 0, <<snapshot>>, version, rows) /\ Bounded(queue) /\ queue \in Queues(Int)
  BY <1>3, SnapshotLeads
<1>7. queue.events = <<snapshot>>
  OBVIOUS
<1> HIDE DEF next, queue, st, rows, snapshot
<1>8. /\ next \in StreamRecords /\ next.phase = "open" /\ next.path = path /\ next.rows = rows
      /\ next.queue = queue
  <2>1. /\ st.request \in Requests \cup {NoStream}
        /\ st.told \in {"nothing", "replaced", "unsubscribed", "backpressure", "shutdown"}
    BY <1>4 DEF StreamRecords
  <2> QED BY <1>3, <1>5, <1>6, <2>1 DEF StreamRecords
<1>9. /\ InOrder(next, rd) /\ UpToDate(next, rd, version)
  <2>1. Drains(0, 0, <<snapshot>>)
    BY <1>6 DEF Leads, Drains
  <2> QED BY <1>4, <1>6, <1>7, <1>8, <2>1 DEF InOrder, UpToDate
<1>10. \A t \in Streams :
         stream'[t] = IF t = s THEN next
                      ELSE IF t = previous THEN Finished(stream[t], "replaced") ELSE stream[t]
  BY <1>1 DEF next, st
<1>11. ASSUME NEW t \in Streams
       PROVE  /\ stream'[t] \in StreamRecords /\ InOrder(stream'[t], reader[t])
              /\ t # s /\ stream'[t].phase = "open" => stream'[t] = stream[t]
  <2> DEFINE ended == Finished(stream[t], "replaced")
  <2>1. ended \in StreamRecords /\ ended.phase = "ending" /\ ended.queue = stream[t].queue
    BY FinishedIs
  <2> HIDE DEF ended
  <2>2. InOrder(ended, reader[t])
    <3>1. InOrder(stream[t], reader[t]) /\ stream[t] \in StreamRecords
      OBVIOUS
    <3> QED BY <2>1, <3>1, FinishedInOrder
  <2>3. CASE t = s
    BY <1>8, <1>9, <1>10, <2>3
  <2>4. CASE t # s /\ t = previous
    BY <1>10, <2>1, <2>2, <2>4 DEF ended
  <2>5. CASE t # s /\ t # previous
    BY <1>10, <2>5
  <2> QED BY <2>3, <2>4, <2>5
<1>12. TypeOK'
  <2>1. stream' \in [Streams -> StreamRecords]
    BY <1>1, <1>11
  <2>2. worker \in {"open", "closing", "stopped"}
    BY TypesAre DEF Inv
  <2>3. registry' \in [Requests -> Streams \cup {NoStream}]
    BY <1>2
  <2> QED BY <1>2, <2>1, <2>2, <2>3 DEF TypeOK, StreamRecords, ReaderRecords
<1>13. Position' /\ (GateFree' <=> GateFree)
  BY <1>2 DEF Position, GateFree, Inv, Sound
<1>14. ASSUME NEW t \in Streams PROVE OnTime(t)'
  <2>1. Done(t)' = Done(t) /\ Done(t) = version /\ RowsAt(version)' = RowsAt(version)
    BY <1>2, <1>13 DEF Done, RowsAt
  <2>2. CASE t = s
    <3>1. stream'[t] = next /\ reader'[t] = rd
      BY <1>2, <1>10, <2>2
    <3>2. RowsAt(Done(t))' = RowsAt(version)
      BY <2>1, <1>2 DEF RowsAt
    <3>3. next.rows \in Standing(t)'
      BY <1>8, <3>1, <3>2 DEF Standing, rows
    <3> QED BY <1>9, <2>1, <3>1, <3>3 DEF OnTime
  <2>3. CASE t # s /\ stream'[t].phase = "open"
    <3>1. stream'[t] = stream[t] /\ reader'[t] = reader[t] /\ OnTime(t)
      BY <1>2, <1>11, <2>3
    <3>2. Standing(t)' = Standing(t)
      BY <1>2, <2>1, <3>1 DEF Standing, RowsAt
    <3> QED BY <2>1, <3>1, <3>2 DEF OnTime
  <2>4. CASE stream'[t].phase # "open"
    BY <2>4 DEF OnTime
  <2> QED BY <2>2, <2>3, <2>4
<1>15. \A t \in Streams : InOrder(stream'[t], reader'[t])
  BY <1>2, <1>11
<1> QED BY <1>12, <1>13, <1>14, <1>15 DEF Sound

(* A batch goes beyond every version the streams have seen. *)
LEMMA MutateBatchSound ==
  ASSUME Inv, NEW n \in 1 .. MaxBatch, NEW hits \in SUBSET ((version + 1) .. (version + n)),
         MutateBatch(n, hits)
  PROVE  TypeOK' /\ Sound'
<1> USE Facts
<1>1. /\ GateFree /\ version' = version + n /\ changed' = changed \cup hits
      /\ fan' = [at |-> version + 1, last |-> version + n, todo |-> Registered]
      /\ UNCHANGED <<registry, stream, reader, worker>>
  BY DEF MutateBatch
<1>2. n \in Nat /\ 1 <= n
  BY LiveQueryConstants
<1>3. version' \in Nat /\ changed' \in SUBSET (1 .. version')
  <2>1. version' = version + n /\ changed' = changed \cup hits
    BY <1>1
  <2>2. ASSUME NEW c \in changed' PROVE c \in 1 .. (version + n)
    <3>1. c \in 1 .. version \/ c \in (version + 1) .. (version + n)
      BY <2>1
    <3> QED BY <1>2, <3>1
  <2> QED BY <1>2, <2>1, <2>2
<1>4. Registered \subseteq Streams
  BY DEF Registered
<1>5. TypeOK'
  <2>1. stream \in [Streams -> StreamRecords] /\ reader \in [Streams -> ReaderRecords]
        /\ worker \in {"open", "closing", "stopped"}
    BY TypesAre DEF Inv
  <2> QED BY <1>1, <1>2, <1>3, <1>4, <2>1 DEF TypeOK, StreamRecords, ReaderRecords
<1>6. Position' /\ ~GateFree'
  BY <1>1, <1>2 DEF Position, GateFree
<1>7. ASSUME NEW s \in Streams PROVE OnTime(s)'
  <2>1. CASE stream[s].phase = "open"
    <3>1. s \in Registered
      BY <2>1, OpenRegistered
    <3>2. Done(s)' = version /\ Done(s) = version
      BY <1>1, <1>6, <3>1 DEF Done
    <3>3. \A c \in 1 .. version' : (c \in changed' /\ c <= version) <=> (c \in changed /\ c <= version)
      BY <1>1, <1>2
    <3>4. Newest(changed', version) = Newest(changed, version)
      <4>1. changed \in SUBSET (1 .. version')
        BY <1>1, <1>2
      <4> QED BY <1>3, <3>3, <4>1, NewestSame
    <3>5. RowsAt(Done(s))' = RowsAt(Done(s)) /\ RowsAt(Done(s)) = RowsAt(version)
      BY <3>2, <3>4 DEF Newest, RowsAt
    <3>6. stream[s].rows = RowsAt(Done(s)) /\ UpToDate(stream[s], reader[s], version)
      BY <2>1, <3>2, <3>5 DEF OnTime, Standing
    <3>7. stream[s].rows \in Standing(s)'
      BY <1>1, <3>5, <3>6 DEF Standing
    <3> QED BY <1>1, <3>2, <3>6, <3>7 DEF OnTime
  <2>2. CASE stream[s].phase # "open"
    BY <1>1, <2>2 DEF OnTime
  <2> QED BY <2>1, <2>2
<1>8. \A s \in Streams : InOrder(stream'[s], reader'[s])
  BY <1>1
<1> QED BY <1>5, <1>6, <1>7, <1>8 DEF Sound

(* When every stream has seen a change, the next one of the batch starts. *)
LEMMA NextChangeSound ==
  ASSUME Inv, NextChange
  PROVE  TypeOK' /\ Sound'
<1> USE Facts
<1> DEFINE todo == IF fan.at < fan.last THEN Registered ELSE {}
<1>1. /\ ~GateFree /\ fan.todo = {} /\ UNCHANGED <<version, changed, registry, stream, reader, worker>>
      /\ fan' = [fan EXCEPT !.at = @ + 1, !.todo = todo]
  BY DEF NextChange
<1>2. fan'.at = fan.at + 1 /\ fan'.last = fan.last /\ fan'.todo = todo
  BY <1>1 DEF Inv, IInv, Shape
<1>3. todo \subseteq Streams
  BY DEF Registered
<1>4. fan'.at <= version + 1 /\ fan'.at \in Nat
  BY <1>1, <1>2
<1>5. TypeOK'
  <2>1. worker \in {"open", "closing", "stopped"}
    BY TypesAre DEF Inv
  <2> QED BY <1>1, <1>2, <1>3, <1>4, <2>1 DEF TypeOK, StreamRecords, ReaderRecords
<1>6. Position' /\ (GateFree' <=> fan.at = version)
  BY <1>1, <1>2, <1>4 DEF Position, GateFree
<1>7. ASSUME NEW s \in Streams PROVE OnTime(s)'
  <2>1. CASE stream[s].phase = "open"
    <3>1. s \in Registered
      BY <2>1, OpenRegistered
    <3>2. Done(s) = fan.at
      BY <1>1 DEF Done
    <3>3. Done(s)' = fan.at
      <4>1. s \in fan'.todo \/ GateFree'
        BY <1>1, <1>2, <1>6, <3>1
      <4> QED BY <1>2, <4>1 DEF Done
    <3>4. Standing(s)' = Standing(s)
      BY <1>1, <3>2, <3>3 DEF Standing, RowsAt
    <3> QED BY <1>1, <3>2, <3>3, <3>4 DEF OnTime
  <2>2. CASE stream[s].phase # "open"
    BY <1>1, <2>2 DEF OnTime
  <2> QED BY <2>1, <2>2
<1>8. \A s \in Streams : InOrder(stream'[s], reader'[s])
  BY <1>1
<1> QED BY <1>5, <1>6, <1>7, <1>8 DEF Sound

(* What a fan-out step leaves alone: every stream but one, and the change. *)
LEMMA FanoutFrame ==
  ASSUME Inv, NEW s \in Streams, s \in fan.todo, fan' = [fan EXCEPT !.todo = @ \ {s}],
         UNCHANGED <<version, changed, reader>>
  PROVE  /\ Position' /\ ~GateFree /\ ~GateFree' /\ fan.at \in Nat /\ fan.at <= version
         /\ fan'.at = fan.at /\ fan'.last = fan.last /\ fan'.todo \subseteq Streams
         /\ fan.at - 1 \in Nat /\ (fan.at - 1) + 1 = fan.at
         /\ Done(s) = fan.at - 1 /\ Done(s)' = fan.at
         /\ \A t \in Streams \ {s} : stream'[t] = stream[t] => OnTime(t)'
<1> USE Facts
<1>1. fan'.at = fan.at /\ fan'.last = fan.last /\ fan'.todo = fan.todo \ {s}
  BY DEF Inv, IInv, Shape
<1>2. ~GateFree
  BY DEF Inv, IInv, Fed
<1>3. Position' /\ ~GateFree'
  BY <1>1, <1>2 DEF Position, GateFree, Inv, Sound
<1>4. fan.at <= version /\ fan.at - 1 \in Nat /\ (fan.at - 1) + 1 = fan.at
  BY <1>2
<1>5. Done(s) = fan.at - 1 /\ Done(s)' = fan.at
  BY <1>1, <1>3 DEF Done
<1>6. ASSUME NEW t \in Streams \ {s}, stream'[t] = stream[t] PROVE OnTime(t)'
  <2>1. Done(t)' = Done(t)
    BY <1>1, <1>2, <1>3 DEF Done
  <2>2. Standing(t)' = Standing(t)
    BY <1>6, <2>1 DEF Standing, RowsAt
  <2>3. OnTime(t)
    OBVIOUS
  <2> QED BY <1>6, <2>1, <2>2, <2>3 DEF OnTime
<1> QED BY <1>1, <1>2, <1>3, <1>4, <1>5, <1>6

(* The change leaves the rows of the stream as they are. *)
LEMMA FanoutNothingSound ==
  ASSUME Inv, NEW s \in Streams, FanoutNothing(s)
  PROVE  TypeOK' /\ Sound'
<1> USE Facts
<1>1. /\ s \in fan.todo /\ (fan.at \notin changed \/ RowsAfter(s) = stream[s].rows)
      /\ fan' = [fan EXCEPT !.todo = @ \ {s}]
      /\ UNCHANGED <<version, changed, registry, stream, reader, worker>>
  BY DEF FanoutNothing
<1>2. /\ Position' /\ ~GateFree /\ ~GateFree' /\ fan.at \in Nat /\ fan.at <= version
      /\ fan'.at = fan.at /\ fan'.last = fan.last /\ fan'.todo \subseteq Streams
      /\ fan.at - 1 \in Nat /\ (fan.at - 1) + 1 = fan.at
      /\ Done(s) = fan.at - 1 /\ Done(s)' = fan.at
      /\ \A t \in Streams \ {s} : stream'[t] = stream[t] => OnTime(t)'
  BY <1>1, FanoutFrame
<1>3. TypeOK'
  <2>1. worker \in {"open", "closing", "stopped"}
    BY TypesAre DEF Inv
  <2> QED BY <1>1, <1>2, <2>1 DEF TypeOK, StreamRecords, ReaderRecords
<1>4. OnTime(s)'
  <2>1. CASE stream[s].phase = "open"
    <3> DEFINE st == stream[s]
               rd == reader[s]
    <3>1. UpToDate(st, rd, fan.at - 1) /\ st.rows \in Standing(s)
      BY <1>2, <2>1 DEF OnTime
    <3>2. UpToDate(st, rd, fan.at)
      <4>1. rd.version \in Nat /\ rd.rows \in Int
        BY DEF ReaderRecords
      <4> DEFINE top == fan.at - 1
      <4>2. top \in Nat /\ top + 1 = fan.at
        BY <1>2
      <4>3. Leads(rd.version, rd.rows, st.queue.events, top, st.rows)
        BY <3>1 DEF UpToDate
      <4> HIDE DEF top, st, rd
      <4>4. Leads(rd.version, rd.rows, st.queue.events, top + 1, st.rows)
        BY <4>1, <4>2, <4>3, LeadsLater
      <4> QED BY <4>2, <4>4 DEF UpToDate
    <3>3. st.rows \in Standing(s)'
      <4>1. CASE fan.at \notin changed
        <5>1. \A c \in 1 .. version :
                (c \in changed /\ c <= fan.at - 1) <=> (c \in changed /\ c <= fan.at)
          BY <1>2, <4>1
        <5> DEFINE v == fan.at - 1
                   w == fan.at
        <5>2. Newest(changed, v) = Newest(changed, w)
          <6>1. {c \in changed : c <= v} = {c \in changed : c <= w}
            BY <5>1
          <6> QED BY <6>1 DEF Newest
        <5>3. RowsAt(fan.at - 1) = RowsAt(fan.at)
          BY <5>2 DEF Newest, RowsAt
        <5>4. RowsAt(Done(s))' = RowsAt(Done(s)) /\ RowsAt(version)' = RowsAt(version)
          BY <1>1, <1>2, <5>3 DEF RowsAt
        <5> QED BY <1>1, <3>1, <5>4 DEF Standing
      <4>2. CASE RowsAfter(s) = st.rows
        <5>1. st.rows = IF st.path = "view" THEN RowsAt(fan.at) ELSE RowsAt(version)
          BY <4>2 DEF RowsAfter
        <5>2. RowsAt(Done(s))' = RowsAt(fan.at) /\ RowsAt(version)' = RowsAt(version)
          BY <1>1, <1>2 DEF RowsAt
        <5> QED BY <1>1, <5>1, <5>2 DEF Standing
      <4> QED BY <1>1, <4>1, <4>2
    <3> QED BY <1>1, <1>2, <3>2, <3>3 DEF OnTime
  <2>2. CASE stream[s].phase # "open"
    BY <1>1, <2>2 DEF OnTime
  <2> QED BY <2>1, <2>2
<1>5. \A t \in Streams : OnTime(t)' /\ InOrder(stream'[t], reader'[t])
  BY <1>1, <1>2, <1>4
<1> QED BY <1>2, <1>3, <1>5 DEF Sound

(* The rows a stream advances to are those of the change or newer than     *)
(* what it has.                                                            *)
LEMMA RowsAfterIs ==
  ASSUME Inv, NEW s \in Streams, stream[s].phase = "open", Done(s) = fan.at - 1,
         fan.at - 1 \in Nat, fan.at <= version
  PROVE  /\ RowsAfter(s) \in Nat /\ stream[s].rows \in Int /\ stream[s].rows <= RowsAfter(s)
         /\ RowsAfter(s) = IF stream[s].path = "view" THEN RowsAt(fan.at) ELSE RowsAt(version)
<1> USE Facts
<1>1. /\ RowsAt(fan.at - 1) = Newest(changed, fan.at - 1)
      /\ RowsAt(fan.at) = Newest(changed, fan.at) /\ RowsAt(version) = Newest(changed, version)
  BY DEF RowsAt, Newest
<1>2. /\ Newest(changed, fan.at - 1) \in Nat /\ Newest(changed, fan.at) \in Nat
      /\ Newest(changed, version) \in Nat
  BY NewestIs
<1>3. Newest(changed, fan.at - 1) <= Newest(changed, fan.at)
  <2> DEFINE v == fan.at - 1
             w == fan.at
  <2>1. v \in Nat /\ w \in Nat /\ v <= w
    OBVIOUS
  <2> HIDE DEF v, w
  <2>2. Newest(changed, v) <= Newest(changed, w)
    BY <2>1, NewestGrows
  <2> QED BY <2>2 DEF v, w
<1>4. Newest(changed, fan.at) <= Newest(changed, version)
  BY NewestGrows
<1>5. stream[s].rows \in IF stream[s].path = "view" THEN {RowsAt(fan.at - 1)}
                                                   ELSE {RowsAt(fan.at - 1), RowsAt(version)}
  BY DEF OnTime, Standing
<1> QED BY <1>1, <1>2, <1>3, <1>4, <1>5 DEF RowsAfter

(* The delta brings the stream to the change; when it is refused the       *)
(* stream ends where it was.                                               *)
LEMMA FanoutChangeSound ==
  ASSUME Inv, NEW s \in Streams, FanoutChange(s)
  PROVE  TypeOK' /\ Sound'
<1> USE Facts
<1> DEFINE st == stream[s]
           rd == reader[s]
           top == fan.at - 1
           new == RowsAfter(s)
           op == [base |-> st.rows, rows |-> new]
           event == DeltaEvent(top, top + 1, <<op>>)
           offer == OfferDelta(st.queue, event)
           kept == [st EXCEPT !.rows = new, !.queue = offer.queue]
           ended == Finished(kept, "backpressure")
<1>1. /\ s \in fan.todo /\ fan' = [fan EXCEPT !.todo = @ \ {s}]
      /\ UNCHANGED <<version, changed, reader, worker>>
  BY DEF FanoutChange
<1>2. /\ Position' /\ ~GateFree /\ ~GateFree' /\ fan.at \in Nat /\ fan.at <= version
      /\ fan'.at = fan.at /\ fan'.last = fan.last /\ fan'.todo \subseteq Streams
      /\ top \in Nat /\ top + 1 = fan.at
      /\ Done(s) = top /\ Done(s)' = fan.at
      /\ \A t \in Streams \ {s} : stream'[t] = stream[t] => OnTime(t)'
  BY <1>1, FanoutFrame
<1>3. \/ st.phase = "closed" /\ UNCHANGED <<stream, registry>>
      \/ /\ st.phase # "closed" /\ offer.offered
         /\ stream' = [stream EXCEPT ![s] = kept] /\ registry' = registry
      \/ /\ st.phase # "closed" /\ ~offer.offered
         /\ stream' = [stream EXCEPT ![s] = ended]
         /\ registry' = [registry EXCEPT ![st.request] = NoStream]
  <2>1. DeltaEvent(fan.at - 1, fan.at, <<op>>) = event
    BY <1>2
  <2> HIDE DEF event, op
  <2>2. IF st.phase = "closed" THEN UNCHANGED <<stream, registry>>
        ELSE IF offer.offered
          THEN stream' = [stream EXCEPT ![s] = kept] /\ UNCHANGED registry
        ELSE /\ stream' = [stream EXCEPT ![s] = ended]
             /\ registry' = [registry EXCEPT ![st.request] = NoStream]
    BY <2>1 DEF FanoutChange, op
  <2> QED BY <2>2
<1>4. st.phase \in {"open", "closed"}
  BY <1>1 DEF Inv, IInv, Fed
<1>5. st \in StreamRecords /\ rd \in ReaderRecords /\ InOrder(st, rd)
  OBVIOUS
<1>6. rd.version \in Nat /\ rd.rows \in Int /\ st.queue \in Queues(Int)
  BY <1>5 DEF ReaderRecords, StreamRecords
<1>7. registry' \in [Requests -> Streams \cup {NoStream}]
  BY <1>3
<1>8. worker \in {"open", "closing", "stopped"}
  BY TypesAre DEF Inv
<1>9. CASE st.phase = "closed" /\ UNCHANGED <<stream, registry>>
  <2>1. TypeOK'
    BY <1>1, <1>2, <1>7, <1>8, <1>9 DEF TypeOK, StreamRecords, ReaderRecords
  <2>2. OnTime(s)'
    BY <1>9 DEF OnTime
  <2>3. \A t \in Streams : OnTime(t)' /\ InOrder(stream'[t], reader'[t])
    BY <1>1, <1>2, <1>9, <2>2
  <2> QED BY <1>2, <2>1, <2>3 DEF Sound
<1>10. CASE st.phase = "open"
  <2>1. /\ new \in Nat /\ st.rows \in Int /\ st.rows <= new
        /\ new = IF st.path = "view" THEN RowsAt(fan.at) ELSE RowsAt(version)
    BY <1>2, <1>10, RowsAfterIs
  <2>2. Leads(rd.version, rd.rows, st.queue.events, top, st.rows)
    BY <1>2, <1>10 DEF OnTime, UpToDate
  <2>3. Bounded(st.queue) /\ NoRows \in Int
    BY <1>5, LiveQueryConstants DEF InOrder
  <2> DEFINE q == st.queue
             old == st.rows
             queue == offer.queue
  <2>4. /\ queue \in Queues(Int) /\ Bounded(queue)
        /\ offer.offered => Leads(rd.version, rd.rows, queue.events, top + 1, new)
        /\ ~offer.offered => queue.events = q.events
    <3>1. /\ new \in Int /\ old <= new /\ op = [base |-> old, rows |-> new]
          /\ offer = OfferDelta(q, event) /\ q \in Queues(Int) /\ Bounded(q) /\ old \in Int
          /\ Leads(rd.version, rd.rows, q.events, top, old)
      BY <1>6, <2>1, <2>2, <2>3
    <3>2. DeltaFor(event, top, old, new)
      BY DEF DeltaFor
    <3> DEFINE v == rd.version
               rows == rd.rows
    <3>3. v \in Nat /\ rows \in Int /\ Leads(v, rows, q.events, top, old)
      BY <1>6, <3>1
    <3> HIDE DEF st, rd, top, new, op, event, offer, q, old, v, rows
    <3>4. Settled(offer, q, v, rows, top, new)
      <4>1. top \in Nat /\ new \in Int /\ old \in Int /\ NoRows \in Int
        BY <1>2, <2>3, <3>1
      <4> QED BY <3>1, <3>2, <3>3, <4>1, OfferDeltaLeads
    <3> QED BY <3>4 DEF v, rows, Settled
  <2> HIDE DEF offer, new
  <2>5. kept = [st EXCEPT !.rows = new, !.queue = queue]
    OBVIOUS
  <2> HIDE DEF queue, kept
  <2>6. /\ kept \in StreamRecords /\ kept.phase = "open" /\ kept.path = st.path
        /\ kept.rows = new /\ kept.queue = queue
    <3>1. /\ st = [phase |-> st.phase, request |-> st.request, path |-> st.path,
                    rows |-> st.rows, queue |-> st.queue, told |-> st.told]
          /\ st.request \in Requests \cup {NoStream} /\ st.path \in {"memory", "view"}
          /\ st.told \in {"nothing", "replaced", "unsubscribed", "backpressure", "shutdown"}
      BY <1>5 DEF StreamRecords
    <3> HIDE DEF st
    <3>2. kept = [phase |-> st.phase, request |-> st.request, path |-> st.path,
                  rows |-> new, queue |-> queue, told |-> st.told]
      BY <2>5, <3>1
    <3>3. new \in Int
      BY <2>1
    <3> QED BY <1>10, <2>4, <3>1, <3>2, <3>3 DEF StreamRecords
  <2>7. ended \in StreamRecords /\ ended.phase = "ending" /\ ended.queue = queue
    BY <2>6, FinishedIs
  <2> HIDE DEF ended
  <2>8. CASE offer.offered
    <3>1. stream' = [stream EXCEPT ![s] = kept]
      BY <1>3, <1>10, <2>8
    <3>2. stream' \in [Streams -> StreamRecords] /\ stream'[s] = kept
          /\ \A t \in Streams \ {s} : stream'[t] = stream[t]
      BY <2>6, <3>1
    <3>3. TypeOK'
      BY <1>1, <1>2, <1>7, <1>8, <3>2 DEF TypeOK, StreamRecords, ReaderRecords
    <3>4. UpToDate(kept, rd, fan.at)
      BY <1>2, <2>4, <2>6, <2>8 DEF UpToDate
    <3>5. InOrder(kept, rd)
      <4>1. Drains(rd.version, rd.rows, queue.events)
        BY <2>4, <2>8 DEF Leads, Drains
      <4> QED BY <2>4, <2>6, <4>1 DEF InOrder
    <3>6. OnTime(s)'
      <4>1. RowsAt(Done(s))' = RowsAt(fan.at) /\ RowsAt(version)' = RowsAt(version)
        BY <1>1, <1>2 DEF RowsAt
      <4>2. kept.rows \in Standing(s)'
        BY <2>1, <2>6, <3>2, <4>1 DEF Standing
      <4> QED BY <1>1, <1>2, <3>2, <3>4, <4>2 DEF OnTime
    <3>7. \A t \in Streams : OnTime(t)' /\ InOrder(stream'[t], reader'[t])
      BY <1>1, <1>2, <3>2, <3>5, <3>6
    <3> QED BY <1>2, <3>3, <3>7 DEF Sound
  <2>9. CASE ~offer.offered
    <3>1. stream' = [stream EXCEPT ![s] = ended]
      BY <1>3, <1>10, <2>9
    <3>2. stream' \in [Streams -> StreamRecords] /\ stream'[s] = ended
          /\ \A t \in Streams \ {s} : stream'[t] = stream[t]
      BY <2>7, <3>1
    <3>3. TypeOK'
      BY <1>1, <1>2, <1>7, <1>8, <3>2 DEF TypeOK, StreamRecords, ReaderRecords
    <3>4. InOrder(ended, rd)
      <4>1. Drains(rd.version, rd.rows, queue.events)
        BY <1>5, <2>4, <2>9 DEF InOrder
      <4> QED BY <2>4, <2>7, <4>1 DEF InOrder
    <3>5. OnTime(s)'
      BY <2>7, <3>2 DEF OnTime
    <3>6. \A t \in Streams : OnTime(t)' /\ InOrder(stream'[t], reader'[t])
      BY <1>1, <1>2, <3>2, <3>4, <3>5
    <3> QED BY <1>2, <3>3, <3>6 DEF Sound
  <2> QED BY <2>8, <2>9
<1> QED BY <1>3, <1>4, <1>9, <1>10

(* The reader takes the oldest event. *)
LEMMA DeliverTakes ==
  ASSUME Inv, NEW s \in Streams, Deliver(s)
  PROVE  /\ \A t \in Streams \ {s} : stream'[t] = stream[t] /\ reader'[t] = reader[t]
         /\ stream'[s] \in StreamRecords /\ reader'[s] \in ReaderRecords
         /\ InOrder(stream'[s], reader'[s])
         /\ stream'[s].phase = stream[s].phase /\ stream'[s].path = stream[s].path
         /\ stream'[s].rows = stream[s].rows
         /\ reader[s].version <= reader'[s].version /\ reader[s].rows <= reader'[s].rows
         /\ Len(stream'[s].queue.events) = Len(stream[s].queue.events) - 1
         /\ \A top \in Nat : UpToDate(stream[s], reader[s], top) =>
                             UpToDate(stream'[s], reader'[s], top)
         /\ stream' \in [Streams -> StreamRecords] /\ reader' \in [Streams -> ReaderRecords]
<1> USE Facts
<1> DEFINE st == stream[s]
           rd == reader[s]
           q == st.queue
           events == q.events
           event == Head(events)
           rest == Tail(events)
           taken == RowsTaken(rd.rows, event)
           left == [q EXCEPT !.events = rest]
           next == [st EXCEPT !.queue = left]
           gap == IF event.type = "snapshot" THEN rd.gap ELSE rd.gap \/ rd.version # event.from
           got == [version |-> event.to, rows |-> taken, gap |-> gap]
           v == rd.version
           rows == rd.rows
<1>1. st \in StreamRecords /\ rd \in ReaderRecords /\ InOrder(st, rd)
  OBVIOUS
<1>2. v \in Nat /\ rows \in Int /\ rd.gap \in BOOLEAN /\ NoRows \in Int /\ q \in Queues(Int)
  BY <1>1, LiveQueryConstants DEF ReaderRecords, StreamRecords
<1>3. st.phase \in {"open", "ending"} /\ events # << >>
  BY DEF Deliver
<1>4. Bounded(q) /\ Drains(v, rows, events)
  BY <1>1 DEF InOrder
<1>5. /\ event.to \in Nat /\ taken \in Int /\ v <= event.to /\ rows <= taken
      /\ event.type = "snapshot" => event.from = event.to
      /\ Drains(event.to, taken, rest)
  <2> HIDE DEF st, rd, events, event, rest, taken, v
  <2>1. event = Head(events) /\ rest = Tail(events) /\ taken = RowsTaken(rows, event)
    BY DEF event, rest, taken
  <2> HIDE DEF rows
  <2>2. GoesOn(v, rows, event, taken, rest)
    BY <1>2, <1>3, <1>4, <2>1, TailDrains
  <2> QED BY <2>2 DEF GoesOn
<1>6. left \in Queues(Int) /\ Bounded(left)
  <2>1. left = [q EXCEPT !.events = Tail(q.events)] /\ q.events # << >>
    BY <1>3
  <2> HIDE DEF left, q
  <2> QED BY <1>2, <1>4, <2>1, TailBounded
<1>7. left.events = rest
  BY <1>2 DEF Queues
<1>8. gap \in BOOLEAN
  BY <1>2
<1>9. reader' = [reader EXCEPT ![s] = got]
  <2>1. reader' = [reader EXCEPT ![s] =
          IF event.type = "snapshot"
            THEN [version |-> event.from, rows |-> taken, gap |-> rd.gap]
            ELSE [version |-> event.to, rows |-> taken, gap |-> rd.gap \/ rd.version # event.from]]
    BY DEF Deliver
  <2> HIDE DEF event, taken, rd
  <2> QED BY <1>5, <2>1
<1>10. stream' = [stream EXCEPT ![s] = next]
  <2>1. stream' = [stream EXCEPT ![s].queue.events = Tail(@)]
    BY DEF Deliver
  <2> QED BY <2>1
<1>11. /\ next \in StreamRecords /\ next.phase = st.phase /\ next.path = st.path
       /\ next.rows = st.rows /\ next.queue = left
  <2> HIDE DEF st, left
  <2>1. st = [phase |-> st.phase, request |-> st.request, path |-> st.path,
              rows |-> st.rows, queue |-> st.queue, told |-> st.told]
    BY <1>1 DEF StreamRecords
  <2>2. next = [phase |-> st.phase, request |-> st.request, path |-> st.path,
                rows |-> st.rows, queue |-> left, told |-> st.told]
    BY <2>1
  <2>3. next \in StreamRecords
    BY <1>1, <1>6, <2>2 DEF StreamRecords
  <2> QED BY <2>2, <2>3
<1> HIDE DEF next, left, gap
<1>12. got \in ReaderRecords
  BY <1>5, <1>8 DEF ReaderRecords
<1>13. InOrder(next, got)
  BY <1>3, <1>5, <1>6, <1>7, <1>11 DEF InOrder
<1>14. ASSUME NEW top \in Nat, UpToDate(st, rd, top) PROVE UpToDate(next, got, top)
  <2>1. Leads(v, rows, events, top, st.rows)
    BY <1>14 DEF UpToDate
  <2>2. event = Head(events) /\ rest = Tail(events) /\ taken = RowsTaken(rows, event)
    OBVIOUS
  <2>3. Leads(event.to, taken, rest, top, st.rows)
    <3> DEFINE last == st.rows
    <3> HIDE DEF st, rd, events, event, rest, taken, v, rows, last
    <3>1. Leads(v, rows, events, top, last)
      BY <2>1 DEF last
    <3>2. Leads(event.to, taken, rest, top, last)
      BY <1>2, <1>3, <2>2, <3>1, TailLeads
    <3> QED BY <3>2 DEF last
  <2> QED BY <1>7, <1>11, <2>3 DEF UpToDate
<1>15. Len(rest) = Len(events) - 1
  BY <1>2, <1>3 DEF Queues
<1>16. /\ stream'[s] = next /\ reader'[s] = got
       /\ stream' \in [Streams -> StreamRecords] /\ reader' \in [Streams -> ReaderRecords]
       /\ \A t \in Streams \ {s} : stream'[t] = stream[t] /\ reader'[t] = reader[t]
  BY <1>9, <1>10, <1>11, <1>12
<1>17. got.version = event.to /\ got.rows = taken
  OBVIOUS
<1> HIDE DEF got, st, rd
<1>18. stream[s] = st /\ reader[s] = rd
  BY DEF st, rd
<1> QED BY <1>5, <1>7, <1>11, <1>12, <1>13, <1>14, <1>15, <1>16, <1>17, <1>18

(* A reader that takes an event comes nearer to the last of them. *)
LEMMA DeliverSound ==
  ASSUME Inv, NEW s \in Streams, Deliver(s)
  PROVE  TypeOK' /\ Sound'
<1> USE Facts
<1>1. UNCHANGED <<version, changed, fan, registry, worker>>
  BY DEF Deliver
<1>2. /\ \A t \in Streams \ {s} : stream'[t] = stream[t] /\ reader'[t] = reader[t]
      /\ InOrder(stream'[s], reader'[s])
      /\ stream'[s].phase = stream[s].phase /\ stream'[s].path = stream[s].path
      /\ stream'[s].rows = stream[s].rows
      /\ stream' \in [Streams -> StreamRecords] /\ reader' \in [Streams -> ReaderRecords]
  BY DeliverTakes
<1>3. \A top \in Nat : UpToDate(stream[s], reader[s], top) => UpToDate(stream'[s], reader'[s], top)
  BY DeliverTakes
<1>4. TypeOK'
  <2>1. worker \in {"open", "closing", "stopped"}
    BY TypesAre DEF Inv
  <2> QED BY <1>1, <1>2, <2>1 DEF TypeOK, StreamRecords, ReaderRecords
<1>5. Position' /\ (GateFree' <=> GateFree)
  BY <1>1 DEF Position, GateFree, Inv, Sound
<1>6. ASSUME NEW t \in Streams PROVE OnTime(t)'
  <2>1. Done(t)' = Done(t) /\ Done(t) \in Nat
    BY <1>1, <1>5 DEF Done
  <2>2. stream'[t].phase = stream[t].phase /\ stream'[t].path = stream[t].path
        /\ stream'[t].rows = stream[t].rows
    BY <1>2
  <2>standing. Standing(t)' = Standing(t)
    BY <1>1, <2>1, <2>2 DEF Standing, RowsAt
  <2>upToDate. UpToDate(stream[t], reader[t], Done(t)) => UpToDate(stream'[t], reader'[t], Done(t))
    BY <1>2, <1>3, <2>1
  <2>5. OnTime(t)
    OBVIOUS
  <2> QED BY <2>1, <2>2, <2>standing, <2>upToDate, <2>5 DEF OnTime
<1>7. \A t \in Streams : InOrder(stream'[t], reader'[t])
  BY <1>2
<1> QED BY <1>4, <1>5, <1>6, <1>7 DEF Sound

(* Nothing is queued at first, and nobody has seen anything. *)
LEMMA InitSound == Init => TypeOK /\ Sound
<1> SUFFICES ASSUME Init PROVE TypeOK /\ Sound
  OBVIOUS
<1>1. /\ version = 0 /\ changed = {} /\ fan = [at |-> 1, last |-> 0, todo |-> {}]
      /\ registry = [r \in Requests |-> NoStream] /\ worker = "open"
  BY DEF Init
<1> DEFINE st == [phase |-> "idle", request |-> NoStream, path |-> "memory",
                  rows |-> 0, queue |-> EmptyQueue, told |-> "nothing"]
           rd == [version |-> 0, rows |-> 0, gap |-> FALSE]
<1>2. stream = [s \in Streams |-> st] /\ reader = [s \in Streams |-> rd]
  BY DEF Init
<1>3. Drains(0, 0, << >>) /\ Bounded(EmptyQueue) /\ EmptyQueue \in Queues(Int)
  BY NothingDrains
<1>4. st \in StreamRecords /\ rd \in ReaderRecords /\ st.phase = "idle"
  BY <1>3 DEF StreamRecords, ReaderRecords
<1>5. InOrder(st, rd)
  BY <1>3 DEF InOrder, EmptyQueue
<1> HIDE DEF st, rd
<1>6. stream \in [Streams -> StreamRecords] /\ reader \in [Streams -> ReaderRecords]
  BY <1>2, <1>4
<1>7. TypeOK
  BY <1>1, <1>6, TypesAre
<1>8. Position
  BY <1>1 DEF Position
<1>9. \A s \in Streams : InOrder(stream[s], reader[s]) /\ OnTime(s)
  BY <1>2, <1>4, <1>5 DEF OnTime
<1> QED BY <1>7, <1>8, <1>9 DEF Sound

(* Every step keeps the types and the order. *)
LEMMA StepSound == Inv /\ [Next]_vars => Inv'
<1> SUFFICES ASSUME Inv, [Next]_vars PROVE Inv'
  OBVIOUS
<1>1. IInv'
  BY StepKeeps DEF Inv
<1>2. CASE \E s \in Streams, r \in Requests : Ask(s, r)
  BY <1>1, <1>2, AskSound DEF Inv
<1>3. CASE \E s \in Streams : Subscribe(s)
  BY <1>1, <1>3, SubscribeSound DEF Inv
<1>4. CASE \E s \in Streams : FanoutChange(s)
  BY <1>1, <1>4, FanoutChangeSound DEF Inv
<1>5. CASE \E s \in Streams : FanoutNothing(s)
  BY <1>1, <1>5, FanoutNothingSound DEF Inv
<1>6. CASE \E s \in Streams : Deliver(s)
  BY <1>1, <1>6, DeliverSound DEF Inv
<1>7. CASE \E s \in Streams : Finish(s) \/ Leave(s)
  BY <1>1, <1>7, FinalizeSound DEF Inv, Finish, Leave
<1>8. CASE \E r \in Requests : Unsubscribe(r)
  BY <1>1, <1>8, UnsubscribeSound DEF Inv
<1>9. CASE \E n \in 1 .. MaxBatch : \E hits \in SUBSET ((version + 1) .. (version + n)) :
             MutateBatch(n, hits)
  BY <1>1, <1>9, MutateBatchSound DEF Inv
<1>10. CASE NextChange
  BY <1>1, <1>10, NextChangeSound DEF Inv
<1>11. CASE Shutdown
  BY <1>1, <1>11, ShutdownSound DEF Inv
<1>12. CASE CloseRuntime \/ UNCHANGED vars
  <2>1. /\ UNCHANGED <<version, changed, fan, registry, stream, reader>>
        /\ worker' \in {"open", "closing", "stopped"}
    BY <1>12, TypesAre DEF CloseRuntime, vars, Inv
  <2>2. TypeOK' /\ Sound'
    BY <2>1, Facts, QuietKeeps
  <2> QED BY <1>1, <2>2 DEF Inv
<1> QED
  BY <1>2, <1>3, <1>4, <1>5, <1>6, <1>7, <1>8, <1>9, <1>10, <1>11, <1>12 DEF Next

(* The invariant always holds. *)
LEMMA AlwaysSound == Spec => []Inv
<1>1. Init => Inv
  BY InitEstablishes, InitSound DEF Inv
<1> QED BY <1>1, StepSound, PTL DEF Spec

-----------------------------------------------------------------------------
(* With everything queued applied a reader has the rows the worker believes *)
(* it shows, and once the gate is free those are the query's current rows:  *)
(* through coalescing, batches, the two ways the rows are found, refused    *)
(* deltas, replaced subscriptions and shutdown.                             *)
THEOREM NoChangeLost == Spec => []NothingLost
<1>1. Inv => NothingLost
  <2> SUFFICES ASSUME Inv, NEW s \in Streams, stream[s].phase = "open"
               PROVE  /\ RowsShown(reader[s].rows, stream[s].queue.events) = stream[s].rows
                      /\ GateFree => stream[s].rows = RowsAt(version)
    BY DEF NothingLost
  <2>1. OnTime(s) /\ (GateFree <=> fan.at = version + 1) /\ version \in Nat
    BY Facts
  <2>2. Leads(reader[s].version, reader[s].rows, stream[s].queue.events, Done(s), stream[s].rows)
    BY <2>1 DEF OnTime, UpToDate
  <2>3. RowsShown(reader[s].rows, stream[s].queue.events) = stream[s].rows
    BY <2>2, LeadsShown
  <2>4. ASSUME GateFree PROVE stream[s].rows = RowsAt(version)
    <3>1. Done(s) = version
      BY <2>1, <2>4 DEF Done
    <3> QED BY <2>1, <3>1 DEF OnTime, Standing
  <2> QED BY <2>3, <2>4
<1> QED BY <1>1, AlwaysSound, PTL

(* A queue stays within worker.maxQueueDepth, which the configuration lets  *)
(* be no less than 1, and the delta the producer would coalesce into is the *)
(* last one of the queue, so no event taken is rewritten nor is any event   *)
(* reordered.                                                               *)
THEOREM QueuesStaySound ==
  ASSUME MaxQueueDepth > 0
  PROVE  Spec => []QueuesSound
<1>1. Inv => QueuesSound
  <2> SUFFICES ASSUME Inv PROVE TypeOK /\ QueueSound
    BY DEF QueuesSound
  <2>1. \A s \in Streams : Bounded(stream[s].queue)
    BY Facts DEF InOrder
  <2>2. TypeOK
    BY DEF Inv
  <2>3. ASSUME NEW s \in Streams
        PROVE  LET q == stream[s].queue
               IN  /\ Len(q.events) <= MaxQueueDepth
                   /\ q.lag <= MaxQueueDepth
                   /\ q.pending # 0 /\ q.events # << >> =>
                        /\ Last(q.events).seq = q.pending
                        /\ \A i \in 1 .. (Len(q.events) - 1) : q.events[i].seq # q.pending
    BY <2>1 DEF Bounded, IsLast
  <2> QED BY <2>2, <2>3 DEF QueueSound
<1> QED BY <1>1, AlwaysSound, PTL

(* A reader never goes back to an older version or older rows, and nothing  *)
(* is added to the queue of a stream that is over.                          *)
Forward ==
  \A s \in Streams :
    /\ reader'[s].version >= reader[s].version
    /\ reader'[s].rows >= reader[s].rows
    /\ stream[s].phase \in {"ending", "closed"} =>
         Len(stream'[s].queue.events) <= Len(stream[s].queue.events)

(* The values that Forward compares are numbers. *)
LEMMA LengthsAre ==
  ASSUME Inv, NEW s \in Streams
  PROVE  /\ Len(stream[s].queue.events) \in Nat
         /\ reader[s].version \in Nat /\ reader[s].rows \in Int
<1>1. stream[s] \in StreamRecords /\ reader[s] \in ReaderRecords
  BY Facts
<1>2. stream[s].queue \in Queues(Int)
  BY <1>1 DEF StreamRecords
<1>3. stream[s].queue.events \in Seq(Events(Int))
  BY <1>2 DEF Queues
<1>4. Len(stream[s].queue.events) \in Nat
  BY <1>3
<1> QED BY <1>1, <1>4 DEF ReaderRecords

(* A step that only drops or keeps what ended streams have queued takes no *)
(* reader back.                                                            *)
LEMMA ForwardUnless ==
  ASSUME Inv, reader' = reader,
         \A s \in Streams : stream[s].phase \in {"ending", "closed"} =>
           stream'[s].queue = stream[s].queue \/ stream'[s].queue = EmptyQueue
  PROVE  Forward
<1> SUFFICES ASSUME NEW s \in Streams
             PROVE  /\ reader'[s].version >= reader[s].version
                    /\ reader'[s].rows >= reader[s].rows
                    /\ stream[s].phase \in {"ending", "closed"} =>
                         Len(stream'[s].queue.events) <= Len(stream[s].queue.events)
  BY DEF Forward
<1> DEFINE n == Len(stream[s].queue.events)
           m == Len(stream'[s].queue.events)
<1>1. n \in Nat /\ reader[s].version \in Nat /\ reader[s].rows \in Int
  BY LengthsAre
<1>2. stream'[s].queue = stream[s].queue => m = n
  OBVIOUS
<1>3. stream'[s].queue = EmptyQueue => m = 0
  BY DEF EmptyQueue
<1> HIDE DEF n, m
<1>4. stream[s].phase \in {"ending", "closed"} => m <= n
  BY <1>1, <1>2, <1>3
<1> QED BY <1>1, <1>4 DEF n, m

(* Only an open stream is ended, and only a delivery moves a reader. *)
LEMMA StepForward == Inv /\ [Next]_vars => Forward
<1> SUFFICES ASSUME Inv, [Next]_vars PROVE Forward
  OBVIOUS
<1> USE Facts
<1> DEFINE Same(s) == stream'[s].queue = stream[s].queue \/ stream'[s].queue = EmptyQueue
           Over(s) == stream[s].phase \in {"ending", "closed"}
<1>0. ASSUME reader' = reader, \A s \in Streams : Over(s) => Same(s) PROVE Forward
  BY <1>0, ForwardUnless
<1>1. \A s \in Streams : Over(s) => s \notin Registered
  BY DEF Inv, IInv, NoOrphan, Registered
<1>2. CASE \E s \in Streams, r \in Requests : Ask(s, r)
  <2>1. reader' = reader /\ \A s \in Streams : Over(s) => stream'[s] = stream[s]
    BY <1>2 DEF Ask
  <2> QED BY <1>0, <2>1
<1>3. CASE \E s \in Streams : Subscribe(s)
  <2>1. PICK s \in Streams : Subscribe(s)
    BY <1>3
  <2>2. stream[s].request \in Requests /\ stream[s].phase = "asked"
    BY <2>1 DEF Subscribe, Inv, IInv, Named
  <2>3. \A t \in Streams : t = registry[stream[s].request] => t \in Registered
    BY <2>2, LiveQueryConstants DEF Registered
  <2>4. reader' = reader
    BY <2>1 DEF Subscribe
  <2>5. \A t \in Streams : t # s /\ t # registry[stream[s].request] => stream'[t] = stream[t]
    BY <2>1 DEF Subscribe
  <2>6. \A t \in Streams : Over(t) => t # s /\ t # registry[stream[s].request]
    BY <1>1, <2>2, <2>3
  <2> QED BY <1>0, <2>4, <2>5, <2>6
<1>4. CASE \E s \in Streams : FanoutChange(s)
  <2>1. PICK s \in Streams : FanoutChange(s)
    BY <1>4
  <2>2. reader' = reader /\ s \in fan.todo
    BY <2>1 DEF FanoutChange
  <2>3. stream[s].phase \in {"open", "closed"}
    BY <2>2 DEF Inv, IInv, Fed
  <2>4. stream[s].phase = "closed" => stream' = stream
    BY <2>1 DEF FanoutChange
  <2>5. \A t \in Streams : t # s => stream'[t] = stream[t]
    BY <2>1 DEF FanoutChange
  <2>6. \A t \in Streams : Over(t) => stream'[t] = stream[t]
    BY <2>3, <2>4, <2>5
  <2> QED BY <1>0, <2>2, <2>6
<1>5. CASE \E s \in Streams : Deliver(s)
  <2>1. PICK s \in Streams : Deliver(s)
    BY <1>5
  <2>2. /\ \A t \in Streams \ {s} : stream'[t] = stream[t] /\ reader'[t] = reader[t]
        /\ reader[s].version <= reader'[s].version /\ reader[s].rows <= reader'[s].rows
        /\ Len(stream'[s].queue.events) = Len(stream[s].queue.events) - 1
    BY <2>1, DeliverTakes
  <2>3. reader' \in [Streams -> ReaderRecords]
    BY <2>1, DeliverTakes
  <2> SUFFICES ASSUME NEW t \in Streams
               PROVE  /\ reader'[t].version >= reader[t].version
                      /\ reader'[t].rows >= reader[t].rows
                      /\ Len(stream'[t].queue.events) <= Len(stream[t].queue.events)
    BY DEF Forward
  <2>4. /\ Len(stream[t].queue.events) \in Nat
        /\ reader[t].version \in Nat /\ reader[t].rows \in Int
    BY LengthsAre
  <2>5. reader'[t].version \in Nat /\ reader'[t].rows \in Int
    BY <2>3 DEF ReaderRecords
  <2>6. CASE t = s
    BY <2>2, <2>4, <2>5, <2>6
  <2>7. CASE t # s
    BY <2>2, <2>4, <2>7
  <2> QED BY <2>6, <2>7
<1>6. CASE \E s \in Streams : Finish(s) \/ Leave(s)
  <2>1. PICK s \in Streams : Finalize(s)
    BY <1>6 DEF Finish, Leave
  <2>2. reader' = reader /\ \A t \in Streams : t # s => stream'[t] = stream[t]
    BY <2>1 DEF Finalize
  <2>3. stream'[s].queue = EmptyQueue
    <3>1. stream[s] \in StreamRecords
      OBVIOUS
    <3>2. stream'[s] = [stream[s] EXCEPT !.phase = "closed", !.queue = EmptyQueue]
      BY <2>1 DEF Finalize
    <3> QED BY <3>1, <3>2 DEF StreamRecords
  <2> QED BY <1>0, <2>2, <2>3
<1>7. CASE \E r \in Requests : Unsubscribe(r)
  <2>1. PICK r \in Requests : Unsubscribe(r)
    BY <1>7
  <2>2. reader' = reader /\ \A t \in Streams : t # registry[r] => stream'[t] = stream[t]
    BY <2>1 DEF Unsubscribe
  <2>3. registry[r] \in Registered
    BY <2>1 DEF Unsubscribe, Registered
  <2>4. \A t \in Streams : Over(t) => t # registry[r]
    BY <1>1, <2>3
  <2> QED BY <1>0, <2>2, <2>4
<1>8. CASE \E n \in 1 .. MaxBatch : \E hits \in SUBSET ((version + 1) .. (version + n)) :
             MutateBatch(n, hits)
  <2>1. reader' = reader /\ stream' = stream
    BY <1>8 DEF MutateBatch
  <2> QED BY <1>0, <2>1
<1>9. CASE NextChange \/ CloseRuntime \/ UNCHANGED vars \/ \E s \in Streams : FanoutNothing(s)
  <2>1. reader' = reader /\ stream' = stream
    BY <1>9 DEF NextChange, CloseRuntime, vars, FanoutNothing
  <2> QED BY <1>0, <2>1
<1>10. CASE Shutdown
  <2>1. reader' = reader /\ \A t \in Streams : t \notin Registered => stream'[t] = stream[t]
    BY <1>10 DEF Shutdown
  <2> QED BY <1>0, <1>1, <2>1
<1> QED
  BY <1>2, <1>3, <1>4, <1>5, <1>6, <1>7, <1>8, <1>9, <1>10 DEF Next

(* A reader never goes back, and a stream that is over is fed no more. *)
THEOREM NeverBack == Spec => OnlyForward
<1>1. Inv /\ [Next]_vars => [Forward]_vars
  BY StepForward
<1>2. Spec => [][Forward]_vars
  BY <1>1, AlwaysSound, PTL DEF Spec
<1> QED BY <1>2 DEF Forward, OnlyForward
====
