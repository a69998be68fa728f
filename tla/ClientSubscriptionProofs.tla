----------------------- MODULE ClientSubscriptionProofs -----------------------
(***************************************************************************)
(* What a live query shows its reader, for any numbers of request ids,     *)
(* mutations and lost connections and any limit of the pipe: rows that the *)
(* query had at the version shown, live ones only while its loop takes     *)
(* events, and a loop that waits is fed.  The invariant says of each       *)
(* request id what the worker, the pipe and the connection have of it.     *)
(***************************************************************************)
EXTENDS ClientSubscription, SequenceTheorems, TLAPS

Event ==
  [type : Terminals] \cup [type : {"snapshot", "status"}, rows : Nat, to : Nat]
    \cup [type : {"delta"}, rows : Nat, from : Nat, to : Nat]

StoreRecord ==
  [life : [hasValue : BOOLEAN, rows : Nat, connected : BOOLEAN, attempt : Nat,
           status : {"connecting", "stale", "reconnecting", "live"}],
   result : {Initial} \cup {Success(w) : w \in BOOLEAN} \cup {Failure(w) : w \in BOOLEAN},
   version : Nat \cup {NoVersion}]

LoopRecord == [pc : PCs, request : 0..MaxRequests, attempt : 0..MaxRequests]

(* The rows of an event are those of the version it leads to.               *)
Served(h, rows, v) == v + 1 \in DOMAIN h /\ rows = h[v + 1]
SoundEvent(h, e) == e.type \in {"snapshot", "delta"} => Served(h, e.rows, e.to)
SoundStore(h, st) == st.version # NoVersion => Served(h, st.life.rows, st.version)

(* What ends a stream is its last event, and the only one over the limit.   *)
HasEnd(p) == \E i \in DOMAIN p : p[i].type \in Terminals
SoundPipe(h, p) ==
  /\ p \in Seq(Event)
  /\ \A i \in DOMAIN p : SoundEvent(h, p[i]) /\ (p[i].type \in Terminals => i = Len(p))
  /\ Len(p) <= PipeLimit + 1
  /\ ~HasEnd(p) => Len(p) <= PipeLimit

(* A request id: it is subscribed once, nothing is sent before that, and a  *)
(* stream that has its end is fed no more, or its client end has gone.      *)
Fresh(r, p, s, a, g) == p = <<>> /\ s = "none" /\ Ask("Subscribe", r) \notin a /\ r \notin g
SoundRequest(r, p, s, a, g) ==
  /\ HasEnd(p) => s = "none" \/ r \in g
  /\ Ask("Subscribe", r) \in a => s = "none" /\ (p = <<>> \/ r \in g)

(* A loop that waits for events waits for one that comes.                   *)
Awaited(r, p, s, a, g) ==
  /\ Ask("Subscribe", r) \in a \/ s # "none" \/ HasEnd(p)
  /\ r \in g => HasEnd(p)

Types ==
  /\ history \in Seq(Nat) /\ Version \in 0..MaxVersion
  /\ open \in BOOLEAN /\ losses \in 0..MaxLosses
  /\ server \in [Requests -> {"none", "live", "dirty"}]
  /\ asked \subseteq [type : {"Subscribe", "Unsubscribe"}, request : Requests]
  /\ gone \subseteq Requests /\ owner \in {"hook", "store"}
  /\ loop \in LoopRecord /\ loop.attempt <= loop.request
  /\ closed \in BOOLEAN /\ closer \in {"none", "unsubscribing", "done"}
  /\ store \in StoreRecord

PipesSound ==
  /\ pipe \in [Requests -> Seq(Event)]
  /\ \A r \in Requests : SoundPipe(history, pipe[r])

RequestsSound ==
  \A r \in Requests :
    /\ SoundRequest(r, pipe[r], server[r], asked, gone)
    /\ r > Current => Fresh(r, pipe[r], server[r], asked, gone)

LoopFed ==
  loop.pc \in {"taking", "unsubscribing"} => Current \in Requests
LoopAwaits ==
  loop.pc = "taking" => Awaited(Current, pipe[Current], server[Current], asked, gone)

IInv ==
  /\ Types /\ PipesSound /\ RequestsSound
  /\ LoopFed /\ LoopAwaits
  /\ SoundStore(history, store)
  /\ LiveWhileTaking

-----------------------------------------------------------------------------
(* Pipes.                                                                   *)

(* What the kinds of events are made of.                                    *)
LEMMA EventIs ==
  ASSUME NEW e \in Event
  PROVE  /\ e.type \in Terminals \cup {"snapshot", "status", "delta"}
         /\ e.type \in {"snapshot", "status", "delta"} => e.rows \in Nat /\ e.to \in Nat
<1>1. CASE e \in [type : Terminals]
  BY <1>1 DEF Terminals
<1>2. CASE e \in [type : {"snapshot", "status"}, rows : Nat, to : Nat]
  BY <1>2
<1>3. CASE e \in [type : {"delta"}, rows : Nat, from : Nat, to : Nat]
  BY <1>3
<1> QED BY <1>1, <1>2, <1>3 DEF Event

(* An empty pipe, that of a stream nothing was sent on, is sound.           *)
LEMMA EmptyPipe ==
  ASSUME NEW h
  PROVE  SoundPipe(h, <<>>) /\ ~HasEnd(<<>>)
BY ClientAssumption DEF SoundPipe, HasEnd

(* A mutation adds to the history, and what was sent stays sound.           *)
LEMMA PipeOutlives ==
  ASSUME NEW h \in Seq(Nat), NEW x \in Nat, NEW p, SoundPipe(h, p)
  PROVE  SoundPipe(Append(h, x), p)
<1>1. p \in Seq(Event) /\ \A i \in DOMAIN p : p[i] \in Event
  BY DEF SoundPipe
<1>2. \A i \in DOMAIN p : SoundEvent(Append(h, x), p[i])
  BY <1>1, EventIs DEF SoundPipe, SoundEvent, Served
<1> QED BY <1>1, <1>2 DEF SoundPipe

(* So do the rows that are shown.                                           *)
LEMMA StoreOutlives ==
  ASSUME NEW h \in Seq(Nat), NEW x \in Nat, NEW st \in StoreRecord, SoundStore(h, st)
  PROVE  SoundStore(Append(h, x), st)
BY DEF SoundStore, Served, StoreRecord, NoVersion

(* An event is sent on a stream that has no end yet, and that is not full or *)
(* that it ends.                                                            *)
LEMMA PipeGrows ==
  ASSUME NEW h, NEW p, SoundPipe(h, p), ~HasEnd(p), NEW e \in Event, SoundEvent(h, e),
         Len(p) < PipeLimit \/ e.type \in Terminals
  PROVE  /\ SoundPipe(h, Append(p, e))
         /\ HasEnd(Append(p, e)) <=> e.type \in Terminals
<1> DEFINE q == Append(p, e)
<1>1. /\ q \in Seq(Event) /\ Len(q) = Len(p) + 1 /\ Len(p) \in Nat /\ DOMAIN p = 1..Len(p)
      /\ q[Len(q)] = e /\ \A i \in DOMAIN p : q[i] = p[i]
      /\ DOMAIN q = 1..Len(q)
  BY DEF SoundPipe
<1>2. Len(p) <= PipeLimit /\ PipeLimit \in Nat
  BY ClientAssumption DEF SoundPipe
<1>3. \A i \in DOMAIN p : SoundEvent(h, p[i]) /\ p[i].type \notin Terminals
  BY DEF SoundPipe, HasEnd
<1> HIDE DEF q
<1>4. \A i \in DOMAIN q : i \in DOMAIN p \/ i = Len(q)
  BY <1>1
<1>5. HasEnd(q) <=> e.type \in Terminals
  BY <1>1, <1>3, <1>4 DEF HasEnd
<1>6. \A i \in DOMAIN q : SoundEvent(h, q[i]) /\ (q[i].type \in Terminals => i = Len(q))
  BY <1>1, <1>3, <1>4
<1>7. Len(q) <= PipeLimit + 1 /\ (~HasEnd(q) => Len(q) <= PipeLimit)
  BY <1>1, <1>2, <1>5
<1>8. SoundPipe(h, q)
  BY <1>1, <1>6, <1>7 DEF SoundPipe
<1> QED BY <1>5, <1>8 DEF q

(* The loop takes the oldest event; after the end of a stream there is none. *)
LEMMA PipeTaken ==
  ASSUME NEW h, NEW p, SoundPipe(h, p), p # <<>>
  PROVE  /\ Head(p) \in Event /\ SoundEvent(h, Head(p))
         /\ SoundPipe(h, Tail(p))
         /\ HasEnd(Tail(p)) <=> HasEnd(p) /\ Head(p).type \notin Terminals
<1> DEFINE q == Tail(p)
<1>1. /\ p \in Seq(Event) /\ Len(p) \in Nat /\ DOMAIN p = 1..Len(p) /\ 1 \in DOMAIN p /\ Head(p) = p[1]
      /\ q \in Seq(Event) /\ Len(q) = Len(p) - 1 /\ DOMAIN q = 1..Len(q)
      /\ \A i \in DOMAIN q : i + 1 \in DOMAIN p /\ q[i] = p[i + 1]
  BY DEF SoundPipe
<1>2. \A i \in DOMAIN p : i = 1 \/ (i - 1 \in DOMAIN q /\ p[i] = q[i - 1])
  BY <1>1
<1>3. \A i \in DOMAIN p : SoundEvent(h, p[i]) /\ (p[i].type \in Terminals => i = Len(p))
  BY DEF SoundPipe
<1> HIDE DEF q
<1>4. HasEnd(q) => HasEnd(p) /\ p[1].type \notin Terminals
  BY <1>1, <1>3 DEF HasEnd
<1>5. HasEnd(p) /\ p[1].type \notin Terminals => HasEnd(q)
  BY <1>1, <1>2 DEF HasEnd
<1>6. \A i \in DOMAIN q : SoundEvent(h, q[i]) /\ (q[i].type \in Terminals => i = Len(q))
  BY <1>1, <1>3
<1>7. Len(q) <= PipeLimit /\ PipeLimit \in Nat
  BY <1>1, ClientAssumption DEF SoundPipe
<1>8. SoundPipe(h, q)
  BY <1>1, <1>6, <1>7 DEF SoundPipe
<1> QED BY <1>1, <1>3, <1>4, <1>5, <1>8 DEF q

(* Of a stream whose connection is lost a first part may still arrive, and  *)
(* then its end.                                                            *)
LEMMA PipeCut ==
  ASSUME NEW h, NEW p, SoundPipe(h, p), ~HasEnd(p), NEW k \in 0..Len(p), NEW e \in Event,
         e.type \in Terminals
  PROVE  SoundPipe(h, Append(SubSeq(p, 1, k), e)) /\ HasEnd(Append(SubSeq(p, 1, k), e))
<1> DEFINE q == SubSeq(p, 1, k)
<1>1. p \in Seq(Event) /\ Len(p) \in Nat /\ DOMAIN p = 1..Len(p)
  BY DEF SoundPipe
<1>2. q \in Seq(Event) /\ Len(q) = k /\ DOMAIN q = 1..k /\ \A i \in 1..k : q[i] = p[i]
  BY <1>1
<1>3. Len(p) <= PipeLimit /\ PipeLimit \in Nat
  BY ClientAssumption DEF SoundPipe
<1>4. \A i \in DOMAIN p : SoundEvent(h, p[i]) /\ p[i].type \notin Terminals
  BY DEF SoundPipe, HasEnd
<1> HIDE DEF q
<1>5. ~HasEnd(q) /\ SoundPipe(h, q)
  BY <1>1, <1>2, <1>3, <1>4 DEF HasEnd, SoundPipe
<1>6. SoundEvent(h, e)
  BY DEF SoundEvent, Terminals
<1>7. SoundPipe(h, Append(q, e)) /\ HasEnd(Append(q, e))
  BY <1>5, <1>6, PipeGrows
<1> QED BY <1>7 DEF q

-----------------------------------------------------------------------------
(* The store.                                                               *)

(* A store that shows no live rows, with the rows and version of another.   *)
Dimmed(st, new) ==
  /\ new \in StoreRecord /\ new.result # Success(FALSE)
  /\ new.version = st.version /\ new.life.rows = st.life.rows

(* The results of a reader that waits are none of live rows.                *)
LEMMA ResultsDiffer ==
  /\ Initial # Success(FALSE) /\ Success(TRUE) # Success(FALSE)
  /\ \A w \in BOOLEAN : Failure(w) # Success(FALSE)
BY DEF Initial, Success, Failure

LifeRecord ==
  [hasValue : BOOLEAN, rows : Nat, connected : BOOLEAN, attempt : Nat,
   status : {"connecting", "stale", "reconnecting", "live"}]
ResultSet == {Initial} \cup {Success(w) : w \in BOOLEAN} \cup {Failure(w) : w \in BOOLEAN}

(* What the applied transition puts into the store.                         *)
LEMMA AppliedIs ==
  ASSUME NEW st \in StoreRecord, NEW l \in LifeRecord, NEW res \in ResultSet
  PROVE  /\ Applied(st, [life |-> l, result |-> res]) \in StoreRecord
         /\ Applied(st, [life |-> l, result |-> res]).life = l
         /\ Applied(st, [life |-> l, result |-> res]).result = res
         /\ Applied(st, [life |-> l, result |-> res]).version = st.version
<1> DEFINE t == [life |-> l, result |-> res]
           new == [st EXCEPT !.life = t.life, !.result = t.result]
<1>1. StoreRecord = [life : LifeRecord, result : ResultSet, version : Nat \cup {NoVersion}]
  BY DEF StoreRecord, LifeRecord, ResultSet
<1>2. t.life = l /\ t.result = res
  OBVIOUS
<1> DEFINE V == Nat \cup {NoVersion}
<1>3. new = [life |-> l, result |-> res, version |-> st.version] /\ st.version \in V
  <2> HIDE DEF LifeRecord, ResultSet, V
  <2> DEFINE e == [st EXCEPT !.life = l, !.result = res]
  <2>1. st.version \in V /\ StoreRecord = [life : LifeRecord, result : ResultSet, version : V]
    BY <1>1 DEF V
  <2>2. e \in StoreRecord /\ e.life = l /\ e.result = res /\ e.version = st.version
    BY <2>1
  <2>3. new = e
    BY <1>2
  <2> HIDE DEF e
  <2>4. e = [life |-> e.life, result |-> e.result, version |-> e.version]
    BY <2>1, <2>2
  <2> QED BY <2>1, <2>2, <2>3, <2>4
<1> HIDE DEF t
<1>4. Applied(st, t) = new
  BY DEF Applied
<1> QED BY <1>1, <1>3, <1>4 DEF t

(* A reader that waits is shown no live rows.                               *)
LEMMA WaitingIs ==
  ASSUME NEW l \in LifeRecord
  PROVE  WaitingResult(l) \in ResultSet /\ WaitingResult(l) # Success(FALSE)
BY ResultsDiffer DEF WaitingResult, ResultSet

(* The parts of a store.                                                    *)
LEMMA StoreIs ==
  ASSUME NEW st \in StoreRecord
  PROVE  st.life \in LifeRecord /\ st.life.rows \in Nat /\ st.result \in ResultSet
         /\ st.version \in Nat \cup {NoVersion}
<1>1. StoreRecord = [life : LifeRecord, result : ResultSet, version : Nat \cup {NoVersion}]
  BY DEF StoreRecord, LifeRecord, ResultSet
<1>2. st.life \in LifeRecord /\ st.result \in ResultSet /\ st.version \in Nat \cup {NoVersion}
  <2> HIDE DEF LifeRecord, ResultSet
  <2> QED BY <1>1
<1> QED BY <1>2 DEF LifeRecord

(* New dim lifecycle data dim the store.                                    *)
LEMMA AppliedDims ==
  ASSUME NEW st \in StoreRecord, NEW n \in LifeRecord, n.rows = st.life.rows,
         NEW res \in ResultSet, res # Success(FALSE)
  PROVE  Dimmed(st, Applied(st, [life |-> n, result |-> res]))
<1> DEFINE new == Applied(st, [life |-> n, result |-> res])
<1>1. new \in StoreRecord /\ new.life = n /\ new.result = res /\ new.version = st.version
  BY AppliedIs
<1> HIDE DEF new
<1>2. Dimmed(st, new)
  BY <1>1 DEF Dimmed
<1> QED BY <1>2 DEF new

(* A mount and a close change what is said of the connection only.          *)
LEMMA SetStatusDims ==
  ASSUME NEW st \in StoreRecord, NEW status, status # "live"
  PROVE  Dimmed(st, SetStatus(st, status))
<1> DEFINE l == st.life
           n == [l EXCEPT !.status = StatusFromLifecycle(l, status), !.connected = @ /\ status # "closed"]
<1>1. l \in LifeRecord
  BY StoreIs
<1>2. n \in LifeRecord /\ n.rows = l.rows
  BY <1>1 DEF LifeRecord, StatusFromLifecycle
<1>3. TransitionLifecycleStatus(l, status) = [life |-> n, result |-> WaitingResult(n)]
  BY DEF TransitionLifecycleStatus
<1>4. SetStatus(st, status) = Applied(st, [life |-> n, result |-> WaitingResult(n)])
  BY <1>3 DEF SetStatus
<1> HIDE DEF n
<1> DEFINE res == WaitingResult(n)
<1>5. res \in ResultSet /\ res # Success(FALSE)
  BY <1>2, WaitingIs
<1> HIDE DEF res
<1>6. Dimmed(st, Applied(st, [life |-> n, result |-> res]))
  BY <1>2, <1>5, AppliedDims
<1> QED BY <1>4, <1>6 DEF res

(* A provider that failed shows its failure.                                *)
LEMMA SetErrorDims ==
  ASSUME NEW st \in StoreRecord
  PROVE  Dimmed(st, SetError(st))
<1> DEFINE l == st.life
           n == [l EXCEPT !.status = IF l.attempt > 1 THEN "reconnecting" ELSE "stale", !.connected = FALSE]
           res == Failure(n.hasValue)
<1>1. l \in LifeRecord
  BY StoreIs
<1>2. n \in LifeRecord /\ n.rows = l.rows /\ n.hasValue \in BOOLEAN
  BY <1>1 DEF LifeRecord
<1>3. SetError(st) = Applied(st, [life |-> n, result |-> res])
  BY DEF SetError, TransitionError
<1> HIDE DEF n
<1>4. res \in ResultSet /\ res # Success(FALSE)
  BY <1>2, ResultsDiffer DEF ResultSet
<1> HIDE DEF res
<1>5. Dimmed(st, Applied(st, [life |-> n, result |-> res]))
  BY <1>2, <1>4, AppliedDims
<1> QED BY <1>3, <1>5 DEF res

(* An attempt begins under a number of its own.                             *)
LEMMA BeginAttemptDims ==
  ASSUME NEW st \in StoreRecord, NEW attempt \in Nat
  PROVE  Dimmed(st, BeginAttempt(st, attempt))
<1> DEFINE l == st.life
           n == [l EXCEPT !.status = IF l.hasValue THEN "stale" ELSE "connecting",
                          !.connected = FALSE, !.attempt = attempt]
           res == WaitingResult(n)
<1>1. l \in LifeRecord
  BY StoreIs
<1>2. n \in LifeRecord /\ n.rows = l.rows
  BY <1>1 DEF LifeRecord
<1>3. BeginAttempt(st, attempt) = Applied(st, [life |-> n, result |-> res])
  BY DEF BeginAttempt, TransitionBeginAttempt
<1> HIDE DEF n
<1>4. res \in ResultSet /\ res # Success(FALSE)
  BY <1>2, WaitingIs
<1> HIDE DEF res
<1>5. Dimmed(st, Applied(st, [life |-> n, result |-> res]))
  BY <1>2, <1>4, AppliedDims
<1> QED BY <1>3, <1>5

(* An attempt that failed is to be made again.                              *)
LEMMA RetryAttemptDims ==
  ASSUME NEW st \in StoreRecord, NEW attempt \in Nat
  PROVE  Dimmed(st, RetryAttempt(st, attempt))
<1> DEFINE l == st.life
           n == [l EXCEPT !.status = IF l.hasValue THEN "reconnecting" ELSE "connecting",
                          !.connected = FALSE, !.attempt = attempt]
           res == WaitingResult(n)
<1>1. l \in LifeRecord
  BY StoreIs
<1>2. n \in LifeRecord /\ n.rows = l.rows
  BY <1>1 DEF LifeRecord
<1>3. RetryAttempt(st, attempt) = Applied(st, [life |-> n, result |-> res])
  BY DEF RetryAttempt, TransitionRetryAttempt
<1> HIDE DEF n
<1>4. res \in ResultSet /\ res # Success(FALSE)
  BY <1>2, WaitingIs
<1> HIDE DEF res
<1>5. Dimmed(st, Applied(st, [life |-> n, result |-> res]))
  BY <1>2, <1>4, AppliedDims
<1> QED BY <1>3, <1>5

(* A new store has no version yet.                                          *)
LEMMA NewStoreIs ==
  ASSUME NEW hasInitialData \in BOOLEAN
  PROVE  /\ NewStore(hasInitialData, 0) \in StoreRecord
         /\ NewStore(hasInitialData, 0).version = NoVersion
         /\ NewStore(hasInitialData, 0).result # Success(FALSE)
<1> DEFINE l == [hasValue |-> hasInitialData, rows |-> 0, connected |-> FALSE, attempt |-> 0,
                 status |-> IF hasInitialData THEN "stale" ELSE "connecting"]
           res == WaitingResult(l)
           new == [life |-> l, result |-> res, version |-> NoVersion]
<1>1. l \in LifeRecord
  BY DEF LifeRecord
<1>2. NewStore(hasInitialData, 0) = new
  BY DEF NewStore
<1> HIDE DEF l
<1>3. res \in ResultSet /\ res # Success(FALSE)
  BY <1>1, WaitingIs
<1>4. StoreRecord = [life : LifeRecord, result : ResultSet, version : Nat \cup {NoVersion}]
  BY DEF StoreRecord, LifeRecord, ResultSet
<1> HIDE DEF l, res
<1>5. new \in StoreRecord /\ new.version = NoVersion /\ new.result # Success(FALSE)
  <2> HIDE DEF LifeRecord, ResultSet
  <2> QED BY <1>1, <1>3, <1>4
<1> QED BY <1>2, <1>5

(* Dimming leaves what the rows are said to be.                             *)
LEMMA DimmedSound ==
  ASSUME NEW h, NEW st, NEW new, SoundStore(h, st), Dimmed(st, new)
  PROVE  SoundStore(h, new)
BY DEF SoundStore, Dimmed

(* The store takes an event: rows come with their version, or stay.         *)
LEMMA EventApplied ==
  ASSUME NEW h \in Seq(Nat), NEW st \in StoreRecord, SoundStore(h, st),
         NEW e \in Event, SoundEvent(h, e), e.type \notin Terminals
  PROVE  ApplyEvent(st, e) \in StoreRecord /\ SoundStore(h, ApplyEvent(st, e))
<1> DEFINE l == st.life
<1>1. l \in LifeRecord /\ st.version \in Nat \cup {NoVersion}
  BY StoreIs
<1>2. e.type \in {"snapshot", "status", "delta"} /\ e.rows \in Nat /\ e.to \in Nat
  BY EventIs
<1>3. CASE e.type = "status"
  <2> DEFINE n == [l EXCEPT !.hasValue = TRUE, !.status = "stale", !.connected = TRUE]
             res == WaitingResult(n)
  <2>1. n \in LifeRecord /\ n.rows = l.rows
    BY <1>1 DEF LifeRecord
  <2>2. ApplyEvent(st, e) = Applied(st, [life |-> n, result |-> res])
    BY <1>3 DEF ApplyEvent, TransitionStatusEvent
  <2> HIDE DEF n
  <2>3. res \in ResultSet /\ res # Success(FALSE)
    BY <2>1, WaitingIs
  <2> HIDE DEF res
  <2>4. Dimmed(st, Applied(st, [life |-> n, result |-> res]))
    BY <2>1, <2>3, AppliedDims
  <2>5. Dimmed(st, ApplyEvent(st, e))
    BY <2>2, <2>4
  <2> QED BY <2>5, DimmedSound DEF Dimmed
<1>4. CASE e.type \in {"snapshot", "delta"}
  <2> DEFINE n == [l EXCEPT !.hasValue = TRUE, !.rows = e.rows, !.status = "live", !.connected = TRUE]
             res == Success(FALSE)
             mid == Applied(st, [life |-> n, result |-> res])
             new == [mid EXCEPT !.version = e.to]
  <2>1. n \in LifeRecord /\ n.rows = e.rows
    BY <1>1, <1>2 DEF LifeRecord
  <2>2. ApplyEvent(st, e) = new
    BY <1>4 DEF ApplyEvent, TransitionSnapshot, TransitionDelta
  <2>3. res \in ResultSet
    BY DEF ResultSet
  <2> HIDE DEF n, res
  <2>4. mid \in StoreRecord /\ mid.life = n
    BY <2>1, <2>3, AppliedIs
  <2> HIDE DEF mid
  <2>5. StoreRecord = [life : LifeRecord, result : ResultSet, version : Nat \cup {NoVersion}]
    BY DEF StoreRecord, LifeRecord, ResultSet
  <2>6. new \in StoreRecord /\ new.life = n /\ new.version = e.to
    <3> HIDE DEF LifeRecord, ResultSet
    <3> QED BY <1>2, <2>4, <2>5
  <2>7. Served(h, e.rows, e.to)
    BY <1>4 DEF SoundEvent
  <2> HIDE DEF new
  <2> QED BY <2>1, <2>2, <2>6, <2>7 DEF SoundStore
<1> QED BY <1>2, <1>3, <1>4

-----------------------------------------------------------------------------
(* Steps of the server and of the connections.                              *)

(* The events that are sent, and their ends, are events.                    *)
LEMMA EventsSent ==
  ASSUME IInv
  PROVE  /\ Snapshot \in Event /\ SoundEvent(history, Snapshot) /\ Snapshot.type = "snapshot"
         /\ Status \in Event /\ SoundEvent(history, Status) /\ Status.type = "status"
         /\ \A tag \in Terminals :
              Terminal(tag) \in Event /\ SoundEvent(history, Terminal(tag)) /\ Terminal(tag).type = tag
<1>1. history \in Seq(Nat) /\ Version \in Nat /\ Version + 1 \in DOMAIN history
  BY DEF IInv, Types, Version
<1>2. history[Version + 1] \in Nat
  BY <1>1
<1>3. Snapshot \in Event /\ SoundEvent(history, Snapshot) /\ Snapshot.type = "snapshot"
  <2>1. Snapshot \in [type : {"snapshot", "status"}, rows : Nat, to : Nat]
    BY <1>1, <1>2 DEF Snapshot
  <2>2. SoundEvent(history, Snapshot)
    BY <1>1 DEF Snapshot, SoundEvent, Served
  <2> QED BY <2>1, <2>2 DEF Event, Snapshot
<1>4. Status \in Event /\ SoundEvent(history, Status) /\ Status.type = "status"
  <2>1. Status \in [type : {"snapshot", "status"}, rows : Nat, to : Nat]
    BY <1>1 DEF Status
  <2> QED BY <2>1 DEF Event, Status, SoundEvent
<1>5. ASSUME NEW tag \in Terminals
      PROVE  Terminal(tag) \in Event /\ SoundEvent(history, Terminal(tag)) /\ Terminal(tag).type = tag
  BY DEF Terminal, Event, SoundEvent, Terminals
<1> QED BY <1>3, <1>4, <1>5

(* What is sent to a client end that is there is added to its pipe.         *)
LEMMA SentSound ==
  ASSUME NEW h, NEW r, SoundPipe(h, pipe[r]), r \notin gone => ~HasEnd(pipe[r]),
         NEW e \in Event, SoundEvent(h, e),
         r \notin gone => Len(pipe[r]) < PipeLimit \/ e.type \in Terminals
  PROVE  /\ SoundPipe(h, Sent(r, e))
         /\ r \in gone => Sent(r, e) = pipe[r]
         /\ r \notin gone => (HasEnd(Sent(r, e)) <=> e.type \in Terminals)
<1>1. CASE r \in gone
  BY <1>1 DEF Sent
<1>2. CASE r \notin gone
  <2> DEFINE p == pipe[r]
  <2>1. Sent(r, e) = Append(p, e)
    BY <1>2 DEF Sent
  <2>2. SoundPipe(h, p) /\ ~HasEnd(p) /\ (Len(p) < PipeLimit \/ e.type \in Terminals)
    BY <1>2
  <2> HIDE DEF p
  <2>3. SoundPipe(h, Append(p, e)) /\ (HasEnd(Append(p, e)) <=> e.type \in Terminals)
    BY <2>2, PipeGrows
  <2> QED BY <1>2, <2>1, <2>3
<1> QED BY <1>1, <1>2

(* A step that leaves the client and its store alone is judged by what it   *)
(* does to each stream.                                                     *)
LEMMA ServerStep ==
  ASSUME IInv, UNCHANGED <<owner, loop, closed, closer, store>>, Types', PipesSound', RequestsSound',
         SoundStore(history', store),
         \A r \in Requests : Awaited(r, pipe[r], server[r], asked, gone)
                               => Awaited(r, pipe'[r], server'[r], asked', gone')
  PROVE  IInv'
<1>1. LoopFed' /\ LiveWhileTaking'
  BY DEF IInv, LoopFed, Current, LiveWhileTaking, ShownLive
<1>2. LoopAwaits'
  <2> SUFFICES ASSUME loop'.pc = "taking"
               PROVE  Awaited(Current', pipe'[Current'], server'[Current'], asked', gone')
    BY DEF LoopAwaits
  <2>1. Current' = Current /\ Current \in Requests /\ Awaited(Current, pipe[Current], server[Current], asked, gone)
    BY DEF IInv, LoopFed, LoopAwaits, Current
  <2> QED BY <2>1
<1>3. SoundStore(history, store)'
  BY DEF SoundStore, Served
<1> QED BY <1>1, <1>2, <1>3 DEF IInv

(* A step that concerns one request id.                                     *)
LEMMA OneStream ==
  ASSUME IInv, NEW r \in Requests, NEW p, NEW s \in {"none", "live", "dirty"},
         pipe' = [pipe EXCEPT ![r] = p], server' = [server EXCEPT ![r] = s],
         UNCHANGED <<history, open, owner, loop, closed, closer, store>>,
         losses' \in 0..MaxLosses, asked' \subseteq asked, gone \subseteq gone', gone' \subseteq gone \cup {r},
         \A q \in Requests : q # r /\ Ask("Subscribe", q) \in asked => Ask("Subscribe", q) \in asked',
         SoundPipe(history, p), SoundRequest(r, p, s, asked', gone'),
         Fresh(r, pipe[r], server[r], asked, gone) => Fresh(r, p, s, asked', gone'),
         Awaited(r, pipe[r], server[r], asked, gone) => Awaited(r, p, s, asked', gone')
  PROVE  IInv'
<1> DEFINE E == Seq(Event)
<1>1. pipe \in [Requests -> E] /\ p \in E /\ server \in [Requests -> {"none", "live", "dirty"}]
  BY DEF IInv, Types, PipesSound, SoundPipe
<1> HIDE DEF E
<1>2. pipe'[r] = p /\ server'[r] = s /\ pipe' \in [Requests -> E]
      /\ \A q \in Requests : q # r => pipe'[q] = pipe[q] /\ server'[q] = server[q]
  BY <1>1
<1>3. \A q \in Requests : q # r => (q \in gone' <=> q \in gone)
                                    /\ (Ask("Subscribe", q) \in asked' <=> Ask("Subscribe", q) \in asked)
  OBVIOUS
<1>4. Types'
  <2>1. server' \in [Requests -> {"none", "live", "dirty"}]
    BY <1>1
  <2> QED BY <2>1 DEF IInv, Types, Version
<1>5. PipesSound'
  <2>1. \A q \in Requests : SoundPipe(history, pipe'[q])
    BY <1>2 DEF IInv, PipesSound
  <2> QED BY <1>2, <2>1 DEF PipesSound, SoundPipe, SoundEvent, Served, E
<1>6. RequestsSound'
  <2> SUFFICES ASSUME NEW q \in Requests
               PROVE  /\ SoundRequest(q, pipe'[q], server'[q], asked', gone')
                      /\ q > Current => Fresh(q, pipe'[q], server'[q], asked', gone')
    BY DEF RequestsSound, Current
  <2>1. SoundRequest(q, pipe[q], server[q], asked, gone)
        /\ (q > Current => Fresh(q, pipe[q], server[q], asked, gone))
    BY DEF IInv, RequestsSound
  <2>2. CASE q = r
    BY <1>2, <2>1, <2>2
  <2>3. CASE q # r
    BY <1>2, <1>3, <2>1, <2>3 DEF SoundRequest, Fresh
  <2> QED BY <2>2, <2>3
<1>7. SoundStore(history', store)
  BY DEF IInv
<1>8. \A q \in Requests : Awaited(q, pipe[q], server[q], asked, gone)
                            => Awaited(q, pipe'[q], server'[q], asked', gone')
  <2> SUFFICES ASSUME NEW q \in Requests, Awaited(q, pipe[q], server[q], asked, gone)
               PROVE  Awaited(q, pipe'[q], server'[q], asked', gone')
    OBVIOUS
  <2>1. CASE q = r
    BY <1>2, <2>1
  <2>2. CASE q # r
    BY <1>2, <1>3, <2>2 DEF Awaited
  <2> QED BY <2>1, <2>2
<1> QED BY <1>4, <1>5, <1>6, <1>7, <1>8, ServerStep

(* What the invariant says of one request id.                               *)
LEMMA RequestIs ==
  ASSUME IInv, NEW r \in Requests
  PROVE  /\ SoundPipe(history, pipe[r]) /\ SoundRequest(r, pipe[r], server[r], asked, gone)
         /\ server[r] \in {"none", "live", "dirty"}
         /\ [server EXCEPT ![r] = server[r]] = server /\ [pipe EXCEPT ![r] = pipe[r]] = pipe
<1> DEFINE E == Seq(Event)
<1>1. pipe \in [Requests -> E] /\ server \in [Requests -> {"none", "live", "dirty"}]
  BY DEF IInv, PipesSound, Types
<1> HIDE DEF E
<1>2. [server EXCEPT ![r] = server[r]] = server /\ [pipe EXCEPT ![r] = pipe[r]] = pipe
  BY <1>1
<1> QED BY <1>1, <1>2 DEF IInv, PipesSound, RequestsSound

(* The two kinds of requests are told apart, and those of two ids.          *)
LEMMA AsksDiffer ==
  \A r, q : /\ Ask("Subscribe", r) # Ask("Unsubscribe", q)
            /\ Ask("Subscribe", r) = Ask("Subscribe", q) => r = q
BY DEF Ask

(* A subscribe is refused while closing, or registered and answered.        *)
LEMMA SubscribeSound ==
  ASSUME IInv, NEW r \in Requests, HandleSubscribe(r)
  PROVE  IInv'
<1>1. SoundPipe(history, pipe[r]) /\ SoundRequest(r, pipe[r], server[r], asked, gone) /\ server[r] = "none"
  BY RequestIs DEF HandleSubscribe, SoundRequest
<1>2. pipe[r] = <<>> \/ r \in gone
  BY <1>1 DEF HandleSubscribe, SoundRequest
<1>3. asked' \subseteq asked /\ Ask("Subscribe", r) \notin asked'
      /\ \A q \in Requests : q # r /\ Ask("Subscribe", q) \in asked => Ask("Subscribe", q) \in asked'
  BY AsksDiffer DEF HandleSubscribe
<1>4. UNCHANGED <<history, open, gone, losses, owner, loop, closed, closer, store>> /\ Ask("Subscribe", r) \in asked
  BY DEF HandleSubscribe
<1>5. losses' \in 0..MaxLosses
  BY <1>4 DEF IInv, Types
<1>6. PipeLimit > 0 /\ (r \notin gone => ~HasEnd(pipe[r]) /\ Len(pipe[r]) < PipeLimit)
  BY <1>2, ClientAssumption, EmptyPipe
<1>7. CASE open
  <2> DEFINE p == Sent(r, Snapshot)
  <2>1. pipe' = [pipe EXCEPT ![r] = p] /\ server' = [server EXCEPT ![r] = "live"]
    BY <1>7 DEF HandleSubscribe
  <2>2. SoundPipe(history, p) /\ (r \in gone => p = pipe[r]) /\ (r \notin gone => ~HasEnd(p))
    <3>1. Snapshot \in Event /\ SoundEvent(history, Snapshot) /\ Snapshot.type \notin Terminals
      BY EventsSent DEF Terminals
    <3> QED BY <1>1, <1>6, <3>1, SentSound
  <2> HIDE DEF p
  <2>3. SoundRequest(r, p, "live", asked', gone')
    BY <1>3, <1>4, <2>2 DEF SoundRequest
  <2>4. /\ Fresh(r, pipe[r], server[r], asked, gone) => Fresh(r, p, "live", asked', gone')
        /\ Awaited(r, pipe[r], server[r], asked, gone) => Awaited(r, p, "live", asked', gone')
    BY <1>4, <2>2 DEF Fresh, Awaited
  <2> QED BY <1>3, <1>4, <1>5, <2>1, <2>2, <2>3, <2>4, OneStream
<1>8. CASE ~open
  <2> DEFINE p == Sent(r, Terminal("ServerShutdown"))
  <2>1. pipe' = [pipe EXCEPT ![r] = p] /\ server' = [server EXCEPT ![r] = "none"]
    BY <1>1, <1>8, RequestIs DEF HandleSubscribe
  <2>2. SoundPipe(history, p) /\ (r \in gone => p = pipe[r]) /\ (r \notin gone => HasEnd(p))
    <3> DEFINE e == Terminal("ServerShutdown")
    <3>1. e \in Event /\ SoundEvent(history, e) /\ e.type \in Terminals
      BY EventsSent DEF Terminals
    <3> HIDE DEF e
    <3>2. SoundPipe(history, Sent(r, e)) /\ (r \in gone => Sent(r, e) = pipe[r]) /\ (r \notin gone => HasEnd(Sent(r, e)))
      BY <1>1, <1>6, <3>1, SentSound
    <3> QED BY <3>2 DEF e
  <2> HIDE DEF p
  <2>3. SoundRequest(r, p, "none", asked', gone')
    BY <1>3 DEF SoundRequest
  <2>4. /\ Fresh(r, pipe[r], server[r], asked, gone) => Fresh(r, p, "none", asked', gone')
        /\ Awaited(r, pipe[r], server[r], asked, gone) => Awaited(r, p, "none", asked', gone')
    BY <1>4, <2>2 DEF Fresh, Awaited
  <2> QED BY <1>3, <1>4, <1>5, <2>1, <2>2, <2>3, <2>4, OneStream
<1> QED BY <1>7, <1>8

(* A stream that is unsubscribed ends.                                      *)
LEMMA UnsubscribeSound ==
  ASSUME IInv, NEW r \in Requests, HandleUnsubscribe(r)
  PROVE  IInv'
<1> DEFINE p == IF server[r] = "none" THEN pipe[r] ELSE Sent(r, Terminal("TransportError"))
<1>1. SoundPipe(history, pipe[r]) /\ SoundRequest(r, pipe[r], server[r], asked, gone)
  BY RequestIs
<1>2. asked' \subseteq asked /\ \A q \in Requests : Ask("Subscribe", q) \in asked => Ask("Subscribe", q) \in asked'
  BY AsksDiffer DEF HandleUnsubscribe
<1>3. /\ UNCHANGED <<history, open, gone, losses, owner, loop, closed, closer, store>>
      /\ server' = [server EXCEPT ![r] = "none"] /\ losses' \in 0..MaxLosses
  BY DEF HandleUnsubscribe, IInv, Types
<1>4. pipe' = [pipe EXCEPT ![r] = p]
  BY RequestIs DEF HandleUnsubscribe
<1>5. /\ SoundPipe(history, p) /\ (r \in gone => p = pipe[r])
      /\ server[r] = "none" => p = pipe[r]
      /\ r \notin gone /\ server[r] # "none" => HasEnd(p)
  <2>1. CASE server[r] = "none"
    BY <1>1, <2>1
  <2>2. CASE server[r] # "none"
    <3> DEFINE e == Terminal("TransportError")
    <3>1. e \in Event /\ SoundEvent(history, e) /\ e.type \in Terminals
      BY EventsSent DEF Terminals
    <3>2. r \notin gone => ~HasEnd(pipe[r])
      BY <1>1, <2>2 DEF SoundRequest
    <3> HIDE DEF e
    <3>3. SoundPipe(history, Sent(r, e)) /\ (r \in gone => Sent(r, e) = pipe[r]) /\ (r \notin gone => HasEnd(Sent(r, e)))
      BY <1>1, <3>1, <3>2, SentSound
    <3> QED BY <2>2, <3>3 DEF e
  <2> QED BY <2>1, <2>2
<1> HIDE DEF p
<1>6. SoundRequest(r, p, "none", asked', gone')
  BY <1>1, <1>2, <1>3, <1>5 DEF SoundRequest
<1>7. /\ Fresh(r, pipe[r], server[r], asked, gone) => Fresh(r, p, "none", asked', gone')
      /\ Awaited(r, pipe[r], server[r], asked, gone) => Awaited(r, p, "none", asked', gone')
  BY <1>1, <1>2, <1>3, <1>5 DEF Fresh, Awaited, SoundRequest
<1> QED BY <1>1, <1>2, <1>3, <1>4, <1>5, <1>6, <1>7, OneStream

(* A subscription that is marked stale gets a status.                       *)
LEMMA MarkStaleSound ==
  ASSUME IInv, NEW r \in Requests, MarkStale(r)
  PROVE  IInv'
<1> DEFINE p == Sent(r, Status)
<1>1. SoundPipe(history, pipe[r]) /\ SoundRequest(r, pipe[r], server[r], asked, gone) /\ server[r] = "live"
  BY RequestIs DEF MarkStale
<1>2. /\ UNCHANGED <<history, open, asked, gone, losses, owner, loop, closed, closer, store>>
      /\ server' = [server EXCEPT ![r] = "dirty"] /\ losses' \in 0..MaxLosses
      /\ pipe' = [pipe EXCEPT ![r] = p]
  BY DEF MarkStale, IInv, Types
<1>3. r \notin gone => ~HasEnd(pipe[r]) /\ Len(pipe[r]) < PipeLimit
  BY <1>1, ClientAssumption DEF MarkStale, Full, SoundRequest, SoundPipe
<1>4. SoundPipe(history, p) /\ (r \in gone => p = pipe[r]) /\ (r \notin gone => ~HasEnd(p))
  <2>1. Status \in Event /\ SoundEvent(history, Status) /\ Status.type \notin Terminals
    BY EventsSent DEF Terminals
  <2> QED BY <1>1, <1>3, <2>1, SentSound
<1> HIDE DEF p
<1>5. SoundRequest(r, p, "dirty", asked', gone')
  BY <1>1, <1>2, <1>4 DEF SoundRequest
<1>6. /\ Fresh(r, pipe[r], server[r], asked, gone) => Fresh(r, p, "dirty", asked', gone')
      /\ Awaited(r, pipe[r], server[r], asked, gone) => Awaited(r, p, "dirty", asked', gone')
  BY <1>1, <1>2, <1>4 DEF Fresh, Awaited
<1> QED BY <1>2, <1>4, <1>5, <1>6, OneStream

(* A refresh sends a snapshot, or ends a stream that is full.               *)
LEMMA RefreshSound ==
  ASSUME IInv, NEW r \in Requests, Refresh(r)
  PROVE  IInv'
<1> DEFINE e == IF Full(r) THEN Terminal("BackpressureExceeded") ELSE Snapshot
           p == Sent(r, e)
           s == IF Full(r) THEN "none" ELSE "live"
<1>1. SoundPipe(history, pipe[r]) /\ SoundRequest(r, pipe[r], server[r], asked, gone) /\ server[r] = "dirty"
  BY RequestIs DEF Refresh
<1>2. /\ UNCHANGED <<history, open, asked, gone, losses, owner, loop, closed, closer, store>>
      /\ server' = [server EXCEPT ![r] = s] /\ losses' \in 0..MaxLosses
      /\ pipe' = [pipe EXCEPT ![r] = p]
  BY DEF Refresh, IInv, Types
<1>3. e \in Event /\ SoundEvent(history, e) /\ (e.type \in Terminals <=> Full(r))
  BY EventsSent DEF Terminals
<1>4. /\ r \notin gone => ~HasEnd(pipe[r])
      /\ r \notin gone => Len(pipe[r]) < PipeLimit \/ e.type \in Terminals
      /\ Full(r) => r \notin gone
  BY <1>1, <1>3, ClientAssumption DEF Full, SoundRequest, SoundPipe
<1> HIDE DEF e
<1>5. SoundPipe(history, p) /\ (r \in gone => p = pipe[r]) /\ (r \notin gone => (HasEnd(p) <=> Full(r)))
  BY <1>1, <1>3, <1>4, SentSound
<1> HIDE DEF p
<1>6. SoundRequest(r, p, s, asked', gone')
  BY <1>1, <1>2, <1>5 DEF SoundRequest
<1>7. /\ Fresh(r, pipe[r], server[r], asked, gone) => Fresh(r, p, s, asked', gone')
      /\ Awaited(r, pipe[r], server[r], asked, gone) => Awaited(r, p, s, asked', gone')
  BY <1>1, <1>2, <1>4, <1>5 DEF Fresh, Awaited
<1>8. s \in {"none", "live", "dirty"}
  OBVIOUS
<1> HIDE DEF s
<1> QED BY <1>2, <1>5, <1>6, <1>7, <1>8, OneStream

(* The server notices that nobody reads a stream.                           *)
LEMMA NoticeGoneSound ==
  ASSUME IInv, NEW r \in Requests, NoticeGone(r)
  PROVE  IInv'
<1> DEFINE p == pipe[r]
<1>1. SoundPipe(history, p) /\ SoundRequest(r, p, server[r], asked, gone) /\ pipe' = [pipe EXCEPT ![r] = p]
  BY RequestIs DEF NoticeGone
<1>2. /\ UNCHANGED <<history, open, asked, gone, losses, owner, loop, closed, closer, store>>
      /\ server' = [server EXCEPT ![r] = "none"] /\ losses' \in 0..MaxLosses /\ r \in gone
  BY DEF NoticeGone, IInv, Types
<1> HIDE DEF p
<1>3. SoundRequest(r, p, "none", asked', gone')
  BY <1>1, <1>2 DEF SoundRequest
<1>4. /\ Fresh(r, p, server[r], asked, gone) => Fresh(r, p, "none", asked', gone')
      /\ Awaited(r, p, server[r], asked, gone) => Awaited(r, p, "none", asked', gone')
  BY <1>1, <1>2 DEF Fresh, Awaited
<1> QED BY <1>1, <1>2, <1>3, <1>4, OneStream DEF p

(* A connection is lost, with what was on its way or without it.            *)
LEMMA LoseSound ==
  ASSUME IInv, NEW r \in Requests, Lose(r)
  PROVE  IInv'
<1>1. SoundPipe(history, pipe[r]) /\ SoundRequest(r, pipe[r], server[r], asked, gone)
      /\ [server EXCEPT ![r] = server[r]] = server /\ server[r] \in {"none", "live", "dirty"}
  BY RequestIs
<1>2. PICK kept \in 0..Len(pipe[r]), arrives \in BOOLEAN :
        /\ pipe' = [pipe EXCEPT ![r] = Append(SubSeq(@, 1, kept), Terminal("TransportError"))]
        /\ asked' = IF arrives THEN asked ELSE asked \ {Ask("Subscribe", r)}
  BY Zenon DEF Lose
<1> DEFINE e == Terminal("TransportError")
           p == Append(SubSeq(pipe[r], 1, kept), e)
<1>3. ~HasEnd(pipe[r])
  BY <1>1 DEF Lose, Ended, HasEnd, SoundPipe, Last
<1>4. e \in Event /\ e.type \in Terminals
  BY EventsSent DEF Terminals
<1>5. pipe' = [pipe EXCEPT ![r] = p]
  <2> DEFINE E == Seq(Event)
  <2>1. pipe \in [Requests -> E]
    BY DEF IInv, PipesSound
  <2> HIDE DEF E
  <2> QED BY <1>2, <2>1
<1> HIDE DEF e
<1>6. SoundPipe(history, p) /\ HasEnd(p)
  BY <1>1, <1>3, <1>4, PipeCut
<1> HIDE DEF p
<1>7. asked' \subseteq asked /\ \A q \in Requests : q # r /\ Ask("Subscribe", q) \in asked => Ask("Subscribe", q) \in asked'
  BY <1>2, AsksDiffer
<1>8. /\ UNCHANGED <<history, open, server, owner, loop, closed, closer, store>>
      /\ gone' = gone \cup {r} /\ losses' = losses + 1 /\ losses < MaxLosses
      /\ Ask("Subscribe", r) \in asked \/ server[r] # "none"
  BY DEF Lose
<1>9. losses' \in 0..MaxLosses
  BY <1>8, ClientAssumption DEF IInv, Types
<1>10. SoundRequest(r, p, server[r], asked', gone')
  BY <1>1, <1>7, <1>8 DEF SoundRequest
<1>11. /\ Fresh(r, pipe[r], server[r], asked, gone) => Fresh(r, p, server[r], asked', gone')
       /\ Awaited(r, pipe[r], server[r], asked, gone) => Awaited(r, p, server[r], asked', gone')
  BY <1>6, <1>8 DEF Fresh, Awaited
<1>12. server' = [server EXCEPT ![r] = server[r]]
  BY <1>1, <1>8
<1> DEFINE s == server[r]
<1>13. s \in {"none", "live", "dirty"} /\ server' = [server EXCEPT ![r] = s] /\ SoundRequest(r, p, s, asked', gone')
       /\ (Fresh(r, pipe[r], server[r], asked, gone) => Fresh(r, p, s, asked', gone'))
       /\ (Awaited(r, pipe[r], server[r], asked, gone) => Awaited(r, p, s, asked', gone'))
  BY <1>1, <1>10, <1>11, <1>12
<1> HIDE DEF s
<1> QED BY <1>5, <1>6, <1>7, <1>8, <1>9, <1>13, OneStream

(* An unsubscribe is lost.                                                  *)
LEMMA LoseUnsubscribeSound ==
  ASSUME IInv, NEW r \in Requests, LoseUnsubscribe(r)
  PROVE  IInv'
<1> DEFINE p == pipe[r]
           s == server[r]
<1>1. SoundPipe(history, p) /\ SoundRequest(r, p, s, asked, gone) /\ s \in {"none", "live", "dirty"}
      /\ pipe' = [pipe EXCEPT ![r] = p] /\ server' = [server EXCEPT ![r] = s]
  BY RequestIs DEF LoseUnsubscribe
<1>2. /\ UNCHANGED <<history, open, gone, owner, loop, closed, closer, store>>
      /\ losses' = losses + 1 /\ losses < MaxLosses
  BY DEF LoseUnsubscribe
<1>3. losses' \in 0..MaxLosses
  BY <1>2, ClientAssumption DEF IInv, Types
<1>4. asked' \subseteq asked /\ \A q \in Requests : Ask("Subscribe", q) \in asked => Ask("Subscribe", q) \in asked'
  BY AsksDiffer DEF LoseUnsubscribe
<1>5. SoundRequest(r, p, s, asked', gone') /\ (Fresh(r, p, s, asked, gone) => Fresh(r, p, s, asked', gone'))
      /\ (Awaited(r, p, s, asked, gone) => Awaited(r, p, s, asked', gone'))
  BY <1>1, <1>2, <1>4 DEF SoundRequest, Fresh, Awaited
<1>6. p = pipe[r] /\ s = server[r]
  OBVIOUS
<1> HIDE DEF p, s
<1> QED BY <1>1, <1>2, <1>3, <1>4, <1>5, <1>6, OneStream

(* A mutation reaches each stream that is fed, or ends it when it is full.  *)
LEMMA MutateSound ==
  ASSUME IInv, NEW visible \in BOOLEAN, Mutate(visible)
  PROVE  IInv'
<1> DEFINE rows == history[Version + 1] + 1
           x == IF visible THEN rows ELSE history[Version + 1]
           h == Append(history, x)
           Sending(r) == visible /\ r \in Fed
           e(r) == IF Full(r) THEN Terminal("BackpressureExceeded") ELSE Delta(rows)
           p(r) == IF Sending(r) THEN Sent(r, e(r)) ELSE pipe[r]
           s(r) == IF Sending(r) /\ Full(r) THEN "none" ELSE server[r]
<1>1. /\ history \in Seq(Nat) /\ Version \in Nat /\ Version + 1 = Len(history) /\ Version < MaxVersion
      /\ history[Version + 1] \in Nat /\ x \in Nat
  BY ClientAssumption DEF IInv, Types, Version, Mutate
<1>2. /\ h \in Seq(Nat) /\ Len(h) = Version + 2 /\ h[Version + 2] = x /\ DOMAIN h = 1..(Version + 2)
      /\ history' = h
  BY <1>1 DEF Mutate
<1>3. /\ UNCHANGED <<open, asked, gone, losses, owner, loop, closed, closer, store>>
      /\ server' = [r \in Requests |-> s(r)] /\ pipe' = [r \in Requests |-> p(r)]
  BY DEF Mutate
<1>4. ASSUME NEW r \in Requests
      PROVE  /\ SoundPipe(h, p(r)) /\ SoundRequest(r, p(r), s(r), asked, gone)
             /\ Fresh(r, pipe[r], server[r], asked, gone) => Fresh(r, p(r), s(r), asked, gone)
             /\ Awaited(r, pipe[r], server[r], asked, gone) => Awaited(r, p(r), s(r), asked, gone)
             /\ s(r) \in {"none", "live", "dirty"}
  <2>1. /\ SoundPipe(history, pipe[r]) /\ SoundRequest(r, pipe[r], server[r], asked, gone)
        /\ server[r] \in {"none", "live", "dirty"}
    BY RequestIs
  <2>2. SoundPipe(h, pipe[r])
    BY <1>1, <2>1, PipeOutlives
  <2>3. CASE ~Sending(r)
    <3> HIDE DEF Sending
    <3> QED BY <2>1, <2>2, <2>3
  <2>4. CASE Sending(r)
    <3>1. server[r] = "live" /\ x = rows
      BY <2>4 DEF Fed
    <3>2. Delta(rows) \in Event /\ SoundEvent(h, Delta(rows)) /\ Delta(rows).type = "delta"
      <4>1. Delta(rows) \in [type : {"delta"}, rows : Nat, from : Nat, to : Nat]
        BY <1>1, <3>1 DEF Delta
      <4>2. Delta(rows).rows = x /\ Delta(rows).to = Version + 1
        BY <3>1 DEF Delta
      <4> HIDE DEF x, h, rows
      <4>3. SoundEvent(h, Delta(rows))
        BY <1>1, <1>2, <4>2 DEF SoundEvent, Served
      <4> QED BY <4>1, <4>3 DEF Event, Delta
    <3>3. Terminal("BackpressureExceeded") \in Event /\ SoundEvent(h, Terminal("BackpressureExceeded"))
          /\ Terminal("BackpressureExceeded").type = "BackpressureExceeded"
      BY DEF Terminal, Event, SoundEvent, Terminals
    <3> HIDE DEF rows, h, Sending
    <3>4. e(r) \in Event /\ SoundEvent(h, e(r)) /\ (e(r).type \in Terminals <=> Full(r))
      BY <3>2, <3>3 DEF Terminals
    <3>5. /\ r \notin gone => ~HasEnd(pipe[r])
          /\ r \notin gone => Len(pipe[r]) < PipeLimit \/ e(r).type \in Terminals
          /\ Full(r) => r \notin gone
      BY <2>1, <3>1, <3>4, ClientAssumption DEF Full, SoundRequest, SoundPipe
    <3>6. p(r) = Sent(r, e(r)) /\ s(r) = IF Full(r) THEN "none" ELSE "live"
      BY <2>4, <3>1
    <3> HIDE DEF e, p, s
    <3>7. SoundPipe(h, p(r)) /\ (r \in gone => p(r) = pipe[r]) /\ (r \notin gone => (HasEnd(p(r)) <=> Full(r)))
      BY <2>2, <3>4, <3>5, <3>6, SentSound
    <3> QED BY <2>1, <3>1, <3>5, <3>6, <3>7 DEF SoundRequest, Fresh, Awaited
  <2> QED BY <2>3, <2>4
<1> HIDE DEF rows, x, p, s
<1>5. \A r \in Requests : pipe'[r] = p(r) /\ server'[r] = s(r)
  BY <1>3
<1>6. SoundStore(history', store)
  <2>1. SoundStore(history, store) /\ store \in StoreRecord
    BY DEF IInv, Types
  <2> QED BY <1>1, <1>2, <2>1, StoreOutlives
<1> HIDE DEF h
<1>7. Types'
  <2>1. server' \in [Requests -> {"none", "live", "dirty"}]
    BY <1>3, <1>4
  <2>2. Version' = Version + 1 /\ Version + 1 \in 0..MaxVersion
    BY <1>1, <1>2, ClientAssumption DEF Version
  <2> QED BY <1>2, <1>3, <2>1, <2>2 DEF IInv, Types
<1>8. PipesSound'
  <2>1. \A r \in Requests : SoundPipe(h, pipe'[r]) /\ p(r) \in Seq(Event)
    BY <1>4, <1>5 DEF SoundPipe
  <2>2. pipe' \in [Requests -> Seq(Event)]
    BY <1>3, <2>1
  <2> QED BY <1>2, <2>1, <2>2 DEF PipesSound, SoundPipe, SoundEvent, Served
<1>9. RequestsSound'
  BY <1>3, <1>4, <1>5 DEF IInv, RequestsSound, Current
<1>10. \A r \in Requests : Awaited(r, pipe[r], server[r], asked, gone)
                             => Awaited(r, pipe'[r], server'[r], asked', gone')
  BY <1>3, <1>4, <1>5
<1> QED BY <1>3, <1>6, <1>7, <1>8, <1>9, <1>10, ServerStep

(* Shutdown ends every stream.                                              *)
LEMMA ShutdownSound ==
  ASSUME IInv, Shutdown
  PROVE  IInv'
<1> DEFINE e == Terminal("ServerShutdown")
           p(r) == IF server[r] = "none" THEN pipe[r] ELSE Sent(r, e)
<1>1. /\ UNCHANGED <<history, asked, gone, losses, owner, loop, closed, closer, store>> /\ open' = FALSE
      /\ server' = [r \in Requests |-> "none"] /\ pipe' = [r \in Requests |-> p(r)]
  BY DEF Shutdown
<1>2. e \in Event /\ SoundEvent(history, e) /\ e.type \in Terminals
  BY EventsSent DEF Terminals
<1> HIDE DEF e
<1>3. ASSUME NEW r \in Requests
      PROVE  /\ SoundPipe(history, p(r)) /\ SoundRequest(r, p(r), "none", asked, gone)
             /\ Fresh(r, pipe[r], server[r], asked, gone) => Fresh(r, p(r), "none", asked, gone)
             /\ Awaited(r, pipe[r], server[r], asked, gone) => Awaited(r, p(r), "none", asked, gone)
  <2>1. SoundPipe(history, pipe[r]) /\ SoundRequest(r, pipe[r], server[r], asked, gone)
    BY RequestIs
  <2>2. CASE server[r] = "none"
    BY <2>1, <2>2
  <2>3. CASE server[r] # "none"
    <3>1. r \notin gone => ~HasEnd(pipe[r])
      BY <2>1, <2>3 DEF SoundRequest
    <3>2. SoundPipe(history, Sent(r, e)) /\ (r \in gone => Sent(r, e) = pipe[r])
          /\ (r \notin gone => HasEnd(Sent(r, e)))
      BY <1>2, <2>1, <3>1, SentSound
    <3>3. p(r) = Sent(r, e)
      BY <2>3
    <3> HIDE DEF p
    <3> QED BY <2>1, <2>3, <3>2, <3>3 DEF SoundRequest, Fresh, Awaited
  <2> QED BY <2>2, <2>3
<1> HIDE DEF p
<1>4. \A r \in Requests : pipe'[r] = p(r) /\ server'[r] = "none"
  BY <1>1
<1>5. SoundStore(history', store)
  BY <1>1 DEF IInv
<1>6. Types'
  <2>1. server' \in [Requests -> {"none", "live", "dirty"}]
    BY <1>1
  <2> QED BY <1>1, <2>1 DEF IInv, Types, Version
<1>7. PipesSound'
  <2>1. \A r \in Requests : SoundPipe(history, pipe'[r]) /\ p(r) \in Seq(Event)
    BY <1>3, <1>4 DEF SoundPipe
  <2>2. pipe' \in [Requests -> Seq(Event)]
    BY <1>1, <2>1
  <2> QED BY <1>1, <2>1, <2>2 DEF PipesSound, SoundPipe, SoundEvent, Served
<1>8. RequestsSound'
  BY <1>1, <1>3, <1>4 DEF IInv, RequestsSound, Current
<1>9. \A r \in Requests : Awaited(r, pipe[r], server[r], asked, gone)
                            => Awaited(r, pipe'[r], server'[r], asked', gone')
  BY <1>1, <1>3, <1>4
<1> QED BY <1>1, <1>5, <1>6, <1>7, <1>8, <1>9, ServerStep

-----------------------------------------------------------------------------
(* Steps of the client.                                                     *)

(* A step that takes no event and makes no attempt.                         *)
LEMMA ClientStep ==
  ASSUME IInv, UNCHANGED <<serverVars, pipe>>, owner' = owner,
         loop' \in LoopRecord, loop'.attempt <= loop'.request, loop'.request = loop.request,
         closed' \in BOOLEAN, closer' \in {"none", "unsubscribing", "done"},
         asked' \subseteq [type : {"Subscribe", "Unsubscribe"}, request : Requests],
         \A r : Ask("Subscribe", r) \in asked' <=> Ask("Subscribe", r) \in asked,
         store' \in StoreRecord, SoundStore(history, store'),
         loop'.pc \in {"taking", "unsubscribing"} => loop.pc = loop'.pc,
         LiveWhileTaking'
  PROVE  IInv'
<1>1. UNCHANGED <<history, open, server, gone, losses, pipe>>
  BY DEF serverVars
<1>2. Types'
  BY <1>1 DEF IInv, Types, Version
<1>3. PipesSound'
  BY <1>1 DEF IInv, PipesSound, SoundPipe, SoundEvent, Served
<1>4. RequestsSound'
  BY <1>1 DEF IInv, RequestsSound, Current, SoundRequest, Fresh
<1>5. LoopFed' /\ LoopAwaits'
  BY <1>1 DEF IInv, LoopFed, LoopAwaits, Current, Awaited
<1>6. SoundStore(history, store)'
  BY <1>1 DEF SoundStore, Served
<1> QED BY <1>2, <1>3, <1>4, <1>5, <1>6 DEF IInv

(* What a store that shows no live rows satisfies.                          *)
LEMMA DimmedLive ==
  ASSUME Dimmed(store, store')
  PROVE  LiveWhileTaking'
BY DEF Dimmed, LiveWhileTaking, ShownLive

(* A loop that goes on to another place.                                    *)
LEMMA LoopMoves ==
  ASSUME IInv, NEW pc \in PCs
  PROVE  /\ [loop EXCEPT !.pc = pc] \in LoopRecord
         /\ [loop EXCEPT !.pc = pc].pc = pc
         /\ [loop EXCEPT !.pc = pc].request = loop.request
         /\ [loop EXCEPT !.pc = pc].attempt = loop.attempt
BY DEF IInv, Types, LoopRecord

(* Mounting starts a loop; nothing is shown as live before it took an event. *)
LEMMA MountSound ==
  ASSUME IInv, Mount
  PROVE  IInv'
<1> DEFINE old == IF owner = "store" THEN NewStore(FALSE, 0) ELSE store
<1>1. old \in StoreRecord /\ SoundStore(history, old)
  BY NewStoreIs DEF IInv, Types, SoundStore
<1>2. store' = SetStatus(old, "syncing")
  BY DEF Mount
<1> HIDE DEF old
<1>3. Dimmed(old, store')
  BY <1>1, <1>2, SetStatusDims
<1>4. store' \in StoreRecord /\ SoundStore(history, store')
  BY <1>1, <1>3, DimmedSound DEF Dimmed
<1>5. LiveWhileTaking'
  BY <1>3 DEF Dimmed, LiveWhileTaking, ShownLive
<1>6. /\ UNCHANGED <<serverVars, pipe>> /\ owner' = owner /\ asked' = asked
      /\ closed' \in BOOLEAN /\ closer' \in {"none", "unsubscribing", "done"}
  BY DEF Mount
<1>7. asked' \subseteq [type : {"Subscribe", "Unsubscribe"}, request : Requests]
  BY <1>6 DEF IInv, Types
<1>8. loop' \in LoopRecord /\ loop'.pc = "attempting" /\ loop'.request = loop.request /\ loop'.attempt = 0
      /\ loop'.request \in Nat
  <2>1. loop \in LoopRecord /\ loop' = [loop EXCEPT !.pc = "attempting", !.attempt = 0]
    BY DEF IInv, Types, Mount
  <2>2. "attempting" \in PCs /\ 0 \in 0..MaxRequests /\ loop.request \in Nat
    BY <2>1, ClientAssumption DEF PCs, LoopRecord
  <2> QED BY <2>1, <2>2 DEF LoopRecord
<1> QED BY <1>4, <1>5, <1>6, <1>7, <1>8, ClientStep

(* A provider without a client says so.                                     *)
LEMMA MountUnconnectedSound ==
  ASSUME IInv, MountUnconnected
  PROVE  IInv'
<1>1. store \in StoreRecord /\ SoundStore(history, store)
  BY DEF IInv, Types
<1>2. Dimmed(store, store')
  BY <1>1, SetStatusDims, SetErrorDims DEF MountUnconnected
<1>3. store' \in StoreRecord /\ SoundStore(history, store')
  BY <1>1, <1>2, DimmedSound DEF Dimmed
<1>4. UNCHANGED <<serverVars, pipe>> /\ owner' = owner /\ asked' = asked /\ closed' = closed /\ closer' = closer
  BY DEF MountUnconnected
<1>5. /\ asked' \subseteq [type : {"Subscribe", "Unsubscribe"}, request : Requests]
      /\ closed' \in BOOLEAN /\ closer' \in {"none", "unsubscribing", "done"} /\ loop.attempt <= loop.request
  BY <1>4 DEF IInv, Types
<1>6. loop' \in LoopRecord /\ loop'.pc = "unconnected" /\ loop'.request = loop.request /\ loop'.attempt = loop.attempt
  BY LoopMoves DEF MountUnconnected, PCs
<1> QED BY <1>2, <1>3, <1>4, <1>5, <1>6, DimmedLive, ClientStep

(* The loop ends, has its answer, wakes up: the store stays as it is.       *)
LEMMA LoopGoesOnSound ==
  ASSUME IInv, StopAttempting \/ Unsubscribed \/ Wake
  PROVE  IInv'
<1>1. /\ UNCHANGED <<serverVars, pipe>> /\ owner' = owner /\ asked' = asked /\ closed' = closed /\ closer' = closer
      /\ store' = store
  BY DEF StopAttempting, Unsubscribed, Wake
<1>2. /\ asked' \subseteq [type : {"Subscribe", "Unsubscribe"}, request : Requests]
      /\ closed' \in BOOLEAN /\ closer' \in {"none", "unsubscribing", "done"} /\ loop.attempt <= loop.request
      /\ store' \in StoreRecord /\ SoundStore(history, store')
  BY <1>1 DEF IInv, Types
<1>3. PICK pc \in {"ended", "sleeping", "attempting"} :
        loop' = [loop EXCEPT !.pc = pc] /\ (pc # "ended" => loop.pc \in {"unsubscribing", "sleeping"})
  BY DEF StopAttempting, Unsubscribed, Wake
<1>4. pc \in PCs
  BY DEF PCs
<1>5. loop' \in LoopRecord /\ loop'.pc = pc /\ loop'.request = loop.request /\ loop'.attempt = loop.attempt
  BY <1>3, <1>4, LoopMoves
<1>6. LiveWhileTaking'
  BY <1>1, <1>3, <1>5 DEF IInv, LiveWhileTaking, ShownLive
<1> QED BY <1>1, <1>2, <1>3, <1>5, <1>6, ClientStep

(* Closing asks for the end of the stream.                                  *)
LEMMA CloseSound ==
  ASSUME IInv, Close
  PROVE  IInv'
<1>1. /\ UNCHANGED <<serverVars, pipe>> /\ owner' = owner /\ loop' = loop /\ store' = store
      /\ closed' = TRUE /\ closer' = "unsubscribing"
      /\ asked' = IF Current = 0 THEN asked ELSE asked \cup {Ask("Unsubscribe", Current)}
  BY DEF Close
<1>2. loop \in LoopRecord /\ loop.attempt <= loop.request /\ store' \in StoreRecord /\ SoundStore(history, store')
  BY <1>1 DEF IInv, Types
<1>3. asked' \subseteq [type : {"Subscribe", "Unsubscribe"}, request : Requests]
  BY <1>1, <1>2, ClientAssumption DEF IInv, Types, LoopRecord, Current, Requests, Ask
<1>4. \A r : Ask("Subscribe", r) \in asked' <=> Ask("Subscribe", r) \in asked
  BY <1>1, AsksDiffer
<1>5. LiveWhileTaking'
  BY <1>1 DEF IInv, LiveWhileTaking, ShownLive
<1> QED BY <1>1, <1>2, <1>3, <1>4, <1>5, ClientStep

(* The answer ends the loop.                                                *)
LEMMA CloseAnsweredSound ==
  ASSUME IInv, CloseAnswered
  PROVE  IInv'
<1>1. /\ UNCHANGED <<serverVars, pipe>> /\ owner' = owner /\ asked' = asked /\ store' = store
      /\ closed' = closed /\ closer' = "done" /\ loop' = [loop EXCEPT !.pc = "ended"]
  BY DEF CloseAnswered
<1>2. /\ asked' \subseteq [type : {"Subscribe", "Unsubscribe"}, request : Requests]
      /\ closed' \in BOOLEAN /\ loop.attempt <= loop.request
      /\ store' \in StoreRecord /\ SoundStore(history, store')
  BY <1>1 DEF IInv, Types
<1>3. loop' \in LoopRecord /\ loop'.pc = "ended" /\ loop'.request = loop.request /\ loop'.attempt = loop.attempt
  BY <1>1, LoopMoves DEF PCs
<1>4. LiveWhileTaking'
  BY <1>3 DEF LiveWhileTaking
<1> QED BY <1>1, <1>2, <1>3, <1>4, ClientStep

(* A fresh request id is asked for, which nothing was sent for yet.         *)
LEMMA AttemptSound ==
  ASSUME IInv, Attempt
  PROVE  IInv'
<1> DEFINE r == loop.request + 1
           n == loop.attempt + 1
<1>1. /\ UNCHANGED <<history, open, server, gone, losses, pipe, owner, closed, closer>>
      /\ loop' = [pc |-> "taking", request |-> r, attempt |-> n]
      /\ asked' = asked \cup {Ask("Subscribe", r)} /\ store' = BeginAttempt(store, n)
      /\ loop.request < MaxRequests
  BY DEF Attempt, serverVars
<1>2. loop.request \in Nat /\ loop.attempt \in Nat /\ loop.attempt <= loop.request
  BY DEF IInv, Types, LoopRecord
<1>3. r \in Requests /\ r > Current /\ n \in Nat /\ n <= r /\ loop' \in LoopRecord
      /\ loop'.pc = "taking" /\ Current' = r /\ loop'.request = r /\ loop'.attempt = n
  BY <1>1, <1>2, ClientAssumption DEF Requests, Current, LoopRecord, PCs
<1> HIDE DEF r, n
<1>4. store \in StoreRecord /\ SoundStore(history, store)
  BY DEF IInv, Types
<1>5. Dimmed(store, store')
  BY <1>1, <1>3, <1>4, BeginAttemptDims
<1>6. store' \in StoreRecord /\ SoundStore(history, store') /\ LiveWhileTaking'
  BY <1>4, <1>5, DimmedSound, DimmedLive DEF Dimmed
<1>7. Fresh(r, pipe[r], server[r], asked, gone)
  BY <1>3 DEF IInv, RequestsSound
<1>8. \A q \in Requests : q # r => (Ask("Subscribe", q) \in asked' <=> Ask("Subscribe", q) \in asked)
  BY <1>1, AsksDiffer
<1>9. Types'
  <2>1. asked' \subseteq [type : {"Subscribe", "Unsubscribe"}, request : Requests]
    BY <1>1, <1>3 DEF IInv, Types, Ask
  <2> QED BY <1>1, <1>3, <1>6, <2>1 DEF IInv, Types, Version
<1>10. PipesSound'
  BY <1>1 DEF IInv, PipesSound, SoundPipe, SoundEvent, Served
<1>11. RequestsSound'
  <2> SUFFICES ASSUME NEW q \in Requests
               PROVE  /\ SoundRequest(q, pipe[q], server[q], asked', gone)
                      /\ q > r => Fresh(q, pipe[q], server[q], asked', gone)
    BY <1>1, <1>3 DEF RequestsSound
  <2>1. SoundRequest(q, pipe[q], server[q], asked, gone)
        /\ (q > Current => Fresh(q, pipe[q], server[q], asked, gone))
    BY DEF IInv, RequestsSound
  <2>2. CASE q = r
    BY <1>3, <1>7, <2>1, <2>2 DEF SoundRequest, Fresh, Requests
  <2>3. CASE q # r
    <3>1. q > r => q > Current
      BY <1>2, <1>3 DEF Requests, Current
    <3> QED BY <1>8, <2>1, <2>3, <3>1 DEF SoundRequest, Fresh
  <2> QED BY <2>2, <2>3
<1>12. LoopFed' /\ LoopAwaits'
  BY <1>1, <1>3, <1>7 DEF LoopFed, LoopAwaits, Awaited, Fresh
<1>13. SoundStore(history, store)'
  BY <1>1, <1>6 DEF SoundStore, Served
<1> QED BY <1>6, <1>9, <1>10, <1>11, <1>12, <1>13 DEF IInv

(* The loop takes the oldest event of its request, or its end.              *)
LEMMA TakeStep ==
  ASSUME IInv, loop.pc = "taking", pipe[Current] # <<>>, pipe' = [pipe EXCEPT ![Current] = Tail(@)],
         UNCHANGED <<serverVars, owner, closed, closer>>,
         NEW pc \in PCs, loop' = [loop EXCEPT !.pc = pc], pc = "taking" => Head1.type \notin Terminals,
         asked' \subseteq [type : {"Subscribe", "Unsubscribe"}, request : Requests],
         \A r : Ask("Subscribe", r) \in asked' <=> Ask("Subscribe", r) \in asked,
         store' \in StoreRecord, SoundStore(history, store'), LiveWhileTaking'
  PROVE  IInv'
<1> DEFINE c == Current
           p == Tail(pipe[c])
           E == Seq(Event)
<1>1. UNCHANGED <<history, open, server, gone, losses>>
  BY DEF serverVars
<1>2. loop' \in LoopRecord /\ loop'.pc = pc /\ loop'.request = loop.request /\ loop'.attempt = loop.attempt
      /\ Current' = c /\ c \in Requests
  BY LoopMoves DEF Current, IInv, LoopFed
<1>3. SoundPipe(history, pipe[c]) /\ SoundRequest(c, pipe[c], server[c], asked, gone) /\ pipe[c] # <<>>
  BY <1>2, RequestIs
<1>4. SoundPipe(history, p) /\ (HasEnd(p) <=> HasEnd(pipe[c]) /\ Head(pipe[c]).type \notin Terminals)
  BY <1>3, PipeTaken
<1>5. pipe \in [Requests -> E] /\ p \in E
  BY <1>4 DEF IInv, PipesSound, SoundPipe
<1> HIDE DEF E
<1>6. /\ pipe' \in [Requests -> E] /\ pipe'[c] = p
      /\ \A r \in Requests : r # c => pipe'[r] = pipe[r]
  BY <1>2, <1>5
<1> HIDE DEF p
<1>7. Types'
  BY <1>1, <1>2 DEF IInv, Types, Version
<1>8. PipesSound'
  <2>1. \A r \in Requests : SoundPipe(history, pipe'[r])
    BY <1>4, <1>6, RequestIs
  <2> QED BY <1>1, <1>6, <2>1 DEF PipesSound, SoundPipe, SoundEvent, Served, E
<1>9. RequestsSound'
  <2> SUFFICES ASSUME NEW r \in Requests
               PROVE  /\ SoundRequest(r, pipe'[r], server[r], asked', gone)
                      /\ r > c => Fresh(r, pipe'[r], server[r], asked', gone)
    BY <1>1, <1>2 DEF RequestsSound
  <2>1. SoundRequest(r, pipe[r], server[r], asked, gone)
        /\ (r > c => Fresh(r, pipe[r], server[r], asked, gone))
    BY DEF IInv, RequestsSound
  <2>2. CASE r = c
    <3>1. ~(r > c)
      BY <2>2 DEF Requests
    <3> QED BY <1>3, <1>4, <1>6, <2>2, <3>1 DEF SoundRequest
  <2>3. CASE r # c
    BY <1>6, <2>1, <2>3 DEF SoundRequest, Fresh
  <2> QED BY <2>2, <2>3
<1>10. LoopFed' /\ LoopAwaits'
  <2>1. Awaited(c, pipe[c], server[c], asked, gone)
    BY DEF IInv, LoopAwaits
  <2>2. pc = "taking" => Awaited(c, p, server[c], asked', gone)
    BY <1>4, <2>1 DEF Awaited, Head1
  <2> QED BY <1>1, <1>2, <1>6, <2>2 DEF LoopFed, LoopAwaits
<1>11. SoundStore(history, store)'
  BY <1>1 DEF SoundStore, Served
<1> QED BY <1>7, <1>8, <1>9, <1>10, <1>11 DEF IInv

(* An event reaches the store, or its gap ends the loop.                    *)
LEMMA TakeEventSound ==
  ASSUME IInv, TakeEvent
  PROVE  IInv'
<1>1. /\ loop.pc = "taking" /\ pipe[Current] # <<>> /\ Head1.type \notin Terminals
      /\ pipe' = [pipe EXCEPT ![Current] = Tail(@)]
      /\ UNCHANGED <<serverVars, owner, closed, closer>> /\ asked' = asked
  BY DEF TakeEvent
<1>2. Current \in Requests
  BY <1>1 DEF IInv, LoopFed
<1>3. Head1 \in Event /\ SoundEvent(history, Head1)
  BY <1>1, <1>2, RequestIs, PipeTaken DEF Head1
<1>4. store \in StoreRecord /\ SoundStore(history, store) /\ history \in Seq(Nat)
      /\ asked \subseteq [type : {"Subscribe", "Unsubscribe"}, request : Requests]
  BY DEF IInv, Types
<1>5. PICK pc \in {"died", "ended", "taking"} : loop' = [loop EXCEPT !.pc = pc]
  BY DEF TakeEvent
<1>6. store' \in {store, ApplyEvent(store, Head1)}
  BY DEF TakeEvent
<1>7. store' \in StoreRecord /\ SoundStore(history, store')
  BY <1>1, <1>3, <1>4, <1>6, EventApplied
<1>8. pc \in PCs
  BY DEF PCs
<1>9. LiveWhileTaking'
  BY <1>5, <1>8, LoopMoves DEF LiveWhileTaking
<1> QED BY <1>1, <1>4, <1>5, <1>7, <1>8, <1>9, TakeStep

(* The end of a stream ends the loop, or makes it try again.                *)
LEMMA TakeErrorSound ==
  ASSUME IInv, TakeError
  PROVE  IInv'
<1> DEFINE action == RetryAction(Head1.type)
           retries == ~closed /\ action # "fail"
           pc == IF closed THEN "ended" ELSE IF action = "fail" THEN "failed"
                 ELSE IF action = "resubscribe" THEN "unsubscribing" ELSE "sleeping"
<1>1. /\ loop.pc = "taking" /\ pipe[Current] # <<>>
      /\ pipe' = [pipe EXCEPT ![Current] = Tail(@)]
      /\ UNCHANGED <<serverVars, owner, closed, closer>>
      /\ loop' = [loop EXCEPT !.pc = pc]
      /\ store' = IF retries THEN RetryAttempt(store, loop.attempt) ELSE store
      /\ asked' \in {asked, asked \cup {Ask("Unsubscribe", Current)}}
  BY DEF TakeError
<1>2. Current \in Requests /\ loop.attempt \in Nat /\ store \in StoreRecord /\ SoundStore(history, store)
  BY <1>1 DEF IInv, LoopFed, Types, LoopRecord
<1>3. asked' \subseteq [type : {"Subscribe", "Unsubscribe"}, request : Requests]
      /\ \A r : Ask("Subscribe", r) \in asked' <=> Ask("Subscribe", r) \in asked
  <2>1. asked \subseteq [type : {"Subscribe", "Unsubscribe"}, request : Requests]
    BY DEF IInv, Types
  <2>2. Ask("Unsubscribe", Current) \in [type : {"Subscribe", "Unsubscribe"}, request : Requests]
    BY <1>2 DEF Ask
  <2> QED BY <1>1, <2>1, <2>2, AsksDiffer
<1>4. pc \in PCs /\ pc # "taking" /\ (retries \/ pc \in {"ended", "failed"})
  BY DEF PCs
<1>5. loop'.pc = pc
  BY <1>1, <1>4, LoopMoves
<1> HIDE DEF pc
<1>6. CASE retries
  <2>1. Dimmed(store, store')
    BY <1>1, <1>2, <1>6, RetryAttemptDims
  <2>2. store' \in StoreRecord /\ SoundStore(history, store') /\ LiveWhileTaking'
    BY <1>2, <2>1, DimmedSound, DimmedLive DEF Dimmed
  <2> QED BY <1>1, <1>3, <1>4, <2>2, TakeStep
<1>7. CASE ~retries
  <2>1. store' \in StoreRecord /\ SoundStore(history, store')
    BY <1>1, <1>2, <1>7
  <2>2. LiveWhileTaking'
    BY <1>4, <1>5, <1>7 DEF LiveWhileTaking
  <2> QED BY <1>1, <1>3, <1>4, <2>1, <2>2, TakeStep
<1> QED BY <1>6, <1>7

(* The scope closes and hangs up on every stream of the subscription.       *)
LEMMA CloseScopeSound ==
  ASSUME IInv, CloseScope
  PROVE  IInv'
<1>1. /\ UNCHANGED <<history, open, server, asked, losses, owner, closed, closer>>
      /\ loop' = [loop EXCEPT !.pc = "idle"] /\ gone' = gone \cup 1..Current
      /\ pipe' = [r \in Requests |-> <<>>]
      /\ store' = IF owner = "hook" THEN SetStatus(store, "closed") ELSE store
  BY DEF CloseScope
<1>2. loop' \in LoopRecord /\ loop'.pc = "idle" /\ loop'.request = loop.request /\ loop'.attempt = loop.attempt
  BY <1>1, LoopMoves DEF PCs
<1>3. Current' = Current /\ Current \in 0..MaxRequests
  BY <1>2 DEF Current, IInv, Types, LoopRecord
<1>4. store \in StoreRecord /\ SoundStore(history, store) /\ owner \in {"hook", "store"}
  BY DEF IInv, Types
<1>5. owner = "hook" => Dimmed(store, store')
  BY <1>1, <1>4, SetStatusDims
<1>6. store' \in StoreRecord /\ SoundStore(history, store')
  BY <1>1, <1>4, <1>5, DimmedSound DEF Dimmed
<1>7. LiveWhileTaking'
  BY <1>1, <1>2, <1>4, <1>5, DimmedLive DEF LiveWhileTaking
<1>8. gone' \subseteq Requests
  BY <1>1, <1>3, ClientAssumption DEF IInv, Types, Requests
<1>9. Types'
  BY <1>1, <1>2, <1>6, <1>8 DEF IInv, Types, Version
<1>10. PipesSound'
  <2>1. \A r \in Requests : pipe'[r] = <<>> /\ SoundPipe(history, pipe'[r])
    BY <1>1, EmptyPipe
  <2>2. pipe' \in [Requests -> Seq(Event)]
    BY <1>1
  <2> QED BY <1>1, <2>1, <2>2 DEF PipesSound, SoundPipe, SoundEvent, Served
<1>11. RequestsSound'
  <2> SUFFICES ASSUME NEW r \in Requests
               PROVE  /\ SoundRequest(r, <<>>, server[r], asked, gone')
                      /\ r > Current => Fresh(r, <<>>, server[r], asked, gone')
    BY <1>1, <1>3 DEF RequestsSound
  <2>1. SoundRequest(r, pipe[r], server[r], asked, gone)
        /\ (r > Current => Fresh(r, pipe[r], server[r], asked, gone))
    BY DEF IInv, RequestsSound
  <2>2. r > Current => r \notin 1..Current
    BY <1>3
  <2> QED BY <1>1, <2>1, <2>2, EmptyPipe DEF SoundRequest, Fresh
<1>12. LoopFed' /\ LoopAwaits'
  BY <1>2 DEF LoopFed, LoopAwaits
<1>13. SoundStore(history, store)'
  BY <1>1, <1>6 DEF SoundStore, Served
<1> QED BY <1>7, <1>9, <1>10, <1>11, <1>12, <1>13 DEF IInv

-----------------------------------------------------------------------------
(* The theorems.                                                            *)

(* Nothing was asked and nothing is shown when the model starts.            *)
LEMMA InitSound == Init => IInv
<1> SUFFICES ASSUME Init PROVE IInv
  OBVIOUS
<1>1. history = <<0>> /\ history \in Seq(Nat) /\ Version = 0
  BY DEF Init, Version
<1>2. /\ loop = [pc |-> "idle", request |-> 0, attempt |-> 0] /\ loop \in LoopRecord /\ Current = 0
  BY ClientAssumption DEF Init, LoopRecord, PCs, Current
<1>3. store \in StoreRecord /\ store.version = NoVersion /\ store.result # Success(FALSE)
  BY NewStoreIs DEF Init
<1>4. Types
  <2>1. server \in [Requests -> {"none", "live", "dirty"}] /\ asked = {} /\ gone = {} /\ open = TRUE /\ losses = 0
        /\ owner \in {"hook", "store"} /\ closed = FALSE /\ closer = "none" /\ loop.attempt = 0 /\ loop.request = 0
    BY <1>2 DEF Init
  <2>2. 0 \in 0..MaxVersion /\ 0 \in 0..MaxLosses
    BY ClientAssumption
  <2>3. asked \subseteq [type : {"Subscribe", "Unsubscribe"}, request : Requests] /\ gone \subseteq Requests
    BY <2>1
  <2>4. Version \in 0..MaxVersion /\ losses \in 0..MaxLosses /\ loop.attempt <= loop.request
    BY <1>1, <2>1, <2>2
  <2>5. open \in BOOLEAN /\ closed \in BOOLEAN /\ closer \in {"none", "unsubscribing", "done"}
    BY <2>1, Zenon
  <2> QED BY <1>1, <1>2, <1>3, <2>1, <2>3, <2>4, <2>5, Zenon DEF Types
<1>5. PipesSound
  <2>1. \A r \in Requests : pipe[r] = <<>> /\ SoundPipe(history, pipe[r])
    BY EmptyPipe DEF Init
  <2>2. pipe \in [Requests -> Seq(Event)]
    BY DEF Init
  <2> QED BY <2>1, <2>2 DEF PipesSound
<1>6. RequestsSound
  BY EmptyPipe DEF Init, RequestsSound, SoundRequest, Fresh
<1>7. LoopFed /\ LoopAwaits /\ SoundStore(history, store) /\ LiveWhileTaking
  BY <1>2, <1>3 DEF LoopFed, LoopAwaits, SoundStore, LiveWhileTaking, ShownLive
<1> QED BY <1>4, <1>5, <1>6, <1>7 DEF IInv

(* Every step of the client, the server and the connections keeps the invariant. *)
LEMMA NextSound == IInv /\ [Next]_vars => IInv'
<1> SUFFICES ASSUME IInv, [Next]_vars PROVE IInv'
  OBVIOUS
<1>1. CASE ClientNext
  BY <1>1, MountSound, MountUnconnectedSound, AttemptSound, LoopGoesOnSound, TakeEventSound, TakeErrorSound,
     CloseSound, CloseAnsweredSound, CloseScopeSound DEF ClientNext
<1>2. CASE \E r \in Requests : Serve(r) \/ MarkStale(r) \/ Refresh(r) \/ Lose(r) \/ LoseUnsubscribe(r)
  BY <1>2, SubscribeSound, UnsubscribeSound, NoticeGoneSound, MarkStaleSound, RefreshSound, LoseSound,
     LoseUnsubscribeSound DEF Serve
<1>3. CASE \E visible \in BOOLEAN : Mutate(visible)
  BY <1>3, MutateSound
<1>4. CASE Shutdown
  BY <1>4, ShutdownSound
<1>5. CASE UNCHANGED vars
  <2>1. UNCHANGED <<history, open, server, asked, pipe, gone, losses, owner, loop, closed, closer, store>>
    BY <1>5 DEF vars
  <2>2. Types' /\ PipesSound' /\ RequestsSound'
    BY <2>1 DEF IInv, Types, PipesSound, RequestsSound, Current, Version
  <2>3. LoopFed' /\ LoopAwaits' /\ LiveWhileTaking'
    BY <2>1 DEF IInv, LoopFed, LoopAwaits, LiveWhileTaking, ShownLive, Current
  <2>4. SoundStore(history, store)'
    BY <2>1 DEF IInv
  <2> QED BY <2>2, <2>3, <2>4 DEF IInv
<1> QED BY <1>1, <1>2, <1>3, <1>4, <1>5 DEF Next

(* The invariant holds at every step of a behaviour.                        *)
LEMMA AlwaysSound == Spec => []IInv
BY InitSound, NextSound, PTL DEF Spec

(* What a reader is shown are the rows that the query had at the version    *)
(* the store is at, whatever was lost, retried, resubscribed, closed or     *)
(* mounted again (client/live-query-store.ts apply).                        *)
THEOREM RowsShownWereServed == Spec => []ShowsServedRows
<1>1. IInv => ShowsServedRows
  BY DEF IInv, SoundStore, Served, ShowsServedRows
<1> QED BY <1>1, AlwaysSound, PTL

(* A loop that waits for events is fed: its request is under way, the       *)
(* worker has it, or its end is in the pipe; and live rows are shown only   *)
(* by a loop that takes events or is over (client/create-client.ts).        *)
THEOREM ReadersAreFed == Spec => []ReaderSound
<1>1. ASSUME IInv PROVE TypeOK
  <2>1. \A r \in Requests : Len(pipe[r]) <= PipeLimit + 1
    BY <1>1 DEF IInv, PipesSound, SoundPipe
  <2>2. store.life.status \in {"connecting", "stale", "reconnecting", "live"}
    BY <1>1 DEF IInv, Types, StoreRecord
  <2>3. \A a \in asked : a.type \in {"Subscribe", "Unsubscribe"} /\ a.request \in Requests
    BY <1>1 DEF IInv, Types
  <2> QED BY <1>1, <2>1, <2>2, <2>3 DEF IInv, Types, TypeOK, LoopRecord
<1>2. ASSUME IInv PROVE ReaderIsFed
  BY <1>2 DEF IInv, LoopAwaits, Awaited, ReaderIsFed, HasEnd
<1>3. IInv => ReaderSound
  BY <1>1, <1>2 DEF ReaderSound, IInv
<1> QED BY <1>3, AlwaysSound, PTL
===============================================================================
