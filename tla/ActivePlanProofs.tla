--------------------------- MODULE ActivePlanProofs ---------------------------
(***************************************************************************)
(* That the books of the plan coordinator are exact, that no build is      *)
(* forgotten, and that subscribers are told right, for any requests,       *)
(* queries, build fibers, limits and mutations.                            *)
(***************************************************************************)
EXTENDS ActivePlan, FanoutQueueProofs, FiniteSetTheorems, FunctionTheorems

(* Events up to a version: only deltas have an identity, the version they  *)
(* were made for.                                                          *)
Upto(R, top) ==
  {event \in Events(R) : /\ event.seq <= top /\ event.to <= top
                         /\ event.type # "delta" => event.seq = 0}

(* What a queue keeps to, whatever its rows are: the pending delta is the  *)
(* last event.                                                             *)
Ordered(q, R, top) ==
  /\ q \in [events : Seq(Upto(R, top)), pending : Nat, lag : Nat]
  /\ q.pending # 0 /\ q.events # << >> => IsLast(q.events, q.pending)
  /\ ~DeltaCoalescing => q.pending = 0

(* A queue, and what its reader makes of it. *)
Shows(q, R, top, rows, last) ==
  Ordered(q, R, top) /\ RowsShown(rows, q.events) = last

-----------------------------------------------------------------------------
(* A delta is an event, and applies to the rows it was made from. *)
LEMMA DeltaApplies ==
  ASSUME NEW R, NoRows \in R, NEW top \in Nat, NEW old \in R, NEW new \in R,
         NEW op, op = [base |-> old, rows |-> new],
         NEW event, event = DeltaEvent(top, top + 1, <<op>>)
  PROVE  /\ op \in Operations(R) /\ op.base = old /\ op.rows = new
         /\ event \in Events(R) /\ event.type = "delta" /\ event.seq = top + 1
         /\ event.to = top + 1 /\ event.from = top /\ event.ops = <<op>>
         /\ RowsTaken(old, event) = new
<1>1. op \in Operations(R) /\ op.base = old /\ op.rows = new
  BY DEF Operations
<1>2. /\ event.type = "delta" /\ event.seq = top + 1 /\ event.from = top /\ event.to = top + 1
      /\ event.ops = <<op>> /\ event.rows = NoRows
  BY DEF DeltaEvent
<1>3. event \in Events(R)
  <2> DEFINE Code == Seq(Operations(R))
  <2>1. <<op>> \in Code
    BY <1>1
  <2> HIDE DEF Code
  <2>2. event \in [type : {"delta", "snapshot", "status"}, seq : Nat, from : Nat, to : Nat,
                   ops : Code, rows : R]
    BY <2>1 DEF DeltaEvent
  <2> QED BY <1>2, <2>2 DEF Events, Code
<1>4. RowsTaken(old, event) = new
  <2>0. \A before \in Seq(Operations(R)), o \in Operations(R) :
          ApplyOps(old, before \o <<o>>) = Operated(ApplyOps(old, before), o)
    BY OpsApplied
  <2>1. ApplyOps(old, << >> \o <<op>>) = Operated(ApplyOps(old, << >>), op)
    <3> DEFINE Code == Seq(Operations(R))
               none == << >>
    <3>1. none \in Code
      OBVIOUS
    <3>2. \A before \in Code, o \in Operations(R) :
            ApplyOps(old, before \o <<o>>) = Operated(ApplyOps(old, before), o)
      BY <2>0
    <3> HIDE DEF Code, none
    <3>3. ApplyOps(old, none \o <<op>>) = Operated(ApplyOps(old, none), op)
      BY <1>1, <3>1, <3>2, Zenon
    <3> QED BY <3>3 DEF none
  <2>2. ApplyOps(old, << >>) = old
    BY OpsApplied
  <2>3. << >> \o <<op>> = <<op>>
    BY <1>1
  <2> QED BY <1>1, <1>2, <2>1, <2>2, <2>3 DEF RowsTaken, Operated
<1> QED BY <1>1, <1>2, <1>3, <1>4

(* A sequence of events, all but its last one, and its last one. *)
LEMMA LastSplit ==
  ASSUME NEW E, NEW events \in Seq(E), events # << >>
  PROVE  \E front \in Seq(E), e \in E : events = Append(front, e)
<1> DEFINE N == Len(events)
           front == [i \in 1 .. (N - 1) |-> events[i]]
<1>1. N \in Nat \ {0} /\ \A i \in 1 .. N : events[i] \in E
  OBVIOUS
<1>2. front \in Seq(E) /\ Len(front) = N - 1
  BY <1>1
<1>3. events[N] \in E
  BY <1>1
<1>4. events = Append(front, events[N])
  <2> DEFINE longer == Append(front, events[N])
  <2>1. longer \in Seq(E) /\ Len(longer) = N /\ longer[N] = events[N]
        /\ \A i \in 1 .. (N - 1) : longer[i] = events[i]
    BY <1>1, <1>2, <1>3
  <2> HIDE DEF longer, front
  <2>2. \A i \in 1 .. N : longer[i] = events[i]
    BY <1>1, <2>1
  <2> QED BY <2>1, <2>2 DEF longer
<1> QED BY <1>2, <1>3, <1>4

(* A delta merged into the last event of the queue: the same events before *)
(* it, and the reader gets to the new rows.                                *)
LEMMA MergeShows ==
  ASSUME NEW R, NoRows \in R, NEW top \in Nat, NEW rows \in R, NEW events \in Seq(Events(R)),
         NEW old \in R, NEW new \in R, RowsShown(rows, events) = old,
         NEW op, op = [base |-> old, rows |-> new],
         NEW event, event = DeltaEvent(top, top + 1, <<op>>),
         NEW pending \in Nat, events # << >>, IsLast(events, pending),
         Last(events).type = "delta", Last(events).to <= top,
         NEW merged, merged = MergeInto(events, pending, event)
  PROVE  /\ merged \in Seq(Events(R)) /\ Len(merged) = Len(events) /\ merged # << >>
         /\ RowsShown(rows, merged) = new
         /\ \A i \in 1 .. Len(events) :
              /\ merged[i].seq = events[i].seq /\ merged[i].type = events[i].type
              /\ merged[i].to = events[i].to \/ merged[i].to = top + 1
         /\ IsLast(merged, pending)
<1> DEFINE N == Len(events)
<1>1. PICK front \in Seq(Events(R)), was \in Events(R) : events = Append(front, was)
  BY LastSplit
<1>2. /\ N = Len(front) + 1 /\ Len(front) \in Nat /\ DOMAIN events = 1 .. N
      /\ events[N] = was /\ Last(events) = was
      /\ \A i \in 1 .. (N - 1) : events[i] = front[i]
  BY <1>1 DEF Last
<1>3. /\ op \in Operations(R) /\ op.base = old /\ op.rows = new
      /\ event.to = top + 1 /\ event.ops = <<op>>
  BY DeltaApplies
<1>4. was.seq = pending /\ was.type = "delta" /\ was.to <= top
      /\ \A i \in 1 .. (N - 1) : events[i].seq # pending
  BY <1>2 DEF IsLast
<1>5. was.ops \in Seq(Operations(R)) /\ was.from <= was.to /\ was.from \in Nat /\ was.to \in Nat
      /\ was.seq \in Nat
  BY DEF Events
<1> DEFINE ops == was.ops \o <<op>>
           now == [was EXCEPT !.ops = was.ops \o event.ops, !.to = event.to]
<1>6. ops \in Seq(Operations(R))
  BY <1>3, <1>5
<1>7. now = [was EXCEPT !.ops = ops, !.to = top + 1]
  BY <1>3
<1> HIDE DEF ops
<1>8. /\ now \in Events(R) /\ now.type = "delta" /\ now.ops = ops /\ now.seq = was.seq
      /\ now.to = top + 1
  <2> DEFINE Code == Seq(Operations(R))
             Plain == [type : {"delta", "snapshot", "status"}, seq : Nat, from : Nat, to : Nat,
                       ops : Code, rows : R]
  <2>1. ops \in Code
    BY <1>6
  <2>2. was \in Plain
    BY DEF Events
  <2> HIDE DEF Code, now
  <2>3. was = [type |-> was.type, seq |-> was.seq, from |-> was.from, to |-> was.to,
               ops |-> was.ops, rows |-> was.rows]
    BY <2>2
  <2>4. now = [type |-> was.type, seq |-> was.seq, from |-> was.from, to |-> top + 1,
               ops |-> ops, rows |-> was.rows]
    BY <1>7, <2>3
  <2>5. was.type \in {"delta", "snapshot", "status"} /\ was.seq \in Nat /\ was.from \in Nat
        /\ was.rows \in R
    BY <2>2
  <2>6. /\ now \in Plain /\ now.type = was.type /\ now.to = top + 1 /\ now.ops = ops
        /\ now.seq = was.seq /\ now.from = was.from
    BY <2>1, <2>4, <2>5
  <2>7. now.from <= now.to
    BY <1>4, <1>5, <2>6
  <2> HIDE DEF Plain
  <2>8. now \in Events(R)
    BY <1>4, <2>6, <2>7 DEF Events, Plain, Code
  <2> QED BY <1>4, <2>6, <2>8
<1>9. merged = [i \in 1 .. N |-> IF i = N THEN now ELSE events[i]]
  <2>1. \A i \in 1 .. N : i # N => i \in 1 .. (N - 1)
    <3> HIDE DEF N
    <3> QED BY <1>2
  <2>2. \A i \in 1 .. N : i # N => events[i].seq # pending
    BY <1>4, <2>1
  <2> HIDE DEF N
  <2> QED BY <1>2, <1>4, <2>2 DEF MergeInto
<1> HIDE DEF now, N
<1>10. merged = Append(front, now)
  <2> DEFINE longer == Append(front, now)
  <2>1. longer \in Seq(Events(R)) /\ Len(longer) = N /\ longer[N] = now
        /\ \A i \in 1 .. (N - 1) : longer[i] = front[i]
    BY <1>2, <1>8
  <2> HIDE DEF longer
  <2>2. longer = [i \in 1 .. N |-> longer[i]]
    BY <1>2, <2>1
  <2>3. \A i \in 1 .. N : longer[i] = IF i = N THEN now ELSE events[i]
    <3> SUFFICES ASSUME NEW i \in 1 .. N PROVE longer[i] = IF i = N THEN now ELSE events[i]
      OBVIOUS
    <3>1. CASE i = N
      BY <2>1, <3>1
    <3>2. CASE i # N
      <4>1. i \in 1 .. (N - 1)
        BY <1>2, <3>2
      <4> QED BY <1>2, <2>1, <3>2, <4>1
    <3> QED BY <3>1, <3>2
  <2> QED BY <1>9, <2>2, <2>3 DEF longer
<1>11. RowsShown(rows, merged) = new
  <2> DEFINE before == RowsShown(rows, front)
  <2>1. before \in R
    BY ShownType
  <2>2. RowsShown(rows, merged) = RowsTaken(before, now) /\ old = RowsTaken(before, was)
    BY <1>1, <1>8, <1>10, ShownAppended
  <2> HIDE DEF before
  <2>3. ApplyOps(before, was.ops) = old
    BY <1>4, <2>2 DEF RowsTaken
  <2>4. ApplyOps(before, ops) = Operated(ApplyOps(before, was.ops), op)
    BY <1>3, <1>5, <2>1, OpsApplied DEF ops
  <2> QED BY <1>3, <1>8, <2>2, <2>3, <2>4 DEF RowsTaken, Operated
<1>12. /\ merged \in Seq(Events(R)) /\ Len(merged) = N /\ merged # << >> /\ merged[N] = now
       /\ Last(merged) = now
  <2> DEFINE longer == Append(front, now)
  <2>0. longer \in Seq(Events(R)) /\ Len(longer) = Len(front) + 1 /\ longer[Len(front) + 1] = now
    BY <1>2, <1>8
  <2> HIDE DEF longer
  <2>1. merged \in Seq(Events(R)) /\ Len(merged) = Len(front) + 1 /\ merged[Len(front) + 1] = now
    BY <1>10, <2>0 DEF longer
  <2>2. merged # << >> /\ Len(merged) = N
    BY <1>2, <2>1
  <2> QED BY <1>2, <2>1, <2>2 DEF Last
<1>13. \A i \in 1 .. N :
         /\ merged[i].seq = events[i].seq /\ merged[i].type = events[i].type
         /\ merged[i].to = events[i].to \/ merged[i].to = top + 1
  <2> SUFFICES ASSUME NEW i \in 1 .. N
               PROVE  /\ merged[i].seq = events[i].seq /\ merged[i].type = events[i].type
                      /\ merged[i].to = events[i].to \/ merged[i].to = top + 1
    OBVIOUS
  <2>1. CASE i = N
    BY <1>2, <1>4, <1>8, <1>12, <2>1
  <2>2. CASE i # N
    BY <1>9, <2>2
  <2> QED BY <2>1, <2>2
<1>14. IsLast(merged, pending)
  <2>1. Last(merged).seq = pending
    BY <1>4, <1>8, <1>12
  <2>2. \A i \in 1 .. (N - 1) : i \in 1 .. N
    BY <1>2
  <2>3. \A i \in 1 .. (N - 1) : merged[i].seq # pending
    BY <1>4, <1>13, <2>2
  <2> QED BY <1>12, <2>1, <2>3 DEF IsLast
<1> QED BY <1>11, <1>12, <1>13, <1>14 DEF N

(* Events up to a version are events up to a later one. *)
LEMMA UptoLater ==
  ASSUME NEW R, NEW top \in Nat, NEW later \in Nat, top <= later
  PROVE  Upto(R, top) \subseteq Upto(R, later) /\ Upto(R, top) \subseteq Events(R)
<1> SUFFICES ASSUME NEW event \in Upto(R, top) PROVE event \in Upto(R, later) /\ event \in Events(R)
  OBVIOUS
<1>1. /\ event \in Events(R) /\ event.seq <= top /\ event.to <= top
      /\ event.type # "delta" => event.seq = 0
  BY DEF Upto
<1>2. event.seq \in Nat /\ event.to \in Nat
  BY <1>1 DEF Events
<1>3. event.seq <= later /\ event.to <= later
  BY <1>1, <1>2
<1> QED BY <1>1, <1>3 DEF Upto

(* A sequence over a set is one over every larger set. *)
LEMMA SeqLater ==
  ASSUME NEW E, NEW F, E \subseteq F, NEW s \in Seq(E)
  PROVE  s \in Seq(F)
<1>1. s \in [1 .. Len(s) -> E] /\ Len(s) \in Nat
  OBVIOUS
<1>2. s \in [1 .. Len(s) -> F]
  BY <1>1
<1> QED BY <1>1, <1>2

(* A queue that is in order at a version is in order at every later one. *)
LEMMA OrderedLater ==
  ASSUME NEW R, NEW top \in Nat, NEW later \in Nat, top <= later, NEW q, Ordered(q, R, top)
  PROVE  Ordered(q, R, later) /\ q.events \in Seq(Events(R))
<1>1. Upto(R, top) \subseteq Upto(R, later) /\ Upto(R, top) \subseteq Events(R)
  BY UptoLater
<1>2. q.events \in Seq(Upto(R, top))
  BY DEF Ordered
<1>3. q.events \in Seq(Upto(R, later)) /\ q.events \in Seq(Events(R))
  BY <1>1, <1>2, SeqLater
<1> QED BY <1>3 DEF Ordered

(* What becomes of the queue of a reader that is offered a delta. *)
OfferShows(offer, R, top, rows, stale, new) ==
  offer.offered => /\ Shows(offer.queue, R, top, rows, new)
                   /\ ~StaleShown(stale, offer.queue.events)

(* A delta that is taken brings the reader to the new rows. *)
LEMMA OfferDeltaShows ==
  ASSUME NEW R, NoRows \in R, NEW top \in Nat, NEW rows \in R, NEW stale,
         NEW old \in R, NEW new \in R, NEW q, Shows(q, R, top, rows, old),
         NEW event, DeltaFor(event, top, old, new), NEW offer, offer = OfferDelta(q, event)
  PROVE  OfferShows(offer, R, top + 1, rows, stale, new)
<1> DEFINE op == [base |-> old, rows |-> new]
<1>0. event = DeltaEvent(top, top + 1, <<op>>) /\ op = [base |-> old, rows |-> new]
  BY DEF DeltaFor
<1> HIDE DEF op
<1> DEFINE held == ForgetTaken(q)
           longer == Append(q.events, event)
           merged == MergeInto(q.events, q.pending, event)
           E == Upto(R, top)
           F == Upto(R, top + 1)
<1>1. /\ event.type = "delta" /\ event.seq = top + 1 /\ event.to = top + 1 /\ event.from = top
      /\ event \in Events(R) /\ RowsTaken(old, event) = new
  BY <1>0, DeltaApplies
<1>2. MaxQueueDepth \in Nat /\ DeltaCoalescing \in BOOLEAN
  BY QueueConstants
<1>3. /\ q.events \in Seq(E) /\ q.pending \in Nat /\ q.lag \in Nat
      /\ q.pending # 0 /\ q.events # << >> => IsLast(q.events, q.pending)
      /\ ~DeltaCoalescing => q.pending = 0
      /\ RowsShown(rows, q.events) = old
  BY DEF Shows, Ordered
<1>4. E \subseteq F /\ E \subseteq Events(R)
  BY UptoLater
<1>5. event \in F
  BY <1>1 DEF Upto
<1>6. q.events \in Seq(F) /\ q.events \in Seq(Events(R))
  BY <1>3, <1>4, SeqLater
<1>7. Span(event) = 1
  BY <1>1 DEF Span
<1>8. \A i \in 1 .. Len(q.events) : q.events[i].seq <= top /\ q.events[i].seq \in Nat
  <2> SUFFICES ASSUME NEW i \in 1 .. Len(q.events)
               PROVE  q.events[i].seq <= top /\ q.events[i].seq \in Nat
    OBVIOUS
  <2>1. q.events[i] \in E
    BY <1>3
  <2>2. q.events[i] \in Events(R) /\ q.events[i].seq <= top
    BY <2>1 DEF Upto
  <2> QED BY <2>2 DEF Events
<1>9. held.events = q.events /\ held.pending \in Nat /\ held.lag \in Nat
      /\ (held.pending # 0 => q.events # << >> /\ held = q)
  <2>1. CASE q.events = << >>
    BY <2>1 DEF ForgetTaken, EmptyQueue
  <2>2. CASE q.events # << >>
    BY <1>3, <2>2 DEF ForgetTaken
  <2> QED BY <2>1, <2>2
<1> HIDE DEF E, F, held
<1>10. /\ longer \in Seq(F) /\ Len(longer) = Len(q.events) + 1 /\ longer # << >>
       /\ Last(longer) = event /\ Len(q.events) \in Nat
       /\ \A i \in 1 .. Len(q.events) : longer[i] = q.events[i]
  BY <1>5, <1>6 DEF Last
<1>11. RowsShown(rows, longer) = new
  BY <1>1, <1>3, <1>6, ShownAppended
<1> HIDE DEF longer, merged
<1>12. IsLast(longer, event.seq)
  <2>1. \A i \in 1 .. (Len(longer) - 1) : i \in 1 .. Len(q.events)
    BY <1>10
  <2>2. \A i \in 1 .. (Len(longer) - 1) : longer[i].seq # event.seq
    BY <1>1, <1>8, <1>10, <2>1
  <2> QED BY <1>10, <2>2 DEF IsLast
<1>13. ~StaleShown(stale, longer)
  BY <1>1, <1>10 DEF StaleShown
<1>14. CASE ~DeltaCoalescing
  <2> DEFINE next == [events |-> longer, pending |-> q.pending, lag |-> q.lag]
  <2>1. \/ offer = [offered |-> FALSE, queue |-> q]
        \/ offer = [offered |-> TRUE, queue |-> next]
    BY <1>14 DEF OfferDelta, Refused, Accepted, longer
  <2>2. Ordered(next, R, top + 1)
    BY <1>3, <1>10, <1>14 DEF Ordered, F
  <2>3. Shows(next, R, top + 1, rows, new) /\ ~StaleShown(stale, next.events)
    BY <1>11, <1>13, <2>2 DEF Shows
  <2> HIDE DEF next
  <2> QED BY <2>1, <2>3 DEF OfferShows
<1>15. CASE DeltaCoalescing /\ held.pending = 0
  <2> DEFINE next == [events |-> longer, pending |-> event.seq, lag |-> 1]
  <2>1. \/ offer = [offered |-> FALSE, queue |-> held]
        \/ offer = [offered |-> TRUE, queue |-> next]
    BY <1>7, <1>9, <1>15 DEF OfferDelta, Refused, Accepted, longer, held
  <2>2. Ordered(next, R, top + 1)
    BY <1>1, <1>10, <1>12, <1>15 DEF Ordered, F
  <2>3. Shows(next, R, top + 1, rows, new) /\ ~StaleShown(stale, next.events)
    BY <1>11, <1>13, <2>2 DEF Shows
  <2> HIDE DEF next
  <2> QED BY <2>1, <2>3 DEF OfferShows
<1>16. CASE DeltaCoalescing /\ held.pending # 0
  <2>1. held = q /\ q.events # << >> /\ q.pending # 0 /\ IsLast(q.events, q.pending)
    BY <1>3, <1>9, <1>16
  <2> DEFINE next == [events |-> merged, pending |-> q.pending, lag |-> q.lag + 1]
  <2>2. \/ offer = [offered |-> FALSE, queue |-> q]
        \/ offer = [offered |-> TRUE, queue |-> next]
    BY <1>7, <1>16, <2>1 DEF OfferDelta, Refused, Accepted, merged, held
  <2>3. Last(q.events).type = "delta" /\ Last(q.events).to <= top
    <3>1. Last(q.events) \in E
      BY <1>3, <2>1 DEF Last
    <3>2. Last(q.events).seq = q.pending
      BY <2>1 DEF IsLast
    <3> QED BY <2>1, <3>1, <3>2 DEF E, Upto
  <2>4. /\ merged \in Seq(Events(R)) /\ Len(merged) = Len(q.events) /\ merged # << >>
        /\ RowsShown(rows, merged) = new
        /\ \A i \in 1 .. Len(q.events) :
             /\ merged[i].seq = q.events[i].seq /\ merged[i].type = q.events[i].type
             /\ merged[i].to = q.events[i].to \/ merged[i].to = top + 1
        /\ IsLast(merged, q.pending)
    <3> DEFINE events == q.events
               pending == q.pending
    <3>1. /\ pending \in Nat /\ events # << >> /\ IsLast(events, pending)
          /\ events \in Seq(Events(R)) /\ RowsShown(rows, events) = old
          /\ Last(events).type = "delta" /\ Last(events).to <= top
          /\ merged = MergeInto(events, pending, event)
      BY <1>3, <1>6, <2>1, <2>3 DEF merged
    <3> HIDE DEF events, pending
    <3>2. /\ merged \in Seq(Events(R)) /\ Len(merged) = Len(events) /\ merged # << >>
          /\ RowsShown(rows, merged) = new
          /\ \A i \in 1 .. Len(events) :
               /\ merged[i].seq = events[i].seq /\ merged[i].type = events[i].type
               /\ merged[i].to = events[i].to \/ merged[i].to = top + 1
          /\ IsLast(merged, pending)
      BY <1>0, <3>1, MergeShows
    <3> QED BY <3>2 DEF events, pending
  <2>5. ASSUME NEW i \in 1 .. Len(merged) PROVE merged[i] \in F
    <3> DEFINE m == merged[i]
               e == q.events[i]
    <3>1. /\ e \in Upto(R, top) /\ m \in Events(R) /\ m.seq = e.seq /\ m.type = e.type
          /\ m.to = e.to \/ m.to = top + 1
      BY <1>3, <2>4 DEF E
    <3> HIDE DEF m, e
    <3>2. /\ e.seq \in Nat /\ e.to \in Nat /\ e.seq <= top /\ e.to <= top
          /\ e.type # "delta" => e.seq = 0
      BY <3>1 DEF Upto, Events
    <3>3. m \in F
      BY <3>1, <3>2 DEF Upto, F
    <3> QED BY <3>3 DEF m
  <2>6. merged \in Seq(F)
    BY <2>4, <2>5
  <2>7. ~StaleShown(stale, merged)
    <3>1. Last(merged).type = Last(q.events).type
      BY <1>10, <2>1, <2>4 DEF Last
    <3> QED BY <2>3, <2>4, <3>1 DEF StaleShown
  <2>8. Ordered(next, R, top + 1)
    BY <1>3, <1>16, <2>4, <2>6 DEF Ordered, F
  <2>9. Shows(next, R, top + 1, rows, new) /\ ~StaleShown(stale, next.events)
    BY <2>4, <2>7, <2>8 DEF Shows
  <2> HIDE DEF next
  <2> QED BY <2>2, <2>9 DEF OfferShows
<1> QED BY <1>9, <1>2, <1>14, <1>15, <1>16

(* A status or a snapshot that is taken: the reader is stale, or has the   *)
(* rows of the snapshot.                                                   *)
OfferFullIs(offer, R, top, rows, stale, event, old) ==
  offer.offered =>
    /\ Shows(offer.queue, R, top, rows, IF event.type = "snapshot" THEN event.rows ELSE old)
    /\ StaleShown(stale, offer.queue.events) <=> event.type = "status"

(* An accepted event that is no delta leaves a queue that shows what it *)
(* should.                                                              *)
LEMMA OfferFullShows ==
  ASSUME NEW R, NoRows \in R, NEW top \in Nat, NEW rows \in R, NEW stale,
         NEW old, NEW q, Shows(q, R, top, rows, old),
         NEW event \in Upto(R, top), event.type # "delta",
         NEW offer, offer = OfferFull(q, event)
  PROVE  OfferFullIs(offer, R, top, rows, stale, event, old)
<1> DEFINE E == Upto(R, top)
<1>1. q.events \in Seq(E) /\ E \in SUBSET Events(R) /\ event \in E
      /\ RowsShown(rows, q.events) = old
  BY UptoLater DEF Shows, Ordered
<1>3. CASE ~offer.offered
  BY <1>3 DEF OfferFullIs
<1>4. CASE offer.offered
  <2>1. Tells(R, E, rows, stale, q.events, event, offer.queue)
    <3> HIDE DEF E
    <3> QED BY <1>1, <1>4, OfferFullTells
  <2> DEFINE next == offer.queue
  <2>2. /\ next \in [events : Seq(E), pending : {0}, lag : Nat]
        /\ RowsShown(rows, next.events) = IF event.type = "snapshot" THEN event.rows ELSE old
        /\ StaleShown(stale, next.events) <=> event.type = "status"
    BY <1>1, <2>1 DEF Tells
  <2> HIDE DEF next
  <2>3. Ordered(next, R, top)
    BY <2>2 DEF Ordered
  <2>4. Shows(next, R, top, rows, IF event.type = "snapshot" THEN event.rows ELSE old)
    BY <2>2, <2>3 DEF Shows
  <2> QED BY <2>2, <2>4 DEF OfferFullIs, next
<1> QED BY <1>3, <1>4

(* A reader that takes the oldest event has the others before it. *)
LEMMA TailShows ==
  ASSUME NEW R, NoRows \in R, NEW top \in Nat, NEW rows \in R, NEW last,
         NEW q, Shows(q, R, top, rows, last), q.events # << >>,
         NEW left, left = [q EXCEPT !.events = Tail(q.events)],
         NEW taken, taken = RowsTaken(rows, Head(q.events))
  PROVE  Shows(left, R, top, taken, last) /\ taken \in R
<1> DEFINE E == Upto(R, top)
           N == Len(q.events)
<1>1. q.events \in Seq(E) /\ q.pending \in Nat /\ q.lag \in Nat /\ RowsShown(rows, q.events) = last
      /\ (q.pending # 0 => IsLast(q.events, q.pending)) /\ (~DeltaCoalescing => q.pending = 0)
  BY DEF Shows, Ordered
<1>2. E \subseteq Events(R)
  BY UptoLater
<1> HIDE DEF E
<1>3. q.events \in Seq(Events(R)) /\ Head(q.events) \in Events(R)
  <2>1. Head(q.events) \in E
    BY <1>1
  <2> QED BY <1>1, <1>2, <2>1, SeqLater
<1>4. RowsShown(taken, Tail(q.events)) = last /\ taken \in R
  BY <1>1, <1>3, ShownFromOldest, RowsTakenType
<1>5. /\ Tail(q.events) \in Seq(E) /\ N \in Nat \ {0} /\ Len(Tail(q.events)) = N - 1
      /\ \A i \in 1 .. (N - 1) : Tail(q.events)[i] = q.events[i + 1]
  BY <1>1
<1>6. ASSUME q.pending # 0, Tail(q.events) # << >> PROVE IsLast(Tail(q.events), q.pending)
  <2> DEFINE rest == Tail(q.events)
  <2>1. N - 1 # 0
    BY <1>5, <1>6
  <2>2. Last(q.events) = q.events[N] /\ Last(rest) = rest[N - 1]
    BY <1>5 DEF Last
  <2> HIDE DEF rest, N
  <2>3. rest[N - 1] = q.events[N]
    <3>1. N - 1 \in 1 .. (N - 1) /\ (N - 1) + 1 = N
      BY <1>5, <2>1
    <3> QED BY <1>5, <3>1 DEF rest
  <2>4. \A i \in 1 .. (N - 2) : i \in 1 .. (N - 1) /\ i + 1 \in 1 .. (N - 1)
    BY <1>5
  <2>5. \A i \in 1 .. (N - 1) : q.events[i].seq # q.pending
    BY <1>1, <1>6 DEF IsLast, N
  <2>6. \A i \in 1 .. (N - 2) : rest[i].seq # q.pending
    BY <1>5, <2>4, <2>5 DEF rest
  <2>7. Last(rest).seq = q.pending
    BY <1>1, <1>6, <2>2, <2>3 DEF IsLast
  <2>8. Len(rest) - 1 = N - 2
    BY <1>5 DEF rest
  <2> QED BY <2>6, <2>7, <2>8 DEF IsLast, rest
<1>7. left = [events |-> Tail(q.events), pending |-> q.pending, lag |-> q.lag]
  <2>1. q \in [events : Seq(E), pending : Nat, lag : Nat]
    BY DEF Shows, Ordered, E
  <2>2. q = [events |-> q.events, pending |-> q.pending, lag |-> q.lag]
    BY <2>1
  <2> QED BY <2>2
<1>8. Ordered(left, R, top)
  BY <1>1, <1>5, <1>6, <1>7 DEF Ordered, E
<1>9. RowsShown(taken, left.events) = last
  BY <1>4, <1>7
<1> QED BY <1>4, <1>8, <1>9 DEF Shows

-----------------------------------------------------------------------------
(* The books: what plans and builds remember of the subscriptions. *)

Registered(subs) == {r \in Requests : subs[r] # NoSub}

Users(subs, k) == {r \in Requests : subs[r] # NoSub /\ subs[r].plan = k}

Waiting(subs, k) == {r \in Requests : subs[r] # NoSub /\ subs[r].build = k}

Plan == [at : Nat, subscribers : Nat \ {0}]

Entry == [query : Queries, requests : SUBSET Requests, state : {"queued", "building"}]

(* What they say of one key. *)
PlanBooked(subs, ps, k) ==
  /\ k \in DOMAIN ps <=> Users(subs, k) # {}
  /\ k \in DOMAIN ps => ps[k] \in Plan /\ ps[k].subscribers = Cardinality(Users(subs, k))

BuildBooked(subs, bs, k) ==
  /\ k \in DOMAIN bs <=> Waiting(subs, k) # {}
  /\ k \in DOMAIN bs => /\ bs[k] \in Entry /\ bs[k].requests = Waiting(subs, k)
                        /\ KeyOf[bs[k].query] = k

KeyBooked(subs, ps, bs, k) ==
  /\ PlanBooked(subs, ps, k) /\ BuildBooked(subs, bs, k)
  /\ Users(subs, k) = {} \/ Waiting(subs, k) = {}

Books(subs, ps, bs) ==
  /\ DOMAIN ps \subseteq Keys /\ DOMAIN bs \subseteq Keys
  /\ IsFiniteSet(Registered(subs))
  /\ \A k \in Keys : KeyBooked(subs, ps, bs, k)

(* Plans and builds together stay within the limit. *)
Room(ps, bs) ==
  /\ IsFiniteSet(DOMAIN ps \cup DOMAIN bs)
  /\ Cardinality(DOMAIN ps \cup DOMAIN bs) <= MaxActivePlans

(* What is left of plans and of builds is as it was. *)
PlansLeft(ps, left) ==
  DOMAIN left \subseteq DOMAIN ps /\ \A k \in DOMAIN left : left[k].at = ps[k].at

BuildsLeft(bs, left) ==
  /\ DOMAIN left \subseteq DOMAIN bs
  /\ \A k \in DOMAIN left : left[k].state = bs[k].state /\ left[k].query = bs[k].query

(* The mark of no key is not a key. *)
LEMMA NoKeyIsNone ==
  ASSUME NEW k \in Keys
  PROVE  k # NoKey
BY ActivePlanConstants

(* The books of a key depend on nothing else. *)
LEMMA BooksOfKey ==
  ASSUME NEW subs, NEW after, NEW ps, NEW qs, NEW bs, NEW cs, NEW k,
         KeyBooked(subs, ps, bs, k),
         Users(after, k) = Users(subs, k), Waiting(after, k) = Waiting(subs, k),
         k \in DOMAIN qs <=> k \in DOMAIN ps, k \in DOMAIN ps => qs[k] = ps[k],
         k \in DOMAIN cs <=> k \in DOMAIN bs, k \in DOMAIN bs => cs[k] = bs[k]
  PROVE  KeyBooked(after, qs, cs, k)
BY DEF KeyBooked, PlanBooked, BuildBooked

(* Fewer plans and builds leave as much room. *)
LEMMA RoomLeft ==
  ASSUME NEW ps, NEW bs, NEW qs, NEW cs, Room(ps, bs),
         DOMAIN qs \cup DOMAIN cs \subseteq DOMAIN ps \cup DOMAIN bs
  PROVE  Room(qs, cs)
<1> DEFINE A == DOMAIN ps \cup DOMAIN bs
           B == DOMAIN qs \cup DOMAIN cs
<1>1. B \in SUBSET A /\ IsFiniteSet(A) /\ Cardinality(A) <= MaxActivePlans
  BY DEF Room
<1> HIDE DEF A, B
<1>2. IsFiniteSet(B) /\ Cardinality(B) <= Cardinality(A)
  BY <1>1, FS_Subset
<1>3. Cardinality(A) \in Nat /\ Cardinality(B) \in Nat /\ MaxActivePlans \in Nat
  BY <1>1, <1>2, FS_CardinalityType, ActivePlanConstants
<1>4. Cardinality(B) <= MaxActivePlans
  BY <1>1, <1>2, <1>3
<1> QED BY <1>2, <1>4 DEF Room, B

(* The room that is taken is counted by plans and by builds. *)
LEMMA RoomCounted ==
  ASSUME NEW subs, NEW ps, NEW bs, Books(subs, ps, bs), Room(ps, bs)
  PROVE  /\ IsFiniteSet(DOMAIN ps) /\ IsFiniteSet(DOMAIN bs)
         /\ DOMAIN ps \cap DOMAIN bs = {}
         /\ Cardinality(DOMAIN ps \cup DOMAIN bs) = Cardinality(DOMAIN ps) + Cardinality(DOMAIN bs)
<1> DEFINE P == DOMAIN ps
           B == DOMAIN bs
<1>1. IsFiniteSet(P \cup B)
  BY DEF Room
<1>2. P \cap B = {}
  <2> SUFFICES ASSUME NEW k \in P \cap B PROVE FALSE
    OBVIOUS
  <2>1. k \in Keys
    BY DEF Books
  <2> QED BY <2>1 DEF Books, KeyBooked, PlanBooked, BuildBooked
<1> HIDE DEF P, B
<1>3. IsFiniteSet(P) /\ IsFiniteSet(B)
  <2>1. P \in SUBSET (P \cup B) /\ B \in SUBSET (P \cup B)
    OBVIOUS
  <2> QED BY <1>1, <2>1, FS_Subset
<1>4. /\ Cardinality(P \cup B) = Cardinality(P) + Cardinality(B) - Cardinality(P \cap B)
      /\ Cardinality(P) \in Nat /\ Cardinality(B) \in Nat
  BY <1>3, FS_Union, FS_CardinalityType
<1>5. Cardinality({}) = 0
  BY FS_EmptySet
<1>6. Cardinality(P \cap B) = 0
  BY <1>2, <1>5
<1>7. Cardinality(P \cup B) = Cardinality(P) + Cardinality(B)
  BY <1>4, <1>6
<1> QED BY <1>2, <1>3, <1>7 DEF P, B

(* What a subscription holds: a plan, a place in a build, or nothing. *)
SameHold(s, t) == (t = NoSub <=> s = NoSub) /\ (s # NoSub => t.plan = s.plan /\ t.build = s.build)

(* A plan that loses some of its users. *)
LEMMA PlanReleased ==
  ASSUME NEW ps, NEW R \in SUBSET Requests, NEW after, NEW k,
         IsFiniteSet(Registered(sub)), PlanBooked(sub, ps, k),
         \A r \in R : after[r] = NoSub, \A r \in Requests \ R : SameHold(sub[r], after[r])
  PROVE  /\ PlanBooked(after, ReleasePlans(ps, R), k)
         /\ Users(after, k) = Users(sub, k) \ R
         /\ k \in DOMAIN ReleasePlans(ps, R) => ReleasePlans(ps, R)[k].at = ps[k].at
<1> DEFINE U == Users(sub, k)
           gone == PlanUsers(k, R)
           left == ReleasePlans(ps, R)
<1>1. Users(after, k) = U \ R /\ gone = U \cap R
  BY DEF Users, PlanUsers, SameHold
<1>2. IsFiniteSet(U)
  <2>1. U \in SUBSET Registered(sub)
    BY DEF Users, Registered
  <2> QED BY <2>1, FS_Subset
<1> HIDE DEF U
<1>3. /\ IsFiniteSet(U \ R) /\ Cardinality(U \ R) = Cardinality(U) - Cardinality(U \cap R)
      /\ IsFiniteSet(U \cap R)
  BY <1>2, FS_Difference, FS_Intersection
<1>4. Cardinality(U) \in Nat /\ Cardinality(U \cap R) \in Nat /\ Cardinality(U \ R) \in Nat
  BY <1>2, <1>3, FS_CardinalityType
<1>5. Cardinality(U \ R) = 0 <=> U \ R = {}
  BY <1>3, FS_EmptySet
<1>6. /\ k \in DOMAIN left <=> k \in DOMAIN ps /\ ps[k].subscribers > Cardinality(U \cap R)
      /\ k \in DOMAIN left =>
           left[k] = [ps[k] EXCEPT !.subscribers = ps[k].subscribers - Cardinality(U \cap R)]
  BY <1>1 DEF ReleasePlans
<1> HIDE DEF left, gone
<1>7. /\ k \in DOMAIN ps <=> U # {}
      /\ k \in DOMAIN ps => ps[k] \in Plan /\ ps[k].subscribers = Cardinality(U)
  BY DEF PlanBooked, U
<1>8. k \in DOMAIN left <=> U \ R # {}
  BY <1>3, <1>4, <1>5, <1>6, <1>7
<1>9. ASSUME k \in DOMAIN left
      PROVE  left[k] \in Plan /\ left[k].subscribers = Cardinality(U \ R) /\ left[k].at = ps[k].at
  <2>1. ps[k] \in Plan /\ ps[k].subscribers = Cardinality(U)
    BY <1>6, <1>7, <1>9
  <2>2. Cardinality(U \ R) \in Nat \ {0}
    BY <1>4, <1>5, <1>8, <1>9
  <2>3. left[k] = [ps[k] EXCEPT !.subscribers = Cardinality(U \ R)]
    BY <1>3, <1>6, <1>9, <2>1
  <2> QED BY <2>1, <2>2, <2>3 DEF Plan
<1>10. PlanBooked(after, left, k)
  BY <1>1, <1>8, <1>9 DEF PlanBooked
<1> QED BY <1>1, <1>9, <1>10 DEF left, U

(* A build that loses some of those who wait for it. *)
LEMMA BuildReleased ==
  ASSUME NEW bs, NEW R \in SUBSET Requests, NEW after, NEW k, BuildBooked(sub, bs, k),
         \A r \in R : after[r] = NoSub, \A r \in Requests \ R : SameHold(sub[r], after[r])
  PROVE  /\ BuildBooked(after, ReleaseBuilds(bs, R), k)
         /\ Waiting(after, k) = Waiting(sub, k) \ R
         /\ k \in DOMAIN ReleaseBuilds(bs, R) =>
              /\ ReleaseBuilds(bs, R)[k].state = bs[k].state
              /\ ReleaseBuilds(bs, R)[k].query = bs[k].query
<1> DEFINE W == Waiting(sub, k)
           left == ReleaseBuilds(bs, R)
           rest == bs[k].requests \ {r \in R : sub[r] # NoSub /\ sub[r].build = k}
<1>1. Waiting(after, k) = W \ R /\ {r \in R : sub[r] # NoSub /\ sub[r].build = k} = W \cap R
  BY DEF Waiting, SameHold
<1>2. /\ k \in DOMAIN left <=> k \in DOMAIN bs /\ rest # {}
      /\ k \in DOMAIN left => left[k] = [bs[k] EXCEPT !.requests = rest]
  BY DEF ReleaseBuilds
<1> HIDE DEF left, rest, W
<1>3. /\ k \in DOMAIN bs <=> W # {}
      /\ k \in DOMAIN bs => bs[k] \in Entry /\ bs[k].requests = W /\ KeyOf[bs[k].query] = k
  BY DEF BuildBooked, W
<1>4. k \in DOMAIN bs => rest = W \ R
  BY <1>1, <1>3 DEF rest
<1>5. ASSUME k \in DOMAIN left
      PROVE  /\ left[k] \in Entry /\ left[k].requests = W \ R /\ KeyOf[left[k].query] = k
             /\ left[k].state = bs[k].state /\ left[k].query = bs[k].query
  <2>1. bs[k] \in Entry /\ left[k] = [bs[k] EXCEPT !.requests = W \ R] /\ W \in SUBSET Requests
    BY <1>2, <1>3, <1>4, <1>5 DEF W, Waiting
  <2> QED BY <1>2, <1>3, <1>5, <2>1 DEF Entry
<1> QED BY <1>1, <1>2, <1>3, <1>4, <1>5 DEF BuildBooked, left

(* What subscriptions that go release. *)
LEMMA ReleaseBooked ==
  ASSUME NEW ps, NEW bs, Books(sub, ps, bs), Room(ps, bs), NEW R \in SUBSET Requests, NEW after,
         \A r \in R : after[r] = NoSub, \A r \in Requests \ R : SameHold(sub[r], after[r])
  PROVE  /\ Books(after, ReleasePlans(ps, R), ReleaseBuilds(bs, R))
         /\ Room(ReleasePlans(ps, R), ReleaseBuilds(bs, R))
         /\ PlansLeft(ps, ReleasePlans(ps, R)) /\ BuildsLeft(bs, ReleaseBuilds(bs, R))
<1> DEFINE qs == ReleasePlans(ps, R)
           cs == ReleaseBuilds(bs, R)
<1>1. DOMAIN qs \subseteq DOMAIN ps /\ DOMAIN cs \subseteq DOMAIN bs
  BY DEF ReleasePlans, ReleaseBuilds
<1>2. /\ DOMAIN ps \subseteq Keys /\ DOMAIN bs \subseteq Keys /\ IsFiniteSet(Registered(sub))
      /\ \A k \in Keys : KeyBooked(sub, ps, bs, k)
  BY DEF Books
<1>3. IsFiniteSet(Registered(after))
  <2>1. Registered(after) \in SUBSET Registered(sub)
    BY DEF Registered, SameHold
  <2> QED BY <1>2, <2>1, FS_Subset
<1>4. ASSUME NEW k \in Keys
      PROVE  /\ KeyBooked(after, qs, cs, k)
             /\ k \in DOMAIN qs => qs[k].at = ps[k].at
             /\ k \in DOMAIN cs => cs[k].state = bs[k].state /\ cs[k].query = bs[k].query
  <2>1. PlanBooked(sub, ps, k) /\ BuildBooked(sub, bs, k)
        /\ (Users(sub, k) = {} \/ Waiting(sub, k) = {})
    BY <1>2 DEF KeyBooked
  <2>2. /\ PlanBooked(after, qs, k) /\ Users(after, k) = Users(sub, k) \ R
        /\ k \in DOMAIN qs => qs[k].at = ps[k].at
    BY <1>2, <2>1, PlanReleased
  <2>3. /\ BuildBooked(after, cs, k) /\ Waiting(after, k) = Waiting(sub, k) \ R
        /\ k \in DOMAIN cs => cs[k].state = bs[k].state /\ cs[k].query = bs[k].query
    BY <2>1, BuildReleased
  <2> QED BY <2>1, <2>2, <2>3 DEF KeyBooked
<1> HIDE DEF qs, cs
<1>5. Books(after, qs, cs)
  BY <1>1, <1>2, <1>3, <1>4 DEF Books
<1>6. Room(qs, cs)
  BY <1>1, RoomLeft
<1>7. PlansLeft(ps, qs) /\ BuildsLeft(bs, cs)
  BY <1>1, <1>2, <1>4 DEF PlansLeft, BuildsLeft
<1> QED BY <1>5, <1>6, <1>7 DEF qs, cs
(* A request that becomes a subscription, the others as they were. *)
Admits(subs, after, r, s) ==
  /\ subs[r] = NoSub /\ s # NoSub
  /\ \A x \in Requests : after[x] = IF x = r THEN s ELSE subs[x]

(* Admitting a subscription adds it to the users of its plan or to those *)
(* waiting for its build.                                                *)
LEMMA AdmittedTo ==
  ASSUME NEW subs, NEW after, NEW r \in Requests, NEW s, Admits(subs, after, r, s),
         IsFiniteSet(Registered(subs)), NEW k
  PROVE  /\ Users(after, k) = IF s.plan = k THEN Users(subs, k) \cup {r} ELSE Users(subs, k)
         /\ Waiting(after, k) = IF s.build = k THEN Waiting(subs, k) \cup {r} ELSE Waiting(subs, k)
         /\ IsFiniteSet(Registered(after)) /\ r \notin Users(subs, k)
         /\ IsFiniteSet(Users(subs, k))
<1>1. /\ subs[r] = NoSub /\ s # NoSub
      /\ \A x \in Requests : after[x] = IF x = r THEN s ELSE subs[x]
  BY DEF Admits
<1>2. Registered(after) = Registered(subs) \cup {r}
  BY <1>1 DEF Registered
<1>3. IsFiniteSet(Registered(after))
  BY <1>2, FS_AddElement
<1>4. Users(subs, k) \in SUBSET Registered(subs)
  BY DEF Users, Registered
<1>5. IsFiniteSet(Users(subs, k))
  BY <1>4, FS_Subset
<1>6. Users(after, k) = IF s.plan = k THEN Users(subs, k) \cup {r} ELSE Users(subs, k)
  BY <1>1 DEF Users
<1>7. Waiting(after, k) = IF s.build = k THEN Waiting(subs, k) \cup {r} ELSE Waiting(subs, k)
  BY <1>1 DEF Waiting
<1> QED BY <1>1, <1>3, <1>5, <1>6, <1>7 DEF Users

(* It holds nothing (it was skipped or refused). *)
LEMMA NothingBooked ==
  ASSUME NEW subs, NEW ps, NEW bs, Books(subs, ps, bs),
         NEW after, NEW r \in Requests, NEW s, Admits(subs, after, r, s),
         s.plan = NoKey, s.build = NoKey
  PROVE  Books(after, ps, bs)
<1>1. /\ DOMAIN ps \subseteq Keys /\ DOMAIN bs \subseteq Keys /\ IsFiniteSet(Registered(subs))
      /\ \A k \in Keys : KeyBooked(subs, ps, bs, k)
  BY DEF Books
<1>2. ASSUME NEW k \in Keys PROVE KeyBooked(after, ps, bs, k) /\ IsFiniteSet(Registered(after))
  <2>1. k # NoKey /\ KeyBooked(subs, ps, bs, k)
    BY <1>1, NoKeyIsNone
  <2>0. /\ Users(after, k) = IF s.plan = k THEN Users(subs, k) \cup {r} ELSE Users(subs, k)
        /\ Waiting(after, k) = IF s.build = k THEN Waiting(subs, k) \cup {r} ELSE Waiting(subs, k)
        /\ IsFiniteSet(Registered(after)) /\ r \notin Users(subs, k)
        /\ IsFiniteSet(Users(subs, k))
    BY <1>1, AdmittedTo
  <2>2. /\ Users(after, k) = Users(subs, k) /\ Waiting(after, k) = Waiting(subs, k)
        /\ IsFiniteSet(Registered(after))
    BY <2>0, <2>1
  <2> QED BY <2>1, <2>2, BooksOfKey
<1>3. IsFiniteSet(Registered(after))
  BY <1>1, AdmittedTo
<1> QED BY <1>1, <1>2, <1>3 DEF Books

(* It takes a plan that exists. *)
TakesPlan(ps, qs, k) == qs = [ps EXCEPT ![k].subscribers = ps[k].subscribers + 1]

(* A subscription that joins a plan is booked by counting it there *)
(* (prepareSubscription).                                          *)
LEMMA UserBooked ==
  ASSUME NEW subs, NEW ps, NEW bs, Books(subs, ps, bs),
         NEW after, NEW r \in Requests, NEW s, Admits(subs, after, r, s),
         NEW k \in Keys, s.plan = k, s.build = NoKey, k \in DOMAIN ps,
         NEW qs, TakesPlan(ps, qs, k)
  PROVE  Books(after, qs, bs) /\ DOMAIN qs = DOMAIN ps /\ \A j \in DOMAIN qs : qs[j].at = ps[j].at
<1>1. /\ DOMAIN ps \subseteq Keys /\ DOMAIN bs \subseteq Keys /\ IsFiniteSet(Registered(subs))
      /\ \A j \in Keys : KeyBooked(subs, ps, bs, j)
  BY DEF Books
<1>2. PlanBooked(subs, ps, k)
  BY <1>1 DEF KeyBooked
<1>3. ps[k] \in Plan /\ ps[k].subscribers = Cardinality(Users(subs, k)) /\ Users(subs, k) # {}
  BY <1>2 DEF PlanBooked
<1>4. DOMAIN qs = DOMAIN ps /\ \A j \in DOMAIN ps : j # k => qs[j] = ps[j]
  BY DEF TakesPlan
<1>5. qs[k] = [ps[k] EXCEPT !.subscribers = ps[k].subscribers + 1]
  BY DEF TakesPlan
<1>6. qs[k] = [at |-> ps[k].at, subscribers |-> ps[k].subscribers + 1]
  BY <1>3, <1>5 DEF Plan
<1>7. IsFiniteSet(Registered(after))
  BY <1>1, AdmittedTo
<1>8. ASSUME NEW j \in Keys PROVE KeyBooked(after, qs, bs, j)
  <2>1. j # NoKey /\ KeyBooked(subs, ps, bs, j)
    BY <1>1, NoKeyIsNone
  <2>0. /\ Users(after, j) = IF s.plan = j THEN Users(subs, j) \cup {r} ELSE Users(subs, j)
        /\ Waiting(after, j) = IF s.build = j THEN Waiting(subs, j) \cup {r} ELSE Waiting(subs, j)
        /\ IsFiniteSet(Registered(after)) /\ r \notin Users(subs, j)
        /\ IsFiniteSet(Users(subs, j))
    BY <1>1, AdmittedTo
  <2>2. /\ Users(after, j) = IF k = j THEN Users(subs, j) \cup {r} ELSE Users(subs, j)
        /\ Waiting(after, j) = Waiting(subs, j) /\ r \notin Users(subs, j)
        /\ IsFiniteSet(Users(subs, j))
    BY <2>0, <2>1
  <2>3. CASE j # k
    <3>1. Users(after, j) = Users(subs, j)
      BY <2>2, <2>3
    <3> QED BY <1>4, <2>1, <2>2, <2>3, <3>1, BooksOfKey
  <2>4. CASE j = k
    <3>1. /\ Cardinality(Users(after, k)) = Cardinality(Users(subs, k)) + 1
          /\ Cardinality(Users(subs, k)) \in Nat
      BY <2>2, <2>4, FS_AddElement, FS_CardinalityType
    <3>2. qs[k] \in Plan /\ qs[k].subscribers = Cardinality(Users(after, k))
      BY <1>3, <1>6, <3>1 DEF Plan
    <3>3. PlanBooked(after, qs, k)
      BY <1>4, <2>2, <2>4, <3>2 DEF PlanBooked
    <3>4. BuildBooked(after, bs, k)
      BY <2>1, <2>2, <2>4 DEF KeyBooked, BuildBooked
    <3>5. Waiting(after, k) = {}
      BY <1>3, <2>1, <2>2, <2>4 DEF KeyBooked
    <3> QED BY <2>4, <3>3, <3>4, <3>5 DEF KeyBooked
  <2> QED BY <2>3, <2>4
<1> QED BY <1>1, <1>4, <1>6, <1>7, <1>8 DEF Books

(* It waits for a build: of others, or its own. *)
JoinsBuild(bs, cs, k, r) ==
  /\ DOMAIN cs = DOMAIN bs \cup {k} /\ \A j \in DOMAIN bs : j # k => cs[j] = bs[j]
  /\ cs[k] \in Entry /\ KeyOf[cs[k].query] = k
  /\ cs[k].requests = IF k \in DOMAIN bs THEN bs[k].requests \cup {r} ELSE {r}

(* A subscription that queues or joins a build is booked by its name in it. *)
LEMMA WaiterBooked ==
  ASSUME NEW subs, NEW ps, NEW bs, Books(subs, ps, bs),
         NEW after, NEW r \in Requests, NEW s, Admits(subs, after, r, s),
         NEW k \in Keys, s.plan = NoKey, s.build = k, k \notin DOMAIN ps,
         NEW cs, JoinsBuild(bs, cs, k, r)
  PROVE  Books(after, ps, cs)
<1>0. /\ DOMAIN cs = DOMAIN bs \cup {k} /\ \A j \in DOMAIN bs : j # k => cs[j] = bs[j]
      /\ cs[k] \in Entry /\ KeyOf[cs[k].query] = k
      /\ cs[k].requests = IF k \in DOMAIN bs THEN bs[k].requests \cup {r} ELSE {r}
  BY DEF JoinsBuild
<1>1. /\ DOMAIN ps \subseteq Keys /\ DOMAIN bs \subseteq Keys /\ IsFiniteSet(Registered(subs))
      /\ \A j \in Keys : KeyBooked(subs, ps, bs, j)
  BY DEF Books
<1>2. IsFiniteSet(Registered(after)) /\ DOMAIN cs \subseteq Keys
  BY <1>0, <1>1, AdmittedTo
<1>3. ASSUME NEW j \in Keys PROVE KeyBooked(after, ps, cs, j)
  <2>1. j # NoKey /\ KeyBooked(subs, ps, bs, j)
    BY <1>1, NoKeyIsNone
  <2>0. /\ Users(after, j) = IF s.plan = j THEN Users(subs, j) \cup {r} ELSE Users(subs, j)
        /\ Waiting(after, j) = IF s.build = j THEN Waiting(subs, j) \cup {r} ELSE Waiting(subs, j)
        /\ IsFiniteSet(Registered(after)) /\ r \notin Users(subs, j)
        /\ IsFiniteSet(Users(subs, j))
    BY <1>1, AdmittedTo
  <2>2. /\ Waiting(after, j) = IF k = j THEN Waiting(subs, j) \cup {r} ELSE Waiting(subs, j)
        /\ Users(after, j) = Users(subs, j)
    BY <2>0, <2>1
  <2>3. CASE j # k
    <3>1. Waiting(after, j) = Waiting(subs, j) /\ (j \in DOMAIN cs <=> j \in DOMAIN bs)
      BY <1>0, <2>2, <2>3
    <3> QED BY <1>0, <2>1, <2>2, <2>3, <3>1, BooksOfKey
  <2>4. CASE j = k
    <3>1. PlanBooked(after, ps, k)
      BY <2>1, <2>2, <2>4 DEF KeyBooked, PlanBooked
    <3>2. Users(after, k) = {}
      BY <2>1, <2>2, <2>4 DEF KeyBooked, PlanBooked
    <3>3. cs[k].requests = Waiting(after, k) /\ Waiting(after, k) # {}
      BY <1>0, <2>1, <2>2, <2>4 DEF KeyBooked, BuildBooked
    <3>4. BuildBooked(after, cs, k)
      BY <1>0, <3>3 DEF BuildBooked
    <3> QED BY <2>4, <3>1, <3>2, <3>4 DEF KeyBooked
  <2> QED BY <2>3, <2>4
<1> QED BY <1>1, <1>2, <1>3 DEF Books

(* A build is over: who waited for it has a plan now, or has left it. *)
EndsBuild(subs, after, k) ==
  \A x \in Requests :
    /\ x \notin Waiting(subs, k) => after[x] = subs[x]
    /\ x \in Waiting(subs, k) /\ after[x] # NoSub =>
         after[x].build = NoKey /\ after[x].plan \in {k, NoKey}

(* Its plan goes to who has it, and exists if anybody does. *)
Hands(after, ps, qs, k, at) ==
  qs = IF Users(after, k) = {} THEN ps
       ELSE With(ps, k, [at |-> at, subscribers |-> Cardinality(Users(after, k))])

(* A build that ends with its waiters gone, or counted by the plan it *)
(* becomes, keeps the books and takes no more room.                   *)
LEMMA BuildEnded ==
  ASSUME NEW subs, NEW ps, NEW bs, Books(subs, ps, bs), Room(ps, bs),
         NEW k \in Keys, k \in DOMAIN bs, NEW after, EndsBuild(subs, after, k),
         \A x \in Waiting(subs, k) : subs[x].plan = NoKey,
         NEW qs, NEW at \in Nat, Hands(after, ps, qs, k, at), NEW cs, cs = Without(bs, k)
  PROVE  /\ Books(after, qs, cs) /\ Room(qs, cs)
         /\ \A j \in DOMAIN qs : qs[j].at = IF j = k THEN at ELSE ps[j].at
<1>1. /\ DOMAIN ps \subseteq Keys /\ DOMAIN bs \subseteq Keys /\ IsFiniteSet(Registered(subs))
      /\ \A j \in Keys : KeyBooked(subs, ps, bs, j)
  BY DEF Books
<1> DEFINE U == Users(after, k)
<1>2. k \notin DOMAIN ps /\ Users(subs, k) = {}
  BY <1>1 DEF KeyBooked, PlanBooked, BuildBooked
<1> DEFINE plan == [at |-> at, subscribers |-> Cardinality(U)]
<1>3. /\ DOMAIN qs = IF U = {} THEN DOMAIN ps ELSE DOMAIN ps \cup {k}
      /\ U # {} => qs[k] = plan
      /\ \A j \in DOMAIN ps : j # k => qs[j] = ps[j]
  <2>1. qs = IF U = {} THEN ps ELSE With(ps, k, plan)
    BY DEF Hands
  <2> HIDE DEF U, plan
  <2> QED BY <2>1 DEF With
<1>4. DOMAIN cs = DOMAIN bs \ {k} /\ \A j \in DOMAIN bs : j # k => cs[j] = bs[j]
  BY DEF Without, Restrict
<1>5. ASSUME NEW j \in Keys, j # k
      PROVE  Users(after, j) = Users(subs, j) /\ Waiting(after, j) = Waiting(subs, j)
  <2>1. j # NoKey
    BY NoKeyIsNone
  <2>2. \A x \in Waiting(subs, k) : subs[x] # NoSub /\ subs[x].plan # j /\ subs[x].build = k
    BY <1>1, <1>5, <2>1 DEF EndsBuild, Waiting
  <2>3. \A x \in Waiting(subs, k) : x \notin Users(after, j) /\ x \notin Waiting(after, j)
    BY <1>5, <2>1 DEF EndsBuild, Users, Waiting
  <2> QED BY <1>5, <2>2, <2>3 DEF EndsBuild, Users, Waiting
<1>6. Waiting(after, k) = {}
  BY NoKeyIsNone DEF EndsBuild, Waiting
<1>7. IsFiniteSet(Registered(after))
  <2>1. Registered(after) \in SUBSET Registered(subs)
    BY DEF Registered, EndsBuild, Waiting
  <2> QED BY <1>1, <2>1, FS_Subset
<1>plan. U # {} => plan \in Plan /\ plan.subscribers = Cardinality(U)
  <2>1. U \in SUBSET Registered(after)
    BY DEF Users, Registered
  <2> HIDE DEF U
  <2>2. IsFiniteSet(U)
    BY <1>7, <2>1, FS_Subset
  <2>3. Cardinality(U) \in Nat /\ (Cardinality(U) = 0 <=> U = {})
    BY <2>2, FS_CardinalityType, FS_EmptySet
  <2> QED BY <2>3 DEF Plan
<1> HIDE DEF U, plan
<1>8. ASSUME NEW j \in Keys PROVE KeyBooked(after, qs, cs, j)
  <2>1. KeyBooked(subs, ps, bs, j)
    BY <1>1
  <2>2. CASE j # k
    <3>1. Users(after, j) = Users(subs, j) /\ Waiting(after, j) = Waiting(subs, j)
      BY <1>5, <2>2
    <3>2. /\ j \in DOMAIN qs <=> j \in DOMAIN ps
          /\ j \in DOMAIN ps => qs[j] = ps[j]
          /\ j \in DOMAIN cs <=> j \in DOMAIN bs
          /\ j \in DOMAIN bs => cs[j] = bs[j]
      BY <1>3, <1>4, <2>2
    <3> QED BY <2>1, <3>1, <3>2, BooksOfKey
  <2>3. CASE j = k
    <3>1. PlanBooked(after, qs, k)
      BY <1>2, <1>3, <1>plan DEF PlanBooked, U
    <3>2. BuildBooked(after, cs, k)
      BY <1>4, <1>6 DEF BuildBooked
    <3> QED BY <1>6, <2>3, <3>1, <3>2 DEF KeyBooked
  <2> QED BY <2>2, <2>3
<1>9. Books(after, qs, cs)
  BY <1>1, <1>3, <1>4, <1>7, <1>8 DEF Books
<1>10. Room(qs, cs)
  <2>1. DOMAIN qs \cup DOMAIN cs \subseteq DOMAIN ps \cup DOMAIN bs
    BY <1>3, <1>4
  <2> QED BY <2>1, RoomLeft
<1>11. \A j \in DOMAIN qs : qs[j].at = IF j = k THEN at ELSE ps[j].at
  BY <1>2, <1>3 DEF plan
<1> QED BY <1>9, <1>10, <1>11
-----------------------------------------------------------------------------
(* The subscriptions *)

(* A subscription is served by a view, waits for its build, fell back to   *)
(* memory or was skipped.                                                  *)
Placed(s) ==
  /\ s.plan # NoKey <=> s.view # NoQuery
  /\ s.plan # NoKey => s.build = NoKey /\ ~s.fallback /\ ~s.skipped
  /\ s.build # NoKey => ~s.fallback /\ ~s.skipped
  /\ ~s.fallback \/ ~s.skipped
  /\ s.plan # NoKey \/ s.build # NoKey \/ s.fallback \/ s.skipped
  /\ s.plan # NoKey => s.plan = KeyOf[s.query] /\ s.plan = KeyOf[s.view]
  /\ s.build # NoKey => s.build = KeyOf[s.query]

(* It is stale only while it waits or was skipped. *)
Mode(s) == Placed(s) /\ (s.dirty => s.build # NoKey \/ s.skipped)

(* What its reader shows in the end: the rows the worker believes it has,  *)
(* marked stale exactly as long as they are.                               *)
Told(s, rd, v) ==
  /\ Shows(s.queue, Rows, v, rd.rows, s.rows)
  /\ StaleShown(rd.stale, s.queue.events) <=> s.dirty

Sound(s, rd, v) == s \in Subscription /\ Mode(s) /\ Told(s, rd, v)

SubsSound(subs, rds, v) == \A r \in Requests : subs[r] # NoSub => Sound(subs[r], rds[r], v)

(* A fiber that builds has a query of its key. *)
FibersSound(fibers) ==
  \A b \in Builders :
    /\ fibers[b].phase = "taken" => fibers[b].key \in Keys
    /\ fibers[b].phase = "building" =>
         /\ fibers[b].query \in Queries /\ fibers[b].key = KeyOf[fibers[b].query]

(* A build that waits has its key in the queue or with a fiber that has     *)
(* taken it, and one that runs has a fiber: the queue alone would not do,  *)
(* for a fiber that takes the key of a build that runs leaves it.          *)
Awaits(k, queue, fibers) ==
  \/ \E i \in 1 .. Len(queue) : queue[i] = k
  \/ \E b \in Builders : fibers[b].key = k /\ fibers[b].phase = "taken"

Runs(k, fibers) == \E b \in Builders : fibers[b].key = k /\ fibers[b].phase = "building"

Remembered(bs, queue, fibers) ==
  \A k \in DOMAIN bs :
    IF bs[k].state = "queued" THEN Awaits(k, queue, fibers) ELSE Runs(k, fibers)

(* Types, but for the plans and builds, which the books say. *)
Core ==
  /\ version \in Nat /\ asked \in Nat /\ open \in BOOLEAN
  /\ changed \in [Queries -> SUBSET (1 .. version)]
  /\ sub \in [Requests -> {NoSub} \cup Subscription]
  /\ reader \in [Requests -> [rows : Rows, stale : BOOLEAN]]
  /\ buildQueue \in Seq(Keys)
  /\ builder \in [Builders -> [phase : {"idle", "taken", "building"}, key : Keys \cup {NoKey},
                               query : Queries \cup {NoQuery}, version : Nat]]

(* Every query has a plan key of its own: no two differ in their window alone. *)
OnePerKey == \A p, q \in Queries : KeyOf[p] = KeyOf[q] => p = q

IInv ==
  /\ Core
  /\ Books(sub, plans, builds) /\ Room(plans, builds)
  /\ SubsSound(sub, reader, version)
  /\ FibersSound(builder)
  /\ Remembered(builds, buildQueue, builder)
  /\ PlansCurrent
  /\ OnePerKey => ServesOwnQuery

(* A subscription and what becomes of it. *)
SamePlace(s, t) ==
  /\ t.query = s.query /\ t.build = s.build /\ t.plan = s.plan /\ t.view = s.view
  /\ t.skipped = s.skipped /\ t.fallback = s.fallback

Requeues(s, t, rows, dirty, q) == t = [s EXCEPT !.rows = rows, !.dirty = dirty, !.queue = q]

IsRequeued(s, t, rows, dirty, q) ==
  /\ t \in Subscription /\ SamePlace(s, t) /\ t # NoSub
  /\ t.rows = rows /\ t.dirty = dirty /\ t.queue = q

(* It has another queue, and other rows. *)
LEMMA Requeued ==
  ASSUME NEW s \in Subscription, NEW rows \in Rows, NEW dirty \in BOOLEAN,
         NEW q \in Queues(Rows), NEW t, Requeues(s, t, rows, dirty, q)
  PROVE  IsRequeued(s, t, rows, dirty, q)
<1>1. s = [query |-> s.query, build |-> s.build, plan |-> s.plan, view |-> s.view,
           skipped |-> s.skipped, fallback |-> s.fallback, dirty |-> s.dirty,
           rows |-> s.rows, queue |-> s.queue]
  BY DEF Subscription
<1>2. t = [query |-> s.query, build |-> s.build, plan |-> s.plan, view |-> s.view,
           skipped |-> s.skipped, fallback |-> s.fallback, dirty |-> dirty,
           rows |-> rows, queue |-> q]
  BY <1>1 DEF Requeues
<1>3. t \in Subscription
  BY <1>1, <1>2 DEF Subscription
<1> QED BY <1>2, <1>3, NoSubscription DEF SamePlace, IsRequeued

(* A queue in order is a queue. *)
LEMMA OrderedIsQueue ==
  ASSUME NEW top \in Nat, NEW q, Ordered(q, Rows, top)
  PROVE  q \in Queues(Rows)
<1> DEFINE E == Upto(Rows, top)
           F == Events(Rows)
<1>1. E \subseteq F
  BY UptoLater
<1> HIDE DEF E, F
<1>2. q.events \in Seq(E) /\ q.pending \in Nat /\ q.lag \in Nat
      /\ q = [events |-> q.events, pending |-> q.pending, lag |-> q.lag]
  BY DEF E, Ordered
<1>3. q.events \in Seq(F)
  BY <1>1, <1>2, SeqLater
<1> QED BY <1>2, <1>3 DEF Queues, F

(* What a later version says of a subscription that is left alone. *)
LEMMA ToldLater ==
  ASSUME NEW s, NEW rd, NEW v \in Nat, NEW w \in Nat, v <= w, Sound(s, rd, v)
  PROVE  Sound(s, rd, w)
<1>1. Ordered(s.queue, Rows, w)
  BY OrderedLater DEF Sound, Told, Shows
<1> QED BY <1>1 DEF Sound, Told, Shows

(* How a step leaves a subscription. *)
Becomes(s, t, rd, v) == t # NoSub => Sound(t, rd, v) /\ SamePlace(s, t)

(* Who waits for a plan is told that it is stale, or ends. *)
LEMMA DirtyTold ==
  ASSUME NEW s, NEW rd, rd.rows \in Rows, NEW v \in Nat, NEW w \in Nat, v <= w,
         Sound(s, rd, v), Pending(s), NEW t, t = MarkedDirty(s, w)
  PROVE  Becomes(s, t, rd, w) /\ (t # NoSub => t.dirty)
<1> DEFINE event == StatusEvent(w)
           offer == OfferFull(s.queue, event)
<1>1. NoRows \in Rows
  BY DEF Rows
<1>2. /\ event.type = "status" /\ event.seq = 0 /\ event.from = w /\ event.to = w
      /\ event.ops = << >> /\ event.rows = NoRows
  BY DEF StatusEvent
<1>3. event \in Upto(Rows, w)
  <2> DEFINE Code == Seq(Operations(Rows))
  <2>1. << >> \in Code
    OBVIOUS
  <2> HIDE DEF Code
  <2>2. event \in [type : {"delta", "snapshot", "status"}, seq : Nat, from : Nat, to : Nat,
                   ops : Code, rows : Rows]
    BY <1>1, <2>1 DEF StatusEvent
  <2>3. event \in Events(Rows)
    BY <1>2, <2>2 DEF Events, Code
  <2> QED BY <1>2, <2>3 DEF Upto
<1>4. t = IF offer.offered THEN [s EXCEPT !.dirty = TRUE, !.queue = offer.queue] ELSE NoSub
  BY DEF MarkedDirty
<1>5. s \in Subscription /\ Mode(s) /\ Told(s, rd, v)
  BY DEF Sound
<1>6. Shows(s.queue, Rows, w, rd.rows, s.rows)
  BY <1>5, OrderedLater DEF Told, Shows
<1> HIDE DEF event
<1>7. OfferFullIs(offer, Rows, w, rd.rows, rd.stale, event, s.rows)
  BY <1>1, <1>2, <1>3, <1>6, OfferFullShows
<1> HIDE DEF offer
<1>8. CASE ~offer.offered
  BY <1>4, <1>8 DEF Becomes
<1>9. CASE offer.offered
  <2> DEFINE next == offer.queue
  <2>1. Shows(next, Rows, w, rd.rows, s.rows) /\ StaleShown(rd.stale, next.events)
    BY <1>2, <1>7, <1>9 DEF OfferFullIs
  <2> HIDE DEF next
  <2>2. next \in Queues(Rows)
    BY <2>1, OrderedIsQueue DEF Shows
  <2>3. Requeues(s, t, s.rows, TRUE, next) /\ s.rows \in Rows
    <3>1. s \in [query : Queries, build : Keys \cup {NoKey}, plan : Keys \cup {NoKey},
                 view : Queries \cup {NoQuery}, skipped : BOOLEAN, fallback : BOOLEAN,
                 dirty : BOOLEAN, rows : Rows, queue : Queues(Rows)]
      BY <1>5 DEF Subscription
    <3> QED BY <1>4, <1>9, <3>1 DEF next, Requeues
  <2>4. /\ t \in Subscription /\ SamePlace(s, t) /\ t # NoSub
        /\ t.rows = s.rows /\ t.dirty /\ t.queue = next
    <3>1. IsRequeued(s, t, s.rows, TRUE, next)
      BY <1>5, <2>2, <2>3, Requeued
    <3> QED BY <3>1 DEF IsRequeued
  <2>5. Told(t, rd, w)
    BY <2>1, <2>4 DEF Told
  <2>6. Mode(t)
    BY <1>5, <2>4 DEF Mode, Placed, SamePlace, Pending
  <2> QED BY <2>4, <2>5, <2>6 DEF Becomes, Sound
<1> QED BY <1>8, <1>9

(* What becomes of a subscription whose rows change. *)
Moves(s, t, v, rows) ==
  LET offer == OfferDelta(s.queue, DeltaEvent(v, v + 1, <<[base |-> s.rows, rows |-> rows]>>))
  IN  t = IF rows = s.rows THEN s
          ELSE IF offer.offered THEN [ApplyDelta(s, rows) EXCEPT !.queue = offer.queue]
          ELSE NoSub

(* Who does not wait gets the difference of its rows, or ends. *)
LEMMA MovedTold ==
  ASSUME NEW s, NEW rd, rd.rows \in Rows, NEW v \in Nat, Sound(s, rd, v), ~Pending(s),
         NEW rows \in Rows, NEW t, Moves(s, t, v, rows)
  PROVE  Becomes(s, t, rd, v + 1) /\ (t # NoSub => t.rows = rows /\ ~t.dirty)
<1> DEFINE old == s.rows
           event == DeltaEvent(v, v + 1, <<[base |-> old, rows |-> rows]>>)
           offer == OfferDelta(s.queue, event)
           stale == rd.stale
           from == rd.rows
<1>1. s \in Subscription /\ Mode(s) /\ Told(s, rd, v) /\ NoRows \in Rows
  BY DEF Sound, Rows
<1>2. ~s.dirty
  BY <1>1 DEF Mode, Placed, Pending
<1>3. CASE rows = s.rows
  <2>1. t = s
    BY <1>3 DEF Moves
  <2>2. Sound(s, rd, v + 1)
    BY ToldLater
  <2> QED BY <1>2, <1>3, <2>1, <2>2 DEF Becomes, SamePlace
<1>4. CASE rows # s.rows
  <2>1. t = IF offer.offered THEN [ApplyDelta(s, rows) EXCEPT !.queue = offer.queue] ELSE NoSub
    BY <1>4 DEF Moves
  <2>2. DeltaFor(event, v, old, rows)
    BY DEF DeltaFor
  <2>3. Shows(s.queue, Rows, v, from, old) /\ old \in Rows /\ from \in Rows
    BY <1>1 DEF Told, Subscription
  <2> HIDE DEF event, old, from, stale
  <2>4. OfferShows(offer, Rows, v + 1, from, stale, rows)
    BY <1>1, <2>2, <2>3, OfferDeltaShows
  <2> HIDE DEF offer
  <2>5. CASE ~offer.offered
    BY <2>1, <2>5 DEF Becomes
  <2>6. CASE offer.offered
    <3> DEFINE next == offer.queue
    <3>1. Shows(next, Rows, v + 1, from, rows) /\ ~StaleShown(stale, next.events)
      BY <2>4, <2>6 DEF OfferShows
    <3> HIDE DEF next
    <3>2. next \in Queues(Rows) /\ v + 1 \in Nat
      BY <3>1, OrderedIsQueue DEF Shows
    <3>3. Requeues(s, t, rows, FALSE, next)
      <4>1. s \in [query : Queries, build : Keys \cup {NoKey}, plan : Keys \cup {NoKey},
                   view : Queries \cup {NoQuery}, skipped : BOOLEAN, fallback : BOOLEAN,
                   dirty : BOOLEAN, rows : Rows, queue : Queues(Rows)]
        BY <1>1 DEF Subscription
      <4> QED BY <1>2, <2>1, <2>6, <4>1 DEF next, Requeues, ApplyDelta
    <3>4. IsRequeued(s, t, rows, FALSE, next)
      BY <1>1, <3>2, <3>3, Requeued
    <3>5. /\ t \in Subscription /\ SamePlace(s, t) /\ t # NoSub
          /\ t.rows = rows /\ t.dirty = FALSE /\ t.queue = next
      BY <3>4 DEF IsRequeued
    <3>6. Told(t, rd, v + 1)
      BY <3>1, <3>5 DEF Told, from, stale
    <3>7. Mode(t)
      BY <1>1, <3>5 DEF Mode, Placed, SamePlace
    <3> QED BY <3>5, <3>6, <3>7 DEF Becomes, Sound
  <2> QED BY <2>5, <2>6
<1> QED BY <1>3, <1>4

(* A fresh snapshot ends the staleness, or the subscription. *)
LEMMA RefreshedTold ==
  ASSUME version \in Nat, NEW f \in Subscription, Placed(f), NEW rd, rd.rows \in Rows,
         Shows(f.queue, Rows, version, rd.rows, f.rows), NEW rows \in Rows,
         NEW t, t = Refreshed(f, rows)
  PROVE  Becomes(f, t, rd, version) /\ (t # NoSub => t.rows = rows /\ ~t.dirty)
<1> DEFINE event == SnapshotEvent(version, rows)
           offer == OfferFull(f.queue, event)
<1>1. NoRows \in Rows
  BY DEF Rows
<1>2. event.type = "snapshot" /\ event.seq = 0 /\ event.from = version /\ event.to = version
      /\ event.ops = << >> /\ event.rows = rows
  BY DEF SnapshotEvent
<1>3. event \in Upto(Rows, version)
  <2> DEFINE Code == Seq(Operations(Rows))
  <2>1. << >> \in Code
    OBVIOUS
  <2> HIDE DEF Code
  <2>2. event \in [type : {"delta", "snapshot", "status"}, seq : Nat, from : Nat, to : Nat,
                   ops : Code, rows : Rows]
    BY <2>1 DEF SnapshotEvent
  <2>3. event \in Events(Rows)
    BY <1>2, <2>2 DEF Events, Code
  <2> QED BY <1>2, <2>3 DEF Upto
<1>4. t = IF offer.offered THEN [ApplySnapshot(f, rows) EXCEPT !.queue = offer.queue] ELSE NoSub
  BY DEF Refreshed
<1> DEFINE stale == rd.stale
           from == rd.rows
           top == version
           was == f.rows
<1>5. from \in Rows /\ top \in Nat /\ Shows(f.queue, Rows, top, from, was)
  OBVIOUS
<1> HIDE DEF event, from, stale, top, was
<1>6. OfferFullIs(offer, Rows, top, from, stale, event, was)
  BY <1>1, <1>2, <1>3, <1>5, OfferFullShows DEF top
<1> HIDE DEF offer
<1>7. CASE ~offer.offered
  BY <1>4, <1>7 DEF Becomes
<1>8. CASE offer.offered
  <2> DEFINE next == offer.queue
  <2>1. Shows(next, Rows, top, from, rows) /\ ~StaleShown(stale, next.events)
    BY <1>2, <1>6, <1>8 DEF OfferFullIs
  <2> HIDE DEF next
  <2>2. next \in Queues(Rows)
    BY <1>5, <2>1, OrderedIsQueue DEF Shows
  <2>3. Requeues(f, t, rows, FALSE, next)
    <3>1. f \in [query : Queries, build : Keys \cup {NoKey}, plan : Keys \cup {NoKey},
                 view : Queries \cup {NoQuery}, skipped : BOOLEAN, fallback : BOOLEAN,
                 dirty : BOOLEAN, rows : Rows, queue : Queues(Rows)]
      BY DEF Subscription
    <3> QED BY <1>4, <1>8, <3>1 DEF next, Requeues, ApplySnapshot
  <2>4. IsRequeued(f, t, rows, FALSE, next)
    BY <2>2, <2>3, Requeued
  <2>5. /\ t \in Subscription /\ SamePlace(f, t) /\ t # NoSub
        /\ t.rows = rows /\ t.dirty = FALSE /\ t.queue = next
    BY <2>4 DEF IsRequeued
  <2>6. Told(t, rd, version)
    BY <2>1, <2>5 DEF Told, from, stale, top
  <2>7. Mode(t)
    BY <2>5 DEF Mode, Placed, SamePlace
  <2> QED BY <2>5, <2>6, <2>7 DEF Becomes, Sound
<1> QED BY <1>7, <1>8

-----------------------------------------------------------------------------
(* The rows of a query *)

(* The newest of some versions, of those up to v. *)
Newest(S, v) == Max({c \in S : c <= v} \cup {0})

(* The newest change up to a version is a version. *)
LEMMA NewestType ==
  ASSUME NEW n \in Nat, NEW S \in SUBSET (1 .. n), NEW v \in Nat
  PROVE  Newest(S, v) \in Nat
<1> DEFINE T == {c \in S : c <= v} \cup {0}
<1>1. T \in SUBSET (0 .. n) /\ T # {}
  <2>1. (\A c \in S : c \in 0 .. n) /\ 0 \in 0 .. n
    OBVIOUS
  <2>2. 0 \in T /\ \A c \in T : c \in S \/ c = 0
    BY Zenon
  <2> HIDE DEF T
  <2>3. \A c \in T : c \in 0 .. n
    BY <2>1, <2>2, Zenon
  <2> QED BY <2>2, <2>3, Zenon
<1> HIDE DEF T
<1>2. Max(T) \in T
  BY <1>1, MaxIsGreatest
<1>3. Max(T) \in 0 .. n
  BY <1>1, <1>2, Zenon
<1>4. Max(T) \in Nat
  BY <1>3
<1> QED BY <1>4 DEF Newest, T

(* Later versions have no newer one, until there is one. *)
LEMMA NewestLater ==
  ASSUME NEW n \in Nat, NEW S \in SUBSET (1 .. n), NEW v \in Nat, n <= v
  PROVE  /\ Newest(S, v) = Newest(S, n)
         /\ n < v => Newest(S \cup {v}, v) = v
<1>1. {c \in S : c <= v} = {c \in S : c <= n}
  <2>1. \A c \in S : c <= v /\ c <= n
    OBVIOUS
  <2> QED BY <2>1, Zenon
<1>2. Newest(S, v) = Newest(S, n)
  BY <1>1 DEF Newest
<1>3. ASSUME n < v PROVE Newest(S \cup {v}, v) = v
  <2> DEFINE T == {c \in S \cup {v} : c <= v} \cup {0}
  <2>1. T \in SUBSET (0 .. v) /\ T # {} /\ v \in T
    <3>1. (\A c \in S : c \in 0 .. v) /\ v <= v
      BY <1>3
    <3>2. 0 \in T /\ v \in T /\ \A c \in T : c \in S \/ c = v \/ c = 0
      BY <3>1, Zenon
    <3> HIDE DEF T
    <3> QED BY <3>1, <3>2
  <2> HIDE DEF T
  <2>2. Max(T) \in T /\ \A c \in T : c <= Max(T)
    BY <2>1, MaxIsGreatest
  <2>3. Max(T) \in 0 .. v /\ v <= Max(T)
    BY <2>1, <2>2
  <2>4. Max(T) = v
    BY <2>3
  <2> QED BY <2>4 DEF Newest, T
<1> QED BY <1>2, <1>3

(* The rows of a query are rows, those of its newest change. *)
LEMMA RowsOfType ==
  ASSUME Core, NEW q \in Queries, NEW v \in Nat
  PROVE  RowsOf(q, v) \in Rows /\ RowsOf(q, v) = <<q, Newest(changed[q], v)>>
<1>1. RowsOf(q, v) = <<q, Newest(changed[q], v)>>
  BY DEF RowsOf, Newest
<1>2. changed[q] \in SUBSET (1 .. version) /\ version \in Nat
  BY DEF Core
<1>3. Newest(changed[q], v) \in Nat
  BY <1>2, NewestType
<1> QED BY <1>1, <1>3 DEF Rows

-----------------------------------------------------------------------------
(* The lifecycle of a subscription *)

(* The snapshot of a new subscription. *)
IsFresh(f, q, rd) ==
  /\ f \in Subscription /\ f.query = q /\ f.build = NoKey /\ f.plan = NoKey /\ f.view = NoQuery
  /\ ~f.skipped /\ ~f.fallback /\ ~f.dirty /\ f.rows = RowsOf(q, version)
  /\ Told(f, rd, version)

(* A new subscription and its reader are sound: the first snapshot tells the *)
(* rows.                                                                     *)
LEMMA FreshSound ==
  ASSUME Core, NEW q \in Queries, NEW rd, rd = [rows |-> NoRows, stale |-> FALSE]
  PROVE  IsFresh(Fresh(q), q, rd)
<1> DEFINE rows == RowsOf(q, version)
           event == SnapshotEvent(version, rows)
           queue == [EmptyQueue EXCEPT !.events = <<event>>]
           f == Fresh(q)
<1>1. version \in Nat /\ rows \in Rows /\ NoRows \in Rows
  BY RowsOfType DEF Core, Rows
<1>2. /\ f.query = q /\ f.build = NoKey /\ f.plan = NoKey /\ f.view = NoQuery /\ f.skipped = FALSE
      /\ f.fallback = FALSE /\ f.dirty = FALSE /\ f.rows = rows /\ f.queue = queue
      /\ f = [query |-> f.query, build |-> f.build, plan |-> f.plan, view |-> f.view,
              skipped |-> f.skipped, fallback |-> f.fallback, dirty |-> f.dirty,
              rows |-> f.rows, queue |-> f.queue]
  BY DEF Fresh
<1>3. event.type = "snapshot" /\ event.seq = 0 /\ event.from = version /\ event.to = version
      /\ event.ops = << >> /\ event.rows = rows
  BY DEF SnapshotEvent
<1> HIDE DEF rows
<1>4. event \in Upto(Rows, version)
  <2> DEFINE Code == Seq(Operations(Rows))
  <2>1. << >> \in Code
    OBVIOUS
  <2> HIDE DEF Code
  <2>2. event \in [type : {"delta", "snapshot", "status"}, seq : Nat, from : Nat, to : Nat,
                   ops : Code, rows : Rows]
    BY <1>1, <2>1 DEF SnapshotEvent
  <2>3. event \in Events(Rows)
    BY <1>1, <1>3, <2>2 DEF Events, Code
  <2> QED BY <1>1, <1>3, <2>3 DEF Upto
<1> HIDE DEF event
<1>5. queue = [events |-> <<event>>, pending |-> 0, lag |-> 0]
  BY DEF EmptyQueue
<1> DEFINE E == Upto(Rows, version)
<1>6. E \subseteq Events(Rows)
  BY <1>1, UptoLater
<1> HIDE DEF E, queue
<1>7. queue \in [events : Seq(E), pending : Nat, lag : Nat]
  BY <1>4, <1>5 DEF E
<1>8. Ordered(queue, Rows, version)
  BY <1>5, <1>7 DEF Ordered, E
<1>9. RowsShown(NoRows, <<event>>) = rows
  <2> DEFINE F == Events(Rows)
             none == << >>
  <2>1. none \in Seq(F) /\ event \in F /\ Append(none, event) = <<event>>
    BY <1>4, <1>6 DEF E
  <2> HIDE DEF F, none
  <2>2. RowsShown(NoRows, Append(none, event)) = RowsTaken(RowsShown(NoRows, none), event)
    BY <1>1, <2>1, ShownAppended DEF F
  <2> QED BY <1>3, <2>1, <2>2 DEF RowsTaken
<1>10. ~StaleShown(FALSE, <<event>>)
  BY <1>3 DEF StaleShown, Last
<1>11. Told(f, rd, version)
  <2>1. rd.rows = NoRows /\ rd.stale = FALSE
    OBVIOUS
  <2>2. queue.events = <<event>>
    BY <1>5
  <2>3. Shows(queue, Rows, version, rd.rows, rows)
    BY <1>8, <1>9, <2>1, <2>2 DEF Shows
  <2>4. f.queue = queue /\ f.rows = rows /\ f.dirty = FALSE
    BY <1>2
  <2> HIDE DEF f
  <2> QED BY <1>10, <2>1, <2>2, <2>3, <2>4 DEF Told
<1>12. queue \in Queues(Rows)
  BY <1>1, <1>8, OrderedIsQueue
<1>13. f \in Subscription
  <2> HIDE DEF f
  <2> QED BY <1>1, <1>2, <1>12 DEF Subscription
<1> QED BY <1>2, <1>11, <1>13 DEF IsFresh, rows

(* The marks of the registry, on a subscription without a plan. *)
Marks(s, t, build, plan, view, skipped, fallback) ==
  t = [s EXCEPT !.build = build, !.plan = plan, !.view = view, !.skipped = skipped,
                !.fallback = fallback]

IsMarked(s, t, build, plan, view, skipped, fallback) ==
  /\ t \in Subscription /\ t # NoSub
  /\ t.build = build /\ t.plan = plan /\ t.view = view
  /\ t.skipped = skipped /\ t.fallback = fallback
  /\ t.query = s.query /\ t.dirty = s.dirty /\ t.rows = s.rows /\ t.queue = s.queue

(* A mark of the registry changes the fields it names and keeps types, rows *)
(* and queue.                                                               *)
LEMMA Marked ==
  ASSUME NEW s \in Subscription, NEW build \in Keys \cup {NoKey}, NEW plan \in Keys \cup {NoKey},
         NEW view \in Queries \cup {NoQuery}, NEW skipped \in BOOLEAN, NEW fallback \in BOOLEAN,
         NEW t, Marks(s, t, build, plan, view, skipped, fallback)
  PROVE  IsMarked(s, t, build, plan, view, skipped, fallback)
<1>1. s = [query |-> s.query, build |-> s.build, plan |-> s.plan, view |-> s.view,
           skipped |-> s.skipped, fallback |-> s.fallback, dirty |-> s.dirty,
           rows |-> s.rows, queue |-> s.queue]
  BY DEF Subscription
<1>2. t = [query |-> s.query, build |-> build, plan |-> plan, view |-> view,
           skipped |-> skipped, fallback |-> fallback, dirty |-> s.dirty,
           rows |-> s.rows, queue |-> s.queue]
  BY <1>1 DEF Marks
<1>3. t \in Subscription
  BY <1>1, <1>2 DEF Subscription
<1> QED BY <1>2, <1>3, NoSubscription DEF IsMarked

(* The four marks of the registry, each by the fields it sets. *)
LEMMA MarksAre ==
  ASSUME NEW s \in Subscription, NEW k, NEW q
  PROVE  /\ Marks(s, MarkQueued(s, k), k, s.plan, s.view, s.skipped, s.fallback)
         /\ Marks(s, MarkSkipped(s), NoKey, s.plan, s.view, TRUE, s.fallback)
         /\ Marks(s, MarkFallback(s), NoKey, s.plan, s.view, s.skipped, TRUE)
         /\ Marks(s, Activated(s, k, q), NoKey, k, q, FALSE, FALSE)
<1>1. s = [query |-> s.query, build |-> s.build, plan |-> s.plan, view |-> s.view,
           skipped |-> s.skipped, fallback |-> s.fallback, dirty |-> s.dirty,
           rows |-> s.rows, queue |-> s.queue]
  BY DEF Subscription
<1> QED BY <1>1 DEF Marks, MarkQueued, MarkSkipped, MarkFallback, Activated

(* What becomes of a waiter whose build is over, with the rows it gets if it *)
(* was stale.                                                               *)
Ends(s, t, rd, plan, rows) ==
  t # NoSub =>
    /\ Sound(t, rd, version) /\ t.build = NoKey /\ t.plan = plan /\ t.query = s.query
    /\ ~t.dirty /\ t.rows = IF s.dirty THEN rows ELSE s.rows

(* It is marked, and refreshed if it is stale. *)
LEMMA WaiterEnds ==
  ASSUME version \in Nat, NEW s, NEW rd, rd.rows \in Rows, Sound(s, rd, version),
         NEW plan \in Keys \cup {NoKey}, NEW view \in Queries \cup {NoQuery}, NEW fallback \in BOOLEAN,
         NEW f, IsMarked(s, f, NoKey, plan, view, FALSE, fallback), Placed(f),
         NEW rows \in Rows, NEW t, t = IF s.dirty THEN Refreshed(f, rows) ELSE f
  PROVE  Ends(s, t, rd, plan, rows)
<1>1. s \in Subscription /\ Told(s, rd, version)
  BY DEF Sound
<1>2. /\ f \in Subscription /\ f # NoSub /\ f.build = NoKey /\ f.plan = plan
      /\ f.query = s.query /\ f.dirty = s.dirty /\ f.rows = s.rows /\ f.queue = s.queue
  BY DEF IsMarked
<1>3. Told(f, rd, version)
  BY <1>1, <1>2 DEF Told
<1>4. CASE s.dirty
  <2>1. Shows(f.queue, Rows, version, rd.rows, f.rows) /\ t = Refreshed(f, rows)
    BY <1>3, <1>4 DEF Told
  <2>2. Becomes(f, t, rd, version) /\ (t # NoSub => t.rows = rows /\ ~t.dirty)
    BY <1>2, <2>1, RefreshedTold
  <2> QED BY <1>2, <1>4, <2>2 DEF Ends, Becomes, SamePlace
<1>5. CASE ~s.dirty
  <2>1. t = f /\ Mode(f)
    BY <1>2, <1>5 DEF Mode
  <2> QED BY <1>2, <1>3, <1>5, <2>1 DEF Ends, Sound
<1> QED BY <1>4, <1>5

(* A waiting subscription whose build is discarded is told its rows anew, or *)
(* ends.                                                                     *)
LEMMA WaiterDiscarded ==
  ASSUME Core, NEW s, NEW rd, rd.rows \in Rows, Sound(s, rd, version), s.build # NoKey
  PROVE  Ends(s, Discarded(s), rd, NoKey, RowsOf(s.query, version))
<1> DEFINE f == MarkFallback(s)
           rows == RowsOf(s.query, version)
           t == Discarded(s)
<1>1. /\ s \in Subscription /\ Placed(s) /\ version \in Nat
      /\ s.query \in Queries /\ s.skipped \in BOOLEAN /\ s.fallback \in BOOLEAN
      /\ s.view \in Queries \cup {NoQuery}
  BY DEF Sound, Mode, Core, Subscription
<1>2. s.plan = NoKey /\ s.view = NoQuery /\ s.skipped = FALSE /\ s.fallback = FALSE
  BY <1>1 DEF Placed
<1>3. Marks(s, f, NoKey, NoKey, NoQuery, FALSE, TRUE)
  BY <1>1, <1>2, MarksAre
<1>4. t = IF s.dirty THEN Refreshed(f, rows) ELSE f
  BY DEF Discarded
<1>5. rows \in Rows
  BY <1>1, RowsOfType
<1> HIDE DEF f, rows, t
<1>6. IsMarked(s, f, NoKey, NoKey, NoQuery, FALSE, TRUE)
  BY <1>1, <1>3, Marked
<1>7. Placed(f)
  BY <1>6 DEF IsMarked, Placed
<1>8. Ends(s, t, rd, NoKey, rows)
  BY <1>1, <1>4, <1>5, <1>6, <1>7, WaiterEnds
<1> QED BY <1>8 DEF t, rows

(* A waiting subscription whose build is installed is told the rows of the *)
(* plan, or ends.                                                          *)
LEMMA WaiterInstalled ==
  ASSUME Core, NEW s, NEW rd, rd.rows \in Rows, Sound(s, rd, version),
         NEW q \in Queries, NEW from \in Nat, NEW k \in Keys, k = KeyOf[q], s.build = k
  PROVE  Ends(s, Installed(s, k, q, from), rd, k, RowsOf(q, PlanVersion(from)))
<1> DEFINE f == Activated(s, k, q)
           rows == RowsOf(q, PlanVersion(from))
           t == Installed(s, k, q, from)
<1>1. /\ s \in Subscription /\ Placed(s) /\ version \in Nat /\ k # NoKey
  BY NoKeyIsNone DEF Sound, Mode, Core
<1>2. Marks(s, f, NoKey, k, q, FALSE, FALSE)
  BY <1>1, MarksAre
<1>3. t = IF s.dirty THEN Refreshed(f, rows) ELSE f
  BY DEF Installed
<1>4. rows \in Rows
  BY <1>1, RowsOfType DEF PlanVersion
<1> HIDE DEF f, rows, t
<1>5. IsMarked(s, f, NoKey, k, q, FALSE, FALSE)
  BY <1>1, <1>2, Marked
<1>6. q # NoQuery /\ k = KeyOf[s.query]
  BY <1>1, ActivePlanConstants DEF Placed
<1>7. Placed(f)
  BY <1>1, <1>5, <1>6 DEF IsMarked, Placed
<1>8. Ends(s, t, rd, k, rows)
  BY <1>1, <1>3, <1>4, <1>5, <1>7, WaiterEnds
<1> QED BY <1>8 DEF t, rows

-----------------------------------------------------------------------------
(* The books of steps that concern many subscriptions *)

(* Every plan applies a mutation: the books do not mind. *)
LEMMA AppliedBooked ==
  ASSUME NEW subs, Books(subs, plans, builds), Room(plans, builds), PlansCurrent,
         version \in Nat, NEW n \in Nat, NEW ps, ps = Applied(plans, n)
  PROVE  /\ Books(subs, ps, builds) /\ Room(ps, builds)
         /\ \A k \in DOMAIN ps : ps[k].at = version + n
         /\ DOMAIN ps = DOMAIN plans
<1>1. /\ DOMAIN plans \subseteq Keys /\ DOMAIN builds \subseteq Keys /\ IsFiniteSet(Registered(subs))
      /\ \A k \in Keys : KeyBooked(subs, plans, builds, k)
  BY DEF Books
<1>2. DOMAIN ps = DOMAIN plans
  BY DEF Applied
<1>3. ASSUME NEW k \in DOMAIN plans
      PROVE  ps[k] \in Plan /\ ps[k].at = version + n /\ ps[k].subscribers = plans[k].subscribers
  <2>1. plans[k] \in Plan /\ plans[k].at = version
    BY <1>1 DEF KeyBooked, PlanBooked, PlansCurrent
  <2>2. ps[k] = [plans[k] EXCEPT !.at = version + n]
    BY <2>1 DEF Applied
  <2> QED BY <2>1, <2>2 DEF Plan
<1>4. ASSUME NEW k \in Keys PROVE KeyBooked(subs, ps, builds, k)
  <2>1. PlanBooked(subs, ps, k)
    BY <1>1, <1>2, <1>3 DEF KeyBooked, PlanBooked
  <2> QED BY <1>1, <2>1 DEF KeyBooked
<1>5. Books(subs, ps, builds)
  BY <1>1, <1>2, <1>4 DEF Books
<1>6. Room(ps, builds)
  BY <1>2 DEF Room
<1> QED BY <1>2, <1>3, <1>5, <1>6

(* What is left of the builds is remembered. *)
LEMMA RememberedLeft ==
  ASSUME NEW bs, NEW left, BuildsLeft(bs, left), NEW queue, NEW fibers,
         Remembered(bs, queue, fibers)
  PROVE  Remembered(left, queue, fibers)
BY DEF BuildsLeft, Remembered

(* A fan-out tells each subscription, or removes it. *)
LEMMA TellKeeps ==
  ASSUME IInv, NEW n \in Nat, NEW told, Tell(told, Applied(plans, n)),
         told \in [Requests -> {NoSub} \cup Subscription],
         \A r \in Requests : IF sub[r] = NoSub THEN told[r] = NoSub
                             ELSE Becomes(sub[r], told[r], reader[r], version + n)
  PROVE  /\ sub' = told
         /\ Books(told, plans', builds') /\ Room(plans', builds')
         /\ SubsSound(told, reader, version + n)
         /\ Remembered(builds', buildQueue, builder)
         /\ \A k \in DOMAIN plans' : plans'[k].at = version + n
<1> DEFINE R == {r \in Subscribed : told[r] = NoSub}
           ps == Applied(plans, n)
           qs == ReleasePlans(ps, R)
           cs == ReleaseBuilds(builds, R)
<1>1. /\ version \in Nat /\ Books(sub, plans, builds) /\ Room(plans, builds) /\ PlansCurrent
      /\ Remembered(builds, buildQueue, builder)
  BY DEF IInv, Core
<1>2. sub' = told /\ plans' = qs /\ builds' = cs
  BY DEF Tell
<1>3. R \in SUBSET Requests /\ \A r \in R : told[r] = NoSub
  BY DEF Subscribed
<1>4. \A r \in Requests \ R : SameHold(sub[r], told[r])
  BY DEF Subscribed, SameHold, Becomes, SamePlace
<1>5. /\ Books(sub, ps, builds) /\ Room(ps, builds)
      /\ \A k \in DOMAIN ps : ps[k].at = version + n
  BY <1>1, AppliedBooked
<1> HIDE DEF R, ps
<1>6. /\ Books(told, qs, cs) /\ Room(qs, cs) /\ PlansLeft(ps, qs) /\ BuildsLeft(builds, cs)
  BY <1>3, <1>4, <1>5, ReleaseBooked
<1> HIDE DEF qs, cs
<1>7. Remembered(cs, buildQueue, builder)
  BY <1>1, <1>6, RememberedLeft
<1>8. \A k \in DOMAIN qs : qs[k].at = version + n
  BY <1>5, <1>6 DEF PlansLeft
<1>9. SubsSound(told, reader, version + n)
  BY DEF SubsSound, Becomes
<1> QED BY <1>2, <1>6, <1>7, <1>8, <1>9

(* The rows of a query after a step that changes them, or does not. *)
LEMMA RowsNext ==
  ASSUME Core, NEW w \in Nat, version <= w, version' = w, NEW q \in Queries
  PROVE  /\ changed'[q] = changed[q] =>
              RowsOf(q, version)' = RowsOf(q, version) /\ RowsOf(q, w) = RowsOf(q, version)
         /\ version < w /\ changed'[q] = changed[q] \cup {w} => RowsOf(q, version)' = <<q, w>>
<1> DEFINE S == changed[q]
           n == version
<1>1. S \in SUBSET (1 .. n) /\ n \in Nat /\ n <= w
  BY DEF Core
<1>2. /\ RowsOf(q, version) = <<q, Newest(S, n)>> /\ RowsOf(q, w) = <<q, Newest(S, w)>>
      /\ RowsOf(q, version)' = <<q, Newest(changed'[q], w)>>
  BY DEF RowsOf, Newest
<1> HIDE DEF S, n
<1>3. Newest(S, w) = Newest(S, n) /\ (n < w => Newest(S \cup {w}, w) = w)
  BY <1>1, NewestLater
<1> QED BY <1>2, <1>3 DEF S, n

-----------------------------------------------------------------------------
(* Every step keeps the invariant *)

(* What a mutation makes of a subscription whose new rows would be `rows`. *)
HeardAs(s, t, relevant, rows) ==
  IF s.query \notin relevant THEN t = s
  ELSE IF Pending(s) THEN t = MarkedDirty(s, version + 1)
  ELSE Moves(s, t, version, rows)

(* It has the new rows if the mutation concerns it, unless it waits. *)
HeardIs(s, t, rd, relevant, rows) ==
  /\ Becomes(s, t, rd, version + 1)
  /\ t # NoSub /\ ~t.dirty =>
       ~s.dirty /\ t.rows = IF s.query \in relevant THEN rows ELSE s.rows

(* A subscription that hears a mutation is told the rows it changed, or ends. *)
LEMMA HeardTold ==
  ASSUME version \in Nat, NEW s, NEW rd, rd.rows \in Rows, Sound(s, rd, version),
         NEW relevant, NEW rows \in Rows, NEW t, HeardAs(s, t, relevant, rows)
  PROVE  HeardIs(s, t, rd, relevant, rows)
<1> DEFINE v == version
           w == v + 1
<1>1. v \in Nat /\ w \in Nat /\ v <= w /\ Sound(s, rd, v)
  OBVIOUS
<1>2. CASE s.query \notin relevant
  <2>1. t = s
    BY <1>2 DEF HeardAs
  <2>2. Sound(s, rd, w)
    <3> HIDE DEF w, v
    <3> QED BY <1>1, ToldLater
  <2> QED BY <1>2, <2>1, <2>2 DEF Becomes, SamePlace, HeardIs
<1>3. CASE s.query \in relevant /\ Pending(s)
  <2>1. t = MarkedDirty(s, w)
    BY <1>3 DEF HeardAs
  <2>2. Becomes(s, t, rd, w) /\ (t # NoSub => t.dirty)
    <3> HIDE DEF w, v
    <3> QED BY <1>1, <1>3, <2>1, DirtyTold
  <2> QED BY <2>2 DEF HeardIs
<1>4. CASE s.query \in relevant /\ ~Pending(s)
  <2>1. Moves(s, t, v, rows)
    BY <1>4 DEF HeardAs
  <2>2. Becomes(s, t, rd, v + 1) /\ (t # NoSub => t.rows = rows /\ ~t.dirty)
    <3> HIDE DEF w, v
    <3> QED BY <1>1, <1>4, <2>1, MovedTold
  <2>3. ~s.dirty
    BY <1>4 DEF Sound, Mode, Placed, Pending
  <2> QED BY <1>4, <2>2, <2>3 DEF HeardIs
<1> QED BY <1>2, <1>3, <1>4

(* The invariant holds at first. *)
LEMMA InitKeeps ==
  ASSUME Init
  PROVE  IInv
<1>1. Core
  <2>1. NoRows \in Rows
    BY DEF Rows
  <2>2. builder \in [Builders -> [phase : {"idle", "taken", "building"}, key : Keys \cup {NoKey},
                                  query : Queries \cup {NoQuery}, version : Nat]]
    BY DEF Init, Idle
  <2> QED BY <2>1, <2>2 DEF Init, Core
<1>2. DOMAIN plans = {} /\ DOMAIN builds = {} /\ \A r \in Requests : sub[r] = NoSub
  BY DEF Init
<1>3. Registered(sub) = {} /\ \A k : Users(sub, k) = {} /\ Waiting(sub, k) = {}
  BY <1>2 DEF Registered, Users, Waiting
<1>4. Books(sub, plans, builds)
  BY <1>2, <1>3, FS_EmptySet DEF Books, KeyBooked, PlanBooked, BuildBooked
<1>5. Room(plans, builds)
  <2>1. DOMAIN plans \cup DOMAIN builds = {}
    BY <1>2
  <2>2. IsFiniteSet({}) /\ Cardinality({}) = 0 /\ MaxActivePlans \in Nat
    BY FS_EmptySet, ActivePlanConstants
  <2> QED BY <2>1, <2>2 DEF Room
<1>6. SubsSound(sub, reader, version) /\ ServesOwnQuery
  BY <1>2 DEF SubsSound, ServesOwnQuery, Subscribed
<1>7. FibersSound(builder)
  BY DEF Init, Idle, FibersSound
<1>8. Remembered(builds, buildQueue, builder) /\ PlansCurrent
  BY <1>2 DEF Remembered, PlansCurrent
<1> QED BY <1>1, <1>4, <1>5, <1>6, <1>7, <1>8 DEF IInv

(* One mutation and its fan-out to plans, waiting and direct subscriptions *)
(* (fanoutUntraced).                                                       *)
LEMMA MutateKeeps ==
  ASSUME IInv, NEW relevant \in SUBSET Queries, NEW hits \in SUBSET relevant, Mutate(relevant, hits)
  PROVE  IInv'
<1> DEFINE v == version + 1
           After(q) == IF q \in hits THEN <<q, v>> ELSE RowsOf(q, v)
           applied == Applied(plans, 1)
           ViewRows(s) == IF s.view \notin hits THEN s.rows
                          ELSE IF applied[s.plan].at = v THEN <<s.view, v>>
                          ELSE RowsOf(s.view, applied[s.plan].at)
           NewRows(s) == IF s.view = NoQuery THEN After(s.query) ELSE ViewRows(s)
<1>1. /\ Core /\ Books(sub, plans, builds) /\ Room(plans, builds) /\ PlansCurrent
      /\ SubsSound(sub, reader, version) /\ FibersSound(builder)
      /\ OnePerKey => ServesOwnQuery
  BY DEF IInv
<1>2. version \in Nat /\ v \in Nat /\ version < v
  BY <1>1 DEF Core
<1>3. /\ version' = v
      /\ changed' = [q \in Queries |-> IF q \in hits THEN changed[q] \cup {v} ELSE changed[q]]
      /\ UNCHANGED <<reader, buildQueue, builder, asked, open>>
  BY DEF Mutate
<1>4. PICK told : /\ Tell(told, applied) /\ told \in [Requests -> {told[r] : r \in Requests}]
                  /\ \A r \in Requests :
                       IF sub[r] = NoSub THEN told[r] = NoSub
                       ELSE HeardAs(sub[r], told[r], relevant, NewRows(sub[r]))
  <2> DEFINE Moved(s, rows) ==
               LET offer == OfferDelta(s.queue, DeltaEvent(version, v,
                                                           <<[base |-> s.rows, rows |-> rows]>>))
               IN  IF rows = s.rows THEN s
                   ELSE IF offer.offered THEN [ApplyDelta(s, rows) EXCEPT !.queue = offer.queue]
                   ELSE NoSub
             Heard(s) == IF s = NoSub \/ s.query \notin relevant THEN s
                         ELSE IF Pending(s) THEN MarkedDirty(s, v)
                         ELSE Moved(s, NewRows(s))
             all == [r \in Requests |-> IF sub[r] = NoSub THEN NoSub ELSE Heard(sub[r])]
  <2>1. Tell(all, applied)
    BY DEF Mutate
  <2>2. ASSUME NEW r \in Requests, sub[r] # NoSub
        PROVE  HeardAs(sub[r], all[r], relevant, NewRows(sub[r]))
    <3>1. all[r] = Heard(sub[r])
      BY <2>2
    <3> HIDE DEF all, NewRows
    <3> QED BY <2>2, <3>1 DEF HeardAs, Moves
  <2>3. all \in [Requests -> {all[r] : r \in Requests}]
    OBVIOUS
  <2> HIDE DEF Heard
  <2>4. \A r \in Requests : sub[r] = NoSub => all[r] = NoSub
    OBVIOUS
  <2> HIDE DEF all, applied, NewRows
  <2> QED BY <2>1, <2>2, <2>3, <2>4
<1>5. \A k \in DOMAIN applied : applied[k].at = v
  BY <1>1, <1>2, AppliedBooked
<1>6. ASSUME NEW q \in Queries
      PROVE  /\ q \in hits => RowsOf(q, version)' = <<q, v>> /\ <<q, v>> \in Rows
             /\ q \notin hits => RowsOf(q, version)' = RowsOf(q, version) /\ RowsOf(q, v) = RowsOf(q, version)
             /\ After(q) = RowsOf(q, version)' /\ After(q) \in Rows
  <2>1. IF q \in hits THEN changed'[q] = changed[q] \cup {v} ELSE changed'[q] = changed[q]
    BY <1>3
  <2> HIDE DEF v
  <2>2. /\ changed'[q] = changed[q] =>
             RowsOf(q, version)' = RowsOf(q, version) /\ RowsOf(q, v) = RowsOf(q, version)
        /\ changed'[q] = changed[q] \cup {v} => RowsOf(q, version)' = <<q, v>>
    BY <1>1, <1>2, <1>3, RowsNext
  <2>3. <<q, v>> \in Rows
    BY <1>2 DEF Rows
  <2>4. RowsOf(q, version) \in Rows
    BY <1>1, <1>2, RowsOfType
  <2> QED BY <2>1, <2>2, <2>3, <2>4
<1>7. ASSUME NEW r \in Requests, sub[r] # NoSub
      PROVE  /\ reader[r].rows \in Rows /\ Sound(sub[r], reader[r], version)
             /\ NewRows(sub[r]) \in Rows
             /\ sub[r].query \in Queries /\ Placed(sub[r])
             /\ sub[r].view # NoQuery =>
                  NewRows(sub[r]) = IF sub[r].view \in hits THEN <<sub[r].view, v>> ELSE sub[r].rows
  <2> DEFINE s == sub[r]
  <2>1. Sound(s, reader[r], version) /\ reader[r].rows \in Rows
    BY <1>1, <1>7 DEF SubsSound, Core
  <2>2. s \in Subscription /\ Placed(s)
    BY <2>1 DEF Sound, Mode
  <2>3. s.query \in Queries /\ s.rows \in Rows /\ s.view \in Queries \cup {NoQuery}
        /\ s.plan \in Keys \cup {NoKey}
    BY <2>2 DEF Subscription
  <2>4. s.view # NoQuery => s.plan \in DOMAIN applied
    <3>1. s.view # NoQuery => s.plan \in Keys
      BY <2>2, <2>3 DEF Placed
    <3>2. s.view # NoQuery => r \in Users(sub, s.plan)
      BY <1>7 DEF Users
    <3>3. s.view # NoQuery => s.plan \in DOMAIN plans
      BY <1>1, <3>1, <3>2 DEF Books, KeyBooked, PlanBooked
    <3> QED BY <3>3 DEF Applied
  <2>5. s.view # NoQuery => NewRows(s) = IF s.view \in hits THEN <<s.view, v>> ELSE s.rows
    <3> HIDE DEF applied, v
    <3> QED BY <1>5, <2>4
  <2>6. NewRows(s) \in Rows
    <3>1. CASE s.view = NoQuery
      <4> HIDE DEF After
      <4> QED BY <1>6, <2>3, <3>1
    <3>2. CASE s.view # NoQuery
      <4> HIDE DEF NewRows
      <4> QED BY <1>6, <2>3, <2>5, <3>2
    <3> QED BY <3>1, <3>2
  <2> QED BY <2>1, <2>2, <2>3, <2>5, <2>6
<1>8. ASSUME NEW r \in Requests, sub[r] # NoSub
      PROVE  /\ Becomes(sub[r], told[r], reader[r], v)
             /\ told[r] # NoSub /\ ~told[r].dirty =>
                  /\ ~sub[r].dirty
                  /\ told[r].rows = IF sub[r].query \in relevant THEN NewRows(sub[r]) ELSE sub[r].rows
  <2> DEFINE s == sub[r]
             rd == reader[r]
             rows == NewRows(s)
             t == told[r]
  <2>1. /\ version \in Nat /\ rd.rows \in Rows /\ Sound(s, rd, version) /\ rows \in Rows
        /\ HeardAs(s, t, relevant, rows)
    <3> HIDE DEF NewRows
    <3> QED BY <1>2, <1>4, <1>7, <1>8
  <2> HIDE DEF NewRows, s, rd, rows, t
  <2>2. HeardIs(s, t, rd, relevant, rows)
    BY <2>1, HeardTold
  <2> QED BY <2>2 DEF s, rd, rows, t, HeardIs
<1> HIDE DEF applied, NewRows, After, ViewRows
<1>9. told \in [Requests -> {NoSub} \cup Subscription]
  <2>1. \A r \in Requests : told[r] \in {NoSub} \cup Subscription
    BY <1>4, <1>8 DEF Becomes, Sound
  <2> QED BY <1>4, <2>1
<1>10. /\ sub' = told /\ Books(told, plans', builds') /\ Room(plans', builds')
       /\ SubsSound(told, reader, v) /\ Remembered(builds', buildQueue, builder)
       /\ \A k \in DOMAIN plans' : plans'[k].at = v
  <2>1. \A r \in Requests : IF sub[r] = NoSub THEN told[r] = NoSub
                            ELSE Becomes(sub[r], told[r], reader[r], version + 1)
    BY <1>4, <1>8
  <2>2. Tell(told, Applied(plans, 1))
    BY <1>4 DEF applied
  <2> QED BY <1>9, <2>1, <2>2, TellKeeps
<1>11. Core'
  <2>1. changed' \in [Queries -> SUBSET (1 .. v)]
    <3>1. \A q \in Queries : changed[q] \subseteq 1 .. v /\ v \in 1 .. v
      BY <1>1, <1>2 DEF Core
    <3> HIDE DEF v
    <3> QED BY <1>3, <3>1
  <2> QED BY <1>1, <1>2, <1>3, <1>9, <1>10, <2>1 DEF Core
<1>12. ASSUME OnePerKey PROVE ServesOwnQuery'
  <2> SUFFICES ASSUME NEW r \in Requests, sub'[r] # NoSub, ~sub'[r].dirty,
                      NEW q, q = sub'[r].query
               PROVE  sub'[r].rows = RowsOf(q, version)'
    BY DEF ServesOwnQuery, Subscribed
  <2> DEFINE s == sub[r]
             t == told[r]
  <2>1. s # NoSub /\ t = sub'[r] /\ t # NoSub /\ ~t.dirty
    BY <1>4, <1>10
  <2>2. /\ t.query = s.query /\ s.query = q /\ ~s.dirty
        /\ t.rows = IF s.query \in relevant THEN NewRows(s) ELSE s.rows
    BY <1>8, <2>1 DEF Becomes, SamePlace
  <2>3. q \in Queries /\ Placed(s) /\ s \in Subscription
        /\ (s.view # NoQuery => NewRows(s) = IF s.view \in hits THEN <<s.view, v>> ELSE s.rows)
    BY <1>7, <2>1, <2>2 DEF Sound
  <2>4. s.rows = RowsOf(q, version)
    BY <1>1, <1>12, <2>1, <2>2 DEF ServesOwnQuery, Subscribed
  <2>5. s.view # NoQuery => s.view = q
    <3>1. s.view # NoQuery => s.view \in Queries
      BY <2>3 DEF Subscription
    <3> QED BY <1>12, <2>2, <2>3, <3>1, ActivePlanConstants DEF Placed, OnePerKey
  <2>6. s.view = NoQuery => NewRows(s) = After(q)
    BY <2>2 DEF NewRows
  <2>7. t.rows = RowsOf(q, version)'
    <3> HIDE DEF s, t, v
    <3> QED BY <1>6, <2>2, <2>3, <2>4, <2>5, <2>6
  <2> QED BY <2>1, <2>2, <2>7
<1>13. PlansCurrent'
  BY <1>3, <1>10 DEF PlansCurrent
<1>14. FibersSound(builder')
  BY <1>1, <1>3
<1>15. Remembered(builds', buildQueue', builder') /\ SubsSound(sub', reader', version')
  BY <1>3, <1>10
<1> QED BY <1>10, <1>11, <1>12, <1>13, <1>14, <1>15 DEF IInv

(* A batch fanned out to subscriptions that all wait *)
(* (fanoutPendingActivePlanBatch).                   *)
LEMMA MutateTogetherKeeps ==
  ASSUME IInv, NEW first \in SUBSET Queries, NEW second \in SUBSET Queries,
         MutateTogether(first, second)
  PROVE  IInv'
<1> DEFINE v == version + 2
           At(q, hits, w) == IF q \in hits THEN {w} ELSE {}
           told == [r \in Requests |-> MarkedDirtyForBatch(sub[r], first, second, v)]
<1>1. /\ Core /\ Books(sub, plans, builds) /\ Room(plans, builds) /\ PlansCurrent
      /\ SubsSound(sub, reader, version) /\ FibersSound(builder)
      /\ OnePerKey => ServesOwnQuery
  BY DEF IInv
<1>2. version \in Nat /\ v \in Nat /\ version < v /\ version <= v
  BY <1>1 DEF Core
<1>3. /\ version' = v /\ AllPending /\ Tell(told, Applied(plans, 2))
      /\ changed' = [q \in Queries |->
                       changed[q] \cup At(q, first, version + 1) \cup At(q, second, v)]
      /\ UNCHANGED <<reader, buildQueue, builder, asked, open>>
  BY DEF MutateTogether
<1>4. ASSUME NEW r \in Requests, sub[r] # NoSub
      PROVE  /\ Becomes(sub[r], told[r], reader[r], v)
             /\ told[r] # NoSub /\ ~told[r].dirty =>
                  told[r] = sub[r] /\ sub[r].query \notin first \cup second
  <2> DEFINE s == sub[r]
             rd == reader[r]
             t == told[r]
  <2>1. Sound(s, rd, version) /\ rd.rows \in Rows /\ Pending(s)
    BY <1>1, <1>3, <1>4 DEF SubsSound, Core, AllPending, Subscribed
  <2>2. t = IF s.query \in first \cup second THEN MarkedDirty(s, v) ELSE s
    BY <1>4 DEF MarkedDirtyForBatch
  <2>3. CASE s.query \in first \cup second
    <3>1. t = MarkedDirty(s, v)
      BY <2>2, <2>3
    <3> HIDE DEF s, rd, t, v
    <3>2. Becomes(s, t, rd, v) /\ (t # NoSub => t.dirty)
      BY <1>2, <2>1, <3>1, DirtyTold
    <3> QED BY <3>2 DEF s, rd, t
  <2>4. CASE s.query \notin first \cup second
    <3>1. t = s
      BY <2>2, <2>4
    <3> HIDE DEF s, rd, t, v
    <3>2. Sound(s, rd, v)
      BY <1>2, <2>1, ToldLater
    <3>3. Becomes(s, t, rd, v)
      BY <3>1, <3>2 DEF Becomes, SamePlace
    <3> QED BY <2>4, <3>1, <3>3 DEF s, rd, t
  <2> QED BY <2>3, <2>4
<1>5. \A r \in Requests : sub[r] = NoSub => told[r] = NoSub
  BY DEF MarkedDirtyForBatch
<1>6. told \in [Requests -> {NoSub} \cup Subscription]
  <2>1. \A r \in Requests : told[r] \in {NoSub} \cup Subscription
    BY <1>4, <1>5 DEF Becomes, Sound
  <2> QED BY <2>1
<1> HIDE DEF told
<1>7. /\ sub' = told /\ Books(told, plans', builds') /\ Room(plans', builds')
      /\ SubsSound(told, reader, v) /\ Remembered(builds', buildQueue, builder)
      /\ \A k \in DOMAIN plans' : plans'[k].at = v
  <2>1. \A r \in Requests : IF sub[r] = NoSub THEN told[r] = NoSub
                            ELSE Becomes(sub[r], told[r], reader[r], version + 2)
    BY <1>4, <1>5
  <2> QED BY <1>3, <1>6, <2>1, TellKeeps
<1>8. Core'
  <2>1. changed' \in [Queries -> SUBSET (1 .. v)]
    <3>1. \A q \in Queries : changed[q] \subseteq 1 .. v /\ v \in 1 .. v /\ version + 1 \in 1 .. v
      BY <1>1, <1>2 DEF Core
    <3> HIDE DEF v
    <3> QED BY <1>3, <3>1
  <2> QED BY <1>1, <1>2, <1>3, <1>6, <1>7, <2>1 DEF Core
<1>9. ASSUME OnePerKey PROVE ServesOwnQuery'
  <2> SUFFICES ASSUME NEW r \in Requests, sub'[r] # NoSub, ~sub'[r].dirty,
                      NEW q, q = sub'[r].query
               PROVE  sub'[r].rows = RowsOf(q, version)'
    BY DEF ServesOwnQuery, Subscribed
  <2>1. /\ sub[r] # NoSub /\ sub'[r] = sub[r] /\ q \notin first \cup second
        /\ sub[r] \in Subscription
    BY <1>1, <1>4, <1>5, <1>7 DEF Core
  <2>2. sub[r].rows = RowsOf(q, version) /\ q \in Queries
    BY <1>1, <1>9, <2>1 DEF ServesOwnQuery, Subscribed, Subscription
  <2>3. changed'[q] = changed[q]
    BY <1>3, <2>1, <2>2
  <2>4. RowsOf(q, version)' = RowsOf(q, version)
    <3> HIDE DEF v
    <3> QED BY <1>1, <1>2, <1>3, <2>2, <2>3, RowsNext
  <2> QED BY <2>1, <2>2, <2>4
<1>10. PlansCurrent'
  BY <1>3, <1>7 DEF PlansCurrent
<1>11. FibersSound(builder')
  BY <1>1, <1>3
<1>12. Remembered(builds', buildQueue', builder') /\ SubsSound(sub', reader', version')
  BY <1>3, <1>7
<1> QED BY <1>7, <1>8, <1>9, <1>10, <1>11, <1>12 DEF IInv

(* What a subscription that goes leaves behind. *)
Leaves(r, after, ps, bs) ==
  /\ Books(after, ps, bs) /\ Room(ps, bs)
  /\ Remembered(bs, buildQueue, builder)
  /\ \A k \in DOMAIN ps : ps[k].at = version
  /\ after[r] = NoSub /\ \A x \in Requests : x # r => after[x] = sub[x]

(* A subscription that leaves gives back its place in its plan or build. *)
LEMMA LeaveKeeps ==
  ASSUME IInv, NEW r \in Requests, NEW after, after = [sub EXCEPT ![r] = NoSub],
         NEW ps, ps = ReleasePlans(plans, {r}), NEW bs, bs = ReleaseBuilds(builds, {r})
  PROVE  Leaves(r, after, ps, bs)
<1>1. /\ Core /\ Books(sub, plans, builds) /\ Room(plans, builds) /\ PlansCurrent
      /\ Remembered(builds, buildQueue, builder)
  BY DEF IInv
<1>2. after[r] = NoSub /\ \A x \in Requests : x # r => after[x] = sub[x]
  BY <1>1 DEF Core
<1> DEFINE R == {r}
<1>3. R \in SUBSET Requests /\ (\A x \in R : after[x] = NoSub)
      /\ \A x \in Requests \ R : SameHold(sub[x], after[x])
  BY <1>2 DEF SameHold
<1>4. ps = ReleasePlans(plans, R) /\ bs = ReleaseBuilds(builds, R)
  OBVIOUS
<1> HIDE DEF R
<1>5. /\ Books(after, ReleasePlans(plans, R), ReleaseBuilds(builds, R))
      /\ Room(ReleasePlans(plans, R), ReleaseBuilds(builds, R))
      /\ PlansLeft(plans, ReleasePlans(plans, R)) /\ BuildsLeft(builds, ReleaseBuilds(builds, R))
  BY <1>1, <1>3, ReleaseBooked
<1>6. Books(after, ps, bs) /\ Room(ps, bs) /\ PlansLeft(plans, ps) /\ BuildsLeft(builds, bs)
  BY <1>4, <1>5
<1>7. Remembered(bs, buildQueue, builder)
  BY <1>1, <1>6, RememberedLeft
<1>8. \A k \in DOMAIN ps : ps[k].at = version
  BY <1>1, <1>6 DEF PlansLeft, PlansCurrent
<1> QED BY <1>2, <1>6, <1>7, <1>8 DEF Leaves

(* An unsubscribe or a finalizer. *)
LEMMA ReleaseKeeps ==
  ASSUME IInv, NEW r \in Requests, Release(r)
  PROVE  IInv'
<1>1. /\ Core /\ SubsSound(sub, reader, version) /\ FibersSound(builder)
      /\ OnePerKey => ServesOwnQuery
  BY DEF IInv
<1>2. /\ sub' = [sub EXCEPT ![r] = NoSub]
      /\ plans' = ReleasePlans(plans, {r}) /\ builds' = ReleaseBuilds(builds, {r})
      /\ UNCHANGED <<version, changed, reader, buildQueue, builder, asked, open>>
  BY DEF Release
<1>3. /\ Books(sub', plans', builds') /\ Room(plans', builds')
      /\ Remembered(builds', buildQueue, builder)
      /\ \A k \in DOMAIN plans' : plans'[k].at = version
      /\ sub'[r] = NoSub /\ \A x \in Requests : x # r => sub'[x] = sub[x]
  <2> DEFINE after == [sub EXCEPT ![r] = NoSub]
             ps == ReleasePlans(plans, {r})
             bs == ReleaseBuilds(builds, {r})
  <2>1. sub' = after /\ plans' = ps /\ builds' = bs
    BY <1>2
  <2>2. after = [sub EXCEPT ![r] = NoSub] /\ ps = ReleasePlans(plans, {r})
        /\ bs = ReleaseBuilds(builds, {r})
    OBVIOUS
  <2> HIDE DEF after, ps, bs
  <2>3. Leaves(r, after, ps, bs)
    BY <2>2, LeaveKeeps
  <2> QED BY <2>1, <2>3 DEF Leaves
<1>4. Core'
  BY <1>1, <1>2 DEF Core
<1>5. SubsSound(sub', reader', version')
  BY <1>1, <1>2, <1>3 DEF SubsSound
<1>6. ASSUME OnePerKey PROVE ServesOwnQuery'
  <2> SUFFICES ASSUME NEW x \in Requests, sub'[x] # NoSub, ~sub'[x].dirty, NEW q, q = sub'[x].query
               PROVE  sub'[x].rows = RowsOf(q, version)'
    BY DEF ServesOwnQuery, Subscribed
  <2>1. sub'[x] = sub[x] /\ RowsOf(q, version)' = RowsOf(q, version)
    BY <1>2, <1>3 DEF RowsOf
  <2> QED BY <1>1, <1>6, <2>1 DEF ServesOwnQuery, Subscribed
<1>7. PlansCurrent'
  BY <1>2, <1>3 DEF PlansCurrent
<1> QED BY <1>1, <1>2, <1>3, <1>4, <1>5, <1>6, <1>7 DEF IInv

(* A new subscription is told right, and the others are as they were. *)
SubsRight == Core /\ SubsSound(sub, reader, version) /\ (OnePerKey => ServesOwnQuery)

Joins(r, q, s, rd) ==
  /\ sub' = [sub EXCEPT ![r] = s] /\ reader' = [reader EXCEPT ![r] = rd]
  /\ Sound(s, rd, version) /\ s.query = q /\ s.rows = RowsOf(q, version)
  /\ UNCHANGED <<version, changed, builder, open>>
  /\ asked' \in Nat /\ buildQueue' \in Seq(Keys)

(* An admitted subscription is sound and the others stay so. *)
LEMMA AdmittedKeeps ==
  ASSUME SubsRight, NEW r \in Requests, NEW q \in Queries, NEW s,
         NEW rd, rd = [rows |-> NoRows, stale |-> FALSE], Joins(r, q, s, rd)
  PROVE  SubsRight'
<1>0. Core /\ SubsSound(sub, reader, version) /\ (OnePerKey => ServesOwnQuery)
  BY DEF SubsRight
<1>1. /\ sub'[r] = s /\ \A x \in Requests : x # r => sub'[x] = sub[x]
      /\ reader'[r] = rd /\ \A x \in Requests : x # r => reader'[x] = reader[x]
  BY <1>0 DEF Core, Joins
<1>2. s \in Subscription /\ rd \in [rows : Rows, stale : BOOLEAN]
  BY DEF Sound, Rows, Joins
<1>3. Core'
  BY <1>0, <1>2 DEF Core, Joins
<1>4. SubsSound(sub', reader', version')
  BY <1>0, <1>1 DEF SubsSound, Joins
<1>5. ASSUME OnePerKey PROVE ServesOwnQuery'
  <2> SUFFICES ASSUME NEW x \in Requests, sub'[x] # NoSub, ~sub'[x].dirty, NEW p, p = sub'[x].query
               PROVE  sub'[x].rows = RowsOf(p, version)'
    BY DEF ServesOwnQuery, Subscribed
  <2>1. RowsOf(p, version)' = RowsOf(p, version)
    BY DEF RowsOf, Joins
  <2> QED BY <1>0, <1>1, <1>5, <2>1 DEF ServesOwnQuery, Subscribed, Joins
<1> QED BY <1>3, <1>4, <1>5 DEF SubsRight

(* What becomes of a new subscription: a plan, a build, or neither. *)
IsPlaced(s, q, rd, build, plan) ==
  /\ Sound(s, rd, version) /\ s.query = q /\ s.rows = RowsOf(q, version) /\ s # NoSub
  /\ s.build = build /\ s.plan = plan

(* A new subscription stays sound when the coordinator has marked where it *)
(* belongs.                                                                *)
LEMMA PlacedSound ==
  ASSUME Core, NEW q \in Queries, NEW rd, NEW f, IsFresh(f, q, rd),
         NEW build \in Keys \cup {NoKey}, NEW plan \in Keys \cup {NoKey},
         NEW view \in Queries \cup {NoQuery}, NEW skipped \in BOOLEAN, NEW fallback \in BOOLEAN,
         NEW s, IsMarked(f, s, build, plan, view, skipped, fallback), Placed(s)
  PROVE  IsPlaced(s, q, rd, build, plan)
BY DEF IsPlaced, IsFresh, IsMarked, Sound, Mode, Told

(* One more plan or build, when there is room for it. *)
LEMMA RoomTaken ==
  ASSUME NEW subs, NEW ps, NEW bs, Books(subs, ps, bs), Room(ps, bs), ~CountLimitReached(ps, bs),
         NEW k, k \notin DOMAIN ps \cup DOMAIN bs, NEW cs, DOMAIN cs = DOMAIN bs \cup {k}
  PROVE  Room(ps, cs)
<1> DEFINE P == DOMAIN ps
           B == DOMAIN bs
           A == P \cup B
<1>1. /\ IsFiniteSet(P) /\ IsFiniteSet(B) /\ Cardinality(A) = Cardinality(P) + Cardinality(B)
      /\ IsFiniteSet(A)
  BY RoomCounted DEF Room
<1>2. ~(Cardinality(P) + Cardinality(B) >= MaxActivePlans) /\ MaxActivePlans \in Nat
  BY ActivePlanConstants DEF CountLimitReached
<1>3. P \cup DOMAIN cs = A \cup {k} /\ k \notin A
  OBVIOUS
<1> HIDE DEF A, P, B
<1>4. /\ IsFiniteSet(A \cup {k}) /\ Cardinality(A \cup {k}) = Cardinality(A) + 1
      /\ Cardinality(A) \in Nat
  BY <1>1, <1>3, FS_AddElement, FS_CardinalityType
<1>5. Cardinality(A \cup {k}) <= MaxActivePlans
  BY <1>1, <1>2, <1>4
<1>6. IsFiniteSet(P \cup DOMAIN cs) /\ Cardinality(P \cup DOMAIN cs) <= MaxActivePlans
  BY <1>3, <1>4, <1>5
<1> QED BY <1>6 DEF Room, P

(* A subscribe: it joins a plan or a build, queues a build, or goes without. *)
LEMMA SubscribeKeeps ==
  ASSUME IInv, NEW r \in Requests, NEW q \in Queries, Subscribe(r, q)
  PROVE  IInv'
<1> DEFINE k == KeyOf[q]
           ps == ReleasePlans(plans, {r})
           bs == ReleaseBuilds(builds, {r})
           f == Fresh(q)
           rd == [rows |-> NoRows, stale |-> FALSE]
           after == [sub EXCEPT ![r] = NoSub]
           entry == [query |-> q, requests |-> {r}, state |-> "queued"]
<1>1. /\ Core /\ SubsSound(sub, reader, version) /\ FibersSound(builder)
      /\ OnePerKey => ServesOwnQuery
  BY DEF IInv
<1>2. /\ version \in Nat /\ asked \in Nat /\ buildQueue \in Seq(Keys) /\ k \in Keys /\ k # NoKey
      /\ q # NoQuery
  BY <1>1, ActivePlanConstants, NoKeyIsNone DEF Core
<1>3. /\ asked' = asked + 1 /\ reader' = [reader EXCEPT ![r] = rd]
      /\ UNCHANGED <<version, changed, builder, open>>
  BY DEF Subscribe
<1>4. \/ /\ k \in DOMAIN ps /\ sub' = [sub EXCEPT ![r] = Activated(f, k, q)]
         /\ plans' = [ps EXCEPT ![k].subscribers = @ + 1] /\ builds' = bs
         /\ buildQueue' = buildQueue
      \/ /\ k \notin DOMAIN ps /\ k \in DOMAIN bs /\ sub' = [sub EXCEPT ![r] = MarkQueued(f, k)]
         /\ plans' = ps /\ builds' = [bs EXCEPT ![k].requests = @ \cup {r}]
         /\ buildQueue' = buildQueue
      \/ /\ sub' = [sub EXCEPT ![r] = MarkSkipped(f)]
         /\ plans' = ps /\ builds' = bs /\ buildQueue' = buildQueue
      \/ /\ sub' = [sub EXCEPT ![r] = MarkFallback(f)]
         /\ plans' = ps /\ builds' = bs /\ buildQueue' = buildQueue
      \/ /\ k \notin DOMAIN ps \cup DOMAIN bs /\ ~CountLimitReached(ps, bs)
         /\ sub' = [sub EXCEPT ![r] = MarkQueued(f, k)]
         /\ plans' = ps /\ builds' = With(bs, k, entry) /\ buildQueue' = Append(buildQueue, k)
  <2> HIDE DEF f
  <2> QED BY DEF Subscribe, f
<1>5. IsFresh(f, q, rd) /\ f \in Subscription /\ f.query = q /\ f.build = NoKey /\ f.plan = NoKey
      /\ f.view = NoQuery /\ f.skipped = FALSE /\ f.fallback = FALSE
  <2>1. IsFresh(f, q, rd)
    BY <1>1, FreshSound
  <2>2. f.skipped = FALSE /\ f.fallback = FALSE
    BY DEF Fresh
  <2> HIDE DEF f, rd
  <2> QED BY <2>1, <2>2 DEF IsFresh
<1>6. after = [sub EXCEPT ![r] = NoSub] /\ ps = ReleasePlans(plans, {r})
      /\ bs = ReleaseBuilds(builds, {r}) /\ rd = [rows |-> NoRows, stale |-> FALSE]
  OBVIOUS
<1> HIDE DEF k, ps, bs, f, rd, after
<1>7. /\ Books(after, ps, bs) /\ Room(ps, bs) /\ Remembered(bs, buildQueue, builder)
      /\ \A j \in DOMAIN ps : ps[j].at = version
      /\ after[r] = NoSub /\ \A x \in Requests : x # r => after[x] = sub[x]
  <2>1. Leaves(r, after, ps, bs)
    BY <1>6, LeaveKeeps
  <2> QED BY <2>1 DEF Leaves
<1>8. /\ \A j \in Keys : KeyBooked(after, ps, bs, j)
      /\ Marks(f, MarkQueued(f, k), k, NoKey, NoQuery, FALSE, FALSE)
      /\ Marks(f, MarkSkipped(f), NoKey, NoKey, NoQuery, TRUE, FALSE)
      /\ Marks(f, MarkFallback(f), NoKey, NoKey, NoQuery, FALSE, TRUE)
      /\ Marks(f, Activated(f, k, q), NoKey, k, q, FALSE, FALSE)
  BY <1>5, <1>7, MarksAre DEF Books
<1>9. ASSUME NEW s, sub' = [sub EXCEPT ![r] = s], s # NoSub, Sound(s, rd, version), s.query = q,
             s.rows = RowsOf(q, version), buildQueue' \in Seq(Keys)
      PROVE  /\ Core' /\ SubsSound(sub', reader', version') /\ (OnePerKey => ServesOwnQuery')
             /\ Admits(after, sub', r, s)
  <2>1. Core' /\ SubsSound(sub', reader', version') /\ (OnePerKey => ServesOwnQuery')
    <3>1. Joins(r, q, s, rd) /\ SubsRight
      BY <1>1, <1>2, <1>3, <1>9 DEF Joins, SubsRight
    <3>2. SubsRight'
      BY <1>6, <3>1, AdmittedKeeps
    <3> QED BY <3>2 DEF SubsRight
  <2>2. sub'[r] = s /\ \A x \in Requests : x # r => sub'[x] = sub[x]
    BY <1>1, <1>9 DEF Core
  <2> QED BY <1>7, <1>9, <2>1, <2>2 DEF Admits
<1>10. ASSUME NEW s, sub' = [sub EXCEPT ![r] = s], s # NoSub, Sound(s, rd, version), s.query = q,
              s.rows = RowsOf(q, version), buildQueue' \in Seq(Keys),
              Books(sub', plans', builds'), Room(plans', builds'),
              Remembered(builds', buildQueue', builder), \A j \in DOMAIN plans' : plans'[j].at = version
       PROVE  IInv'
  BY <1>1, <1>3, <1>9, <1>10 DEF IInv, PlansCurrent
<1>11. CASE /\ k \in DOMAIN ps /\ sub' = [sub EXCEPT ![r] = Activated(f, k, q)]
            /\ plans' = [ps EXCEPT ![k].subscribers = @ + 1] /\ builds' = bs
            /\ buildQueue' = buildQueue
  <2> DEFINE s == Activated(f, k, q)
             qs == [ps EXCEPT ![k].subscribers = ps[k].subscribers + 1]
  <2>0. Marks(f, s, NoKey, k, q, FALSE, FALSE) /\ plans' = qs /\ TakesPlan(ps, qs, k)
        /\ sub' = [sub EXCEPT ![r] = s]
    BY <1>8, <1>11 DEF TakesPlan
  <2> HIDE DEF s, qs
  <2>1. IsMarked(f, s, NoKey, k, q, FALSE, FALSE)
    BY <1>2, <1>5, <2>0, Marked
  <2>2. Placed(s)
    BY <1>2, <1>5, <2>1 DEF IsMarked, Placed, k
  <2>3. /\ Sound(s, rd, version) /\ s.query = q /\ s.rows = RowsOf(q, version) /\ s # NoSub
        /\ s.build = NoKey /\ s.plan = k
    <3>1. IsPlaced(s, q, rd, NoKey, k)
      BY <1>1, <1>2, <1>5, <2>1, <2>2, PlacedSound
    <3> QED BY <3>1 DEF IsPlaced
  <2>4. Admits(after, sub', r, s)
    BY <1>2, <1>9, <1>11, <2>0, <2>3
  <2> DEFINE next == sub'
  <2>5. Admits(after, next, r, s) /\ next = sub'
    BY <2>4
  <2> HIDE DEF next
  <2>6. Books(next, qs, bs) /\ DOMAIN qs = DOMAIN ps /\ \A j \in DOMAIN qs : qs[j].at = ps[j].at
    BY <1>2, <1>7, <1>11, <2>0, <2>3, <2>5, UserBooked
  <2>7. Room(qs, bs)
    BY <1>7, <2>6 DEF Room
  <2>8. /\ Books(sub', plans', builds') /\ Room(plans', builds')
        /\ Remembered(builds', buildQueue', builder) /\ \A j \in DOMAIN plans' : plans'[j].at = version
    BY <1>7, <1>11, <2>0, <2>5, <2>6, <2>7
  <2> QED BY <1>2, <1>10, <1>11, <2>0, <2>3, <2>8
<1>12. CASE /\ k \notin DOMAIN ps /\ k \in DOMAIN bs /\ sub' = [sub EXCEPT ![r] = MarkQueued(f, k)]
            /\ plans' = ps /\ builds' = [bs EXCEPT ![k].requests = @ \cup {r}]
            /\ buildQueue' = buildQueue
  <2> DEFINE s == MarkQueued(f, k)
             cs == [bs EXCEPT ![k].requests = bs[k].requests \cup {r}]
  <2>0. Marks(f, s, k, NoKey, NoQuery, FALSE, FALSE) /\ builds' = cs
        /\ sub' = [sub EXCEPT ![r] = s]
    BY <1>8, <1>12
  <2>1. bs[k] \in Entry /\ KeyOf[bs[k].query] = k
    BY <1>2, <1>8, <1>12 DEF KeyBooked, BuildBooked
  <2>2. /\ DOMAIN cs = DOMAIN bs /\ (\A j \in DOMAIN bs : j # k => cs[j] = bs[j])
        /\ cs[k] = [bs[k] EXCEPT !.requests = bs[k].requests \cup {r}]
    BY <1>12
  <2>3. /\ cs[k] \in Entry /\ cs[k].query = bs[k].query /\ cs[k].state = bs[k].state
        /\ cs[k].requests = bs[k].requests \cup {r}
    <3> HIDE DEF cs
    <3> QED BY <2>1, <2>2 DEF Entry
  <2> HIDE DEF s, cs
  <2>4. IsMarked(f, s, k, NoKey, NoQuery, FALSE, FALSE)
    BY <1>2, <1>5, <2>0, Marked
  <2>5. Placed(s)
    BY <1>2, <1>5, <2>4 DEF IsMarked, Placed, k
  <2>6. /\ Sound(s, rd, version) /\ s.query = q /\ s.rows = RowsOf(q, version) /\ s # NoSub
        /\ s.build = k /\ s.plan = NoKey
    <3>1. IsPlaced(s, q, rd, k, NoKey)
      BY <1>1, <1>2, <1>5, <2>4, <2>5, PlacedSound
    <3> QED BY <3>1 DEF IsPlaced
  <2> DEFINE next == sub'
  <2>7. Admits(after, next, r, s) /\ next = sub'
    BY <1>2, <1>9, <1>12, <2>0, <2>6
  <2> HIDE DEF next
  <2>8. DOMAIN cs = DOMAIN bs \cup {k} /\ KeyOf[cs[k].query] = k
        /\ cs[k].requests = IF k \in DOMAIN bs THEN bs[k].requests \cup {r} ELSE {r}
    BY <1>12, <2>1, <2>2, <2>3
  <2>9. Books(next, ps, cs)
    <3>1. JoinsBuild(bs, cs, k, r)
      BY <2>2, <2>3, <2>8 DEF JoinsBuild
    <3> QED BY <1>2, <1>7, <1>12, <2>6, <2>7, <3>1, WaiterBooked
  <2>10. Room(ps, cs)
    BY <1>7, <2>2 DEF Room
  <2>11. Remembered(cs, buildQueue, builder)
    <3>1. DOMAIN cs = DOMAIN bs /\ \A j \in DOMAIN bs : cs[j].state = bs[j].state
      BY <2>2, <2>3
    <3> QED BY <1>7, <3>1 DEF Remembered
  <2> QED BY <1>2, <1>7, <1>10, <1>12, <2>0, <2>6, <2>7, <2>9, <2>10, <2>11
<1>13. ASSUME NEW s, sub' = [sub EXCEPT ![r] = s], NEW skipped \in BOOLEAN, NEW fallback \in BOOLEAN,
              skipped = ~fallback, Marks(f, s, NoKey, NoKey, NoQuery, skipped, fallback),
              plans' = ps, builds' = bs, buildQueue' = buildQueue
       PROVE  IInv'
  <2>1. IsMarked(f, s, NoKey, NoKey, NoQuery, skipped, fallback)
    BY <1>5, <1>13, Marked
  <2>2. Placed(s)
    BY <1>13, <2>1 DEF IsMarked, Placed
  <2>3. /\ Sound(s, rd, version) /\ s.query = q /\ s.rows = RowsOf(q, version) /\ s # NoSub
        /\ s.build = NoKey /\ s.plan = NoKey
    <3>1. IsPlaced(s, q, rd, NoKey, NoKey)
      BY <1>1, <1>5, <1>13, <2>1, <2>2, PlacedSound
    <3> QED BY <3>1 DEF IsPlaced
  <2> DEFINE next == sub'
  <2>4. Admits(after, next, r, s) /\ next = sub'
    BY <1>2, <1>9, <1>13, <2>3
  <2> HIDE DEF next
  <2>5. Books(next, ps, bs)
    BY <1>7, <2>3, <2>4, NothingBooked
  <2> QED BY <1>2, <1>7, <1>10, <1>13, <2>3, <2>4, <2>5
<1>14. CASE /\ sub' = [sub EXCEPT ![r] = MarkSkipped(f)]
            /\ plans' = ps /\ builds' = bs /\ buildQueue' = buildQueue
  BY <1>8, <1>13, <1>14
<1>15. CASE /\ sub' = [sub EXCEPT ![r] = MarkFallback(f)]
            /\ plans' = ps /\ builds' = bs /\ buildQueue' = buildQueue
  BY <1>8, <1>13, <1>15
<1>16. CASE /\ k \notin DOMAIN ps \cup DOMAIN bs /\ ~CountLimitReached(ps, bs)
            /\ sub' = [sub EXCEPT ![r] = MarkQueued(f, k)]
            /\ plans' = ps /\ builds' = With(bs, k, entry) /\ buildQueue' = Append(buildQueue, k)
  <2> DEFINE s == MarkQueued(f, k)
             cs == With(bs, k, entry)
  <2>0. Marks(f, s, k, NoKey, NoQuery, FALSE, FALSE) /\ sub' = [sub EXCEPT ![r] = s]
    BY <1>8, <1>16
  <2>1. /\ DOMAIN cs = DOMAIN bs \cup {k} /\ (\A j \in DOMAIN bs : j # k => cs[j] = bs[j])
        /\ cs[k] = entry
    BY DEF With
  <2>2. /\ cs[k] \in Entry /\ KeyOf[cs[k].query] = k
        /\ cs[k].requests = IF k \in DOMAIN bs THEN bs[k].requests \cup {r} ELSE {r}
    <3>1. entry.query = q /\ entry.requests = {r} /\ entry.state = "queued" /\ {r} \in SUBSET Requests
      OBVIOUS
    <3>2. entry \in Entry /\ KeyOf[q] = k
      BY <3>1 DEF Entry, k
    <3> HIDE DEF cs, entry
    <3> QED BY <1>16, <2>1, <3>1, <3>2
  <2>3. builds' = cs
    BY <1>16
  <2> HIDE DEF s, cs, entry
  <2>4. IsMarked(f, s, k, NoKey, NoQuery, FALSE, FALSE)
    BY <1>2, <1>5, <2>0, Marked
  <2>5. Placed(s)
    BY <1>2, <1>5, <2>4 DEF IsMarked, Placed, k
  <2>6. /\ Sound(s, rd, version) /\ s.query = q /\ s.rows = RowsOf(q, version) /\ s # NoSub
        /\ s.build = k /\ s.plan = NoKey
    <3>1. IsPlaced(s, q, rd, k, NoKey)
      BY <1>1, <1>2, <1>5, <2>4, <2>5, PlacedSound
    <3> QED BY <3>1 DEF IsPlaced
  <2>7. buildQueue' \in Seq(Keys) /\ Len(buildQueue') = Len(buildQueue) + 1
        /\ buildQueue'[Len(buildQueue) + 1] = k /\ Len(buildQueue) \in Nat
        /\ \A i \in 1 .. Len(buildQueue) : buildQueue'[i] = buildQueue[i]
    BY <1>2, <1>16
  <2> DEFINE next == sub'
  <2>8. Admits(after, next, r, s) /\ next = sub'
    BY <1>9, <2>0, <2>6, <2>7
  <2> HIDE DEF next
  <2>9. Books(next, ps, cs)
    <3>1. JoinsBuild(bs, cs, k, r)
      BY <2>1, <2>2 DEF JoinsBuild
    <3> QED BY <1>2, <1>7, <1>16, <2>6, <2>8, <3>1, WaiterBooked
  <2>10. Room(ps, cs)
    BY <1>7, <1>16, <2>1, RoomTaken
  <2>11. Remembered(cs, buildQueue', builder)
    <3> SUFFICES ASSUME NEW j \in DOMAIN cs
                 PROVE  IF cs[j].state = "queued" THEN Awaits(j, buildQueue', builder) ELSE Runs(j, builder)
      BY DEF Remembered
    <3>1. CASE j = k
      <4>1. Len(buildQueue) + 1 \in 1 .. Len(buildQueue')
        BY <2>7
      <4>2. Awaits(k, buildQueue', builder) /\ cs[k].state = "queued"
        BY <2>1, <2>7, <4>1 DEF Awaits, entry
      <4> QED BY <3>1, <4>2
    <3>2. CASE j # k
      <4>1. j \in DOMAIN bs /\ cs[j] = bs[j]
        BY <2>1, <3>2
      <4>2. \A i \in 1 .. Len(buildQueue) : i \in 1 .. Len(buildQueue')
        BY <2>7
      <4>3. Awaits(j, buildQueue, builder) => Awaits(j, buildQueue', builder)
        BY <2>7, <4>2 DEF Awaits
      <4> QED BY <1>7, <4>1, <4>3 DEF Remembered
    <3> QED BY <3>1, <3>2
  <2> QED BY <1>7, <1>10, <1>16, <2>0, <2>3, <2>6, <2>7, <2>8, <2>9, <2>10, <2>11
<1> QED BY <1>4, <1>11, <1>12, <1>14, <1>15, <1>16

(* The books do not see what nobody holds. *)
LEMMA BooksSame ==
  ASSUME NEW ps, NEW bs, Books(sub, ps, bs), NEW after, \A x \in Requests : SameHold(sub[x], after[x])
  PROVE  Books(after, ps, bs)
<1>1. /\ Registered(after) = Registered(sub)
      /\ \A k : Users(after, k) = Users(sub, k) /\ Waiting(after, k) = Waiting(sub, k)
  BY DEF Registered, Users, Waiting, SameHold
<1>2. /\ DOMAIN ps \subseteq Keys /\ DOMAIN bs \subseteq Keys /\ IsFiniteSet(Registered(sub))
      /\ \A k \in Keys : KeyBooked(sub, ps, bs, k)
  BY DEF Books
<1>3. ASSUME NEW k \in Keys PROVE KeyBooked(after, ps, bs, k)
  BY <1>1, <1>2 DEF KeyBooked, PlanBooked, BuildBooked
<1> QED BY <1>1, <1>2, <1>3 DEF Books

(* A reader that takes an event. *)
LEMMA DeliverKeeps ==
  ASSUME IInv, NEW r \in Requests, Deliver(r)
  PROVE  IInv'
<1> DEFINE s == sub[r]
           q == s.queue
           event == Head(q.events)
           left == [q EXCEPT !.events = Tail(q.events)]
           t == sub'[r]
           rd == reader[r]
           rows == rd.rows
           taken == RowsTaken(rows, event)
           last == s.rows
<1>1. /\ Core /\ Books(sub, plans, builds) /\ Room(plans, builds)
      /\ SubsSound(sub, reader, version) /\ FibersSound(builder)
      /\ Remembered(builds, buildQueue, builder) /\ PlansCurrent
      /\ OnePerKey => ServesOwnQuery
  BY DEF IInv
<1>2. /\ s # NoSub /\ q.events # << >>
      /\ sub' = [sub EXCEPT ![r].queue.events = Tail(q.events)]
      /\ reader' = [reader EXCEPT ![r] = [rows |-> taken, stale |-> event.type = "status"]]
      /\ UNCHANGED <<version, changed, plans, builds, buildQueue, builder, asked, open>>
  BY DEF Deliver
<1>3. /\ version \in Nat /\ s \in Subscription /\ Mode(s) /\ Told(s, rd, version) /\ rows \in Rows
      /\ NoRows \in Rows /\ last \in Rows /\ s.dirty \in BOOLEAN
  <2>1. Sound(s, rd, version) /\ version \in Nat /\ rows \in Rows
    BY <1>1, <1>2 DEF SubsSound, Core
  <2>2. s \in Subscription
    BY <2>1 DEF Sound
  <2>3. last \in Rows /\ s.dirty \in BOOLEAN
    BY <2>2 DEF Subscription
  <2> QED BY <2>1, <2>2, <2>3 DEF Sound, Rows
<1>4. Shows(left, Rows, version, taken, last) /\ taken \in Rows
  <2>1. Shows(q, Rows, version, rows, last)
    BY <1>3 DEF Told
  <2>2. left = [q EXCEPT !.events = Tail(q.events)] /\ taken = RowsTaken(rows, Head(q.events))
    OBVIOUS
  <2> HIDE DEF q, left, taken, rows, last
  <2> QED BY <1>2, <1>3, <2>1, <2>2, TailShows
<1>5. StaleShown(event.type = "status", Tail(q.events)) <=> StaleShown(rd.stale, q.events)
  <2> DEFINE E == Upto(Rows, version)
             events == q.events
             rest == Tail(events)
             N == Len(events)
  <2>1. events \in Seq(E) /\ events # << >>
    BY <1>2, <1>3 DEF Told, Shows, Ordered
  <2> HIDE DEF E, events
  <2>2. /\ N \in Nat \ {0} /\ Len(rest) = N - 1 /\ rest \in Seq(E) /\ Head(events) = events[1]
        /\ \A i \in 1 .. (N - 1) : rest[i] = events[i + 1]
        /\ Last(events) = events[N] /\ Last(rest) = rest[Len(rest)]
    BY <2>1 DEF Last
  <2>3. CASE rest = << >>
    <3>1. N = 1
      <4> HIDE DEF rest, N
      <4>1. Len(rest) = 0
        BY <2>3
      <4> QED BY <2>2, <4>1
    <3> QED BY <2>1, <2>2, <2>3, <3>1 DEF StaleShown, events
  <2>4. CASE rest # << >>
    <3>1. N - 1 # 0
      BY <2>2, <2>4
    <3> HIDE DEF N, rest
    <3>2. N - 1 \in 1 .. (N - 1) /\ (N - 1) + 1 = N
      BY <2>2, <3>1
    <3>3. Last(rest) = Last(events)
      BY <2>2, <3>2
    <3> QED BY <2>1, <2>4, <3>3 DEF StaleShown, events, rest
  <2> QED BY <2>3, <2>4
<1>6. Requeues(s, t, s.rows, s.dirty, left)
  <2>1. s \in [query : Queries, build : Keys \cup {NoKey}, plan : Keys \cup {NoKey},
               view : Queries \cup {NoQuery}, skipped : BOOLEAN, fallback : BOOLEAN,
               dirty : BOOLEAN, rows : Rows, queue : Queues(Rows)]
    BY <1>3 DEF Subscription
  <2>2. sub' = [sub EXCEPT ![r] = [s EXCEPT !.queue = left]] /\ sub \in [Requests -> {NoSub} \cup Subscription]
    BY <1>1, <1>2 DEF Core
  <2>3. t = [s EXCEPT !.queue = left]
    BY <2>2
  <2> HIDE DEF s, t, left
  <2> QED BY <2>1, <2>3 DEF Requeues
<1>7. /\ t \in Subscription /\ SamePlace(s, t) /\ t # NoSub
      /\ t.rows = s.rows /\ t.dirty = s.dirty /\ t.queue = left
  <2>1. left \in Queues(Rows)
    <3> HIDE DEF left
    <3> QED BY <1>3, <1>4, OrderedIsQueue DEF Shows
  <2> HIDE DEF s, t, left
  <2>2. IsRequeued(s, t, s.rows, s.dirty, left)
    BY <1>3, <1>6, <2>1, Requeued DEF last
  <2> QED BY <2>2 DEF IsRequeued
<1>8. left.events = Tail(q.events)
  <2>1. q \in [events : Seq(Upto(Rows, version)), pending : Nat, lag : Nat]
    BY <1>3 DEF Told, Shows, Ordered
  <2> HIDE DEF q
  <2> QED BY <2>1
<1>9. /\ reader'[r].rows = taken /\ reader'[r].stale = (event.type = "status")
      /\ \A x \in Requests : x # r => reader'[x] = reader[x]
      /\ \A x \in Requests : x # r => sub'[x] = sub[x]
      /\ sub' \in [Requests -> {NoSub} \cup Subscription]
      /\ reader' \in [Requests -> [rows : Rows, stale : BOOLEAN]]
  <2> DEFINE now == [rows |-> taken, stale |-> event.type = "status"]
  <2>1. now \in [rows : Rows, stale : BOOLEAN] /\ now.rows = taken /\ now.stale = (event.type = "status")
    BY <1>4
  <2>2. reader' = [reader EXCEPT ![r] = now] /\ reader \in [Requests -> [rows : Rows, stale : BOOLEAN]]
    BY <1>1, <1>2 DEF Core
  <2> HIDE DEF now
  <2>3. sub' = [sub EXCEPT ![r] = [s EXCEPT !.queue = left]]
        /\ sub \in [Requests -> {NoSub} \cup Subscription]
    BY <1>1, <1>2 DEF Core
  <2>4. sub' = [sub EXCEPT ![r] = t]
    BY <2>3
  <2> HIDE DEF t
  <2>5. /\ \A x \in Requests : x # r => sub'[x] = sub[x]
        /\ sub' \in [Requests -> {NoSub} \cup Subscription]
    BY <1>7, <2>3, <2>4
  <2> QED BY <2>1, <2>2, <2>5
<1>10. Sound(t, reader'[r], version)
  <2>1. Told(t, reader'[r], version)
    <3>1. StaleShown(rd.stale, q.events) <=> s.dirty
      BY <1>3 DEF Told
    <3>2. t.queue = left /\ t.rows = last /\ t.dirty = s.dirty
      BY <1>7
    <3> HIDE DEF t, left, taken, last
    <3> QED BY <1>4, <1>5, <1>8, <1>9, <3>1, <3>2 DEF Told
  <2>2. Mode(t)
    BY <1>3, <1>7 DEF Mode, Placed, SamePlace
  <2> QED BY <1>7, <2>1, <2>2 DEF Sound
<1>11. Core'
  BY <1>1, <1>2, <1>9 DEF Core
<1>12. SubsSound(sub', reader', version')
  BY <1>1, <1>2, <1>9, <1>10 DEF SubsSound
<1>13. Books(sub', plans', builds')
  <2>1. \A x \in Requests : SameHold(sub[x], sub'[x])
    BY <1>2, <1>7, <1>9 DEF SameHold, SamePlace
  <2> QED BY <1>1, <1>2, <2>1, BooksSame
<1>14. ASSUME OnePerKey PROVE ServesOwnQuery'
  <2> SUFFICES ASSUME NEW x \in Requests, sub'[x] # NoSub, ~sub'[x].dirty, NEW p, p = sub'[x].query
               PROVE  sub'[x].rows = RowsOf(p, version)'
    BY DEF ServesOwnQuery, Subscribed
  <2>1. RowsOf(p, version)' = RowsOf(p, version)
    BY <1>2 DEF RowsOf
  <2>2. /\ sub[x] # NoSub /\ sub[x].query = p /\ sub[x].rows = sub'[x].rows
        /\ ~sub[x].dirty
    BY <1>2, <1>7, <1>9 DEF SamePlace
  <2> QED BY <1>1, <1>14, <2>1, <2>2 DEF ServesOwnQuery, Subscribed
<1> QED BY <1>1, <1>2, <1>11, <1>12, <1>13, <1>14 DEF IInv, PlansCurrent

(* The worker shuts down and ends all subscriptions. *)
LEMMA ShutdownKeeps ==
  ASSUME IInv, Shutdown
  PROVE  IInv'
<1>1. Core
  BY DEF IInv
<1>2. Core'
  <2>1. builder' \in [Builders -> [phase : {"idle", "taken", "building"}, key : Keys \cup {NoKey},
                                   query : Queries \cup {NoQuery}, version : Nat]]
    BY DEF Shutdown, Idle
  <2>2. sub' \in [Requests -> {NoSub} \cup Subscription] /\ buildQueue' \in Seq(Keys)
    BY DEF Shutdown
  <2>3. UNCHANGED <<version, changed, reader, asked>> /\ open' = FALSE
    BY DEF Shutdown
  <2> QED BY <1>1, <2>1, <2>2, <2>3 DEF Core
<1>3. DOMAIN plans' = {} /\ DOMAIN builds' = {} /\ \A r \in Requests : sub'[r] = NoSub
  BY DEF Shutdown
<1>4. Registered(sub') = {} /\ \A k : Users(sub', k) = {} /\ Waiting(sub', k) = {}
  BY <1>3 DEF Registered, Users, Waiting
<1>5. Books(sub', plans', builds')
  BY <1>3, <1>4, FS_EmptySet DEF Books, KeyBooked, PlanBooked, BuildBooked
<1>6. Room(plans', builds')
  <2>1. DOMAIN plans' \cup DOMAIN builds' = {}
    BY <1>3
  <2>2. IsFiniteSet({}) /\ Cardinality({}) = 0 /\ MaxActivePlans \in Nat
    BY FS_EmptySet, ActivePlanConstants
  <2> QED BY <2>1, <2>2 DEF Room
<1>7. SubsSound(sub', reader', version') /\ ServesOwnQuery'
  BY <1>3 DEF SubsSound, ServesOwnQuery, Subscribed
<1>8. FibersSound(builder')
  BY DEF Shutdown, Idle, FibersSound
<1>9. Remembered(builds', buildQueue', builder') /\ PlansCurrent'
  BY <1>3 DEF Remembered, PlansCurrent
<1> QED BY <1>2, <1>5, <1>6, <1>7, <1>8, <1>9 DEF IInv

(* A fiber takes a key from the queue of builds. *)
LEMMA TakeKeeps ==
  ASSUME IInv, NEW b \in Builders, Take(b)
  PROVE  IInv'
<1> DEFINE head == Head(buildQueue)
           now == [Idle EXCEPT !.phase = "taken", !.key = head]
<1>1. /\ Core /\ Books(sub, plans, builds) /\ Room(plans, builds)
      /\ SubsSound(sub, reader, version) /\ FibersSound(builder)
      /\ Remembered(builds, buildQueue, builder) /\ PlansCurrent
      /\ OnePerKey => ServesOwnQuery
  BY DEF IInv
<1>2. /\ builder[b].phase = "idle" /\ buildQueue # << >> /\ builder' = [builder EXCEPT ![b] = now]
      /\ buildQueue' = Tail(buildQueue)
      /\ UNCHANGED <<version, changed, sub, reader, plans, builds, asked, open>>
  BY DEF Take
<1>3. /\ buildQueue \in Seq(Keys)
      /\ builder \in [Builders -> [phase : {"idle", "taken", "building"}, key : Keys \cup {NoKey},
                                   query : Queries \cup {NoQuery}, version : Nat]]
  BY <1>1 DEF Core
<1>4. /\ head \in Keys /\ Tail(buildQueue) \in Seq(Keys) /\ head = buildQueue[1]
      /\ Len(Tail(buildQueue)) = Len(buildQueue) - 1 /\ Len(buildQueue) \in Nat
      /\ \A i \in 1 .. (Len(buildQueue) - 1) : Tail(buildQueue)[i] = buildQueue[i + 1]
  BY <1>2, <1>3
<1> HIDE DEF head
<1>5. now = [phase |-> "taken", key |-> head, query |-> NoQuery, version |-> 0]
  <2>1. Idle = [phase |-> "idle", key |-> NoKey, query |-> NoQuery, version |-> 0]
    BY DEF Idle
  <2>2. now = [Idle EXCEPT !.phase = "taken", !.key = head]
    OBVIOUS
  <2> HIDE DEF now
  <2>3. now = [f \in {"phase", "key", "query", "version"} |->
                 IF f = "key" THEN head ELSE IF f = "phase" THEN "taken" ELSE Idle[f]]
    BY <2>1, <2>2
  <2> QED BY <2>1, <2>3
<1> HIDE DEF now
<1>6. /\ builder'[b] = now /\ \A c \in Builders : c # b => builder'[c] = builder[c]
      /\ builder' \in [Builders -> [phase : {"idle", "taken", "building"}, key : Keys \cup {NoKey},
                                    query : Queries \cup {NoQuery}, version : Nat]]
  BY <1>2, <1>3, <1>4, <1>5
<1>7. Core'
  BY <1>1, <1>2, <1>4, <1>6 DEF Core
<1>8. FibersSound(builder')
  BY <1>1, <1>4, <1>5, <1>6 DEF FibersSound
<1>9. Remembered(builds, buildQueue', builder')
  <2> SUFFICES ASSUME NEW k \in DOMAIN builds
               PROVE  IF builds[k].state = "queued" THEN Awaits(k, buildQueue', builder')
                      ELSE Runs(k, builder')
    BY DEF Remembered
  <2>1. Runs(k, builder) => Runs(k, builder')
    BY <1>2, <1>6 DEF Runs
  <2>2. CASE \E c \in Builders : builder[c].key = k /\ builder[c].phase = "taken"
    <3>1. PICK c \in Builders : builder[c].key = k /\ builder[c].phase = "taken"
      BY <2>2
    <3>2. Awaits(k, buildQueue', builder')
      BY <1>2, <1>6, <3>1 DEF Awaits
    <3> QED BY <1>1, <2>1, <3>2 DEF Remembered
  <2>3. CASE \E i \in 1 .. Len(buildQueue) : buildQueue[i] = k
    <3>1. PICK i \in 1 .. Len(buildQueue) : buildQueue[i] = k
      BY <2>3
    <3>2. CASE i = 1
      <4>1. builder'[b].key = k /\ builder'[b].phase = "taken"
        BY <1>4, <1>5, <1>6, <3>1, <3>2
      <4> QED BY <1>1, <2>1, <4>1 DEF Remembered, Awaits
    <3>3. CASE i # 1
      <4>1. i - 1 \in 1 .. (Len(buildQueue) - 1) /\ (i - 1) + 1 = i
        BY <1>4, <3>1, <3>3
      <4>2. Tail(buildQueue)[i - 1] = k
        BY <1>4, <3>1, <4>1
      <4>3. Awaits(k, buildQueue', builder')
        BY <1>2, <1>4, <4>1, <4>2 DEF Awaits
      <4> QED BY <1>1, <2>1, <4>3 DEF Remembered
    <3> QED BY <3>2, <3>3
  <2> QED BY <1>1, <2>1, <2>2, <2>3 DEF Remembered, Awaits
<1>10. /\ Books(sub', plans', builds') /\ Room(plans', builds') /\ SubsSound(sub', reader', version')
       /\ Remembered(builds', buildQueue', builder') /\ PlansCurrent'
  BY <1>1, <1>2, <1>9 DEF PlansCurrent
<1>11. ServesOwnQuery' = ServesOwnQuery
  BY <1>2 DEF ServesOwnQuery, Subscribed, RowsOf
<1> QED BY <1>1, <1>7, <1>8, <1>10, <1>11 DEF IInv

(* A fiber begins the build it took, or drops a key that is no longer queued. *)
LEMMA BeginKeeps ==
  ASSUME IInv, NEW b \in Builders, Begin(b)
  PROVE  IInv'
<1> DEFINE k == builder[b].key
           now == [phase |-> "building", key |-> k, query |-> builds[k].query, version |-> version]
           next == [builds EXCEPT ![k].state = "building"]
<1>1. /\ Core /\ Books(sub, plans, builds) /\ Room(plans, builds)
      /\ SubsSound(sub, reader, version) /\ FibersSound(builder)
      /\ Remembered(builds, buildQueue, builder) /\ PlansCurrent
      /\ OnePerKey => ServesOwnQuery
  BY DEF IInv
<1>2. /\ builder[b].phase = "taken"
      /\ \/ /\ k \in DOMAIN builds /\ builds[k].state = "queued" /\ builds' = next
            /\ builder' = [builder EXCEPT ![b] = now]
         \/ /\ ~(k \in DOMAIN builds /\ builds[k].state = "queued") /\ builds' = builds
            /\ builder' = [builder EXCEPT ![b] = Idle]
      /\ UNCHANGED <<version, changed, sub, reader, plans, buildQueue, asked, open>>
  BY DEF Begin
<1>3. /\ version \in Nat
      /\ builder \in [Builders -> [phase : {"idle", "taken", "building"}, key : Keys \cup {NoKey},
                                   query : Queries \cup {NoQuery}, version : Nat]]
  BY <1>1 DEF Core
<1>4. k \in Keys
  BY <1>1, <1>2 DEF FibersSound
<1>5. /\ DOMAIN builds \subseteq Keys /\ DOMAIN plans \subseteq Keys /\ IsFiniteSet(Registered(sub))
      /\ \A j \in Keys : KeyBooked(sub, plans, builds, j)
  BY <1>1 DEF Books
<1> HIDE DEF k
<1>6. ASSUME builder' \in [Builders -> [phase : {"idle", "taken", "building"}, key : Keys \cup {NoKey},
                                        query : Queries \cup {NoQuery}, version : Nat]],
             FibersSound(builder'), Books(sub, plans, builds'), DOMAIN builds' = DOMAIN builds,
             Remembered(builds', buildQueue, builder')
      PROVE  IInv'
  <2>1. Core'
    BY <1>1, <1>2, <1>6 DEF Core
  <2>2. Room(plans, builds')
    BY <1>1, <1>6 DEF Room
  <2>3. /\ Books(sub', plans', builds') /\ Room(plans', builds') /\ SubsSound(sub', reader', version')
        /\ Remembered(builds', buildQueue', builder') /\ PlansCurrent'
    BY <1>1, <1>2, <1>6, <2>2 DEF PlansCurrent
  <2>4. ServesOwnQuery' = ServesOwnQuery
    BY <1>2 DEF ServesOwnQuery, Subscribed, RowsOf
  <2> QED BY <1>1, <1>6, <2>1, <2>3, <2>4 DEF IInv
<1>7. ASSUME NEW c \in Builders, c # b PROVE builder'[c] = builder[c]
  BY <1>2, <1>3, <1>7
<1>8. ASSUME NEW j
      PROVE  /\ Runs(j, builder) => Runs(j, builder')
             /\ j # k /\ Awaits(j, buildQueue, builder) => Awaits(j, buildQueue, builder')
  <2>1. \A c \in Builders : builder[c].phase = "building" => c # b
    BY <1>2
  <2>2. j # k => \A c \in Builders : builder[c].key = j => c # b
    BY DEF k
  <2> QED BY <1>7, <2>1, <2>2 DEF Runs, Awaits
<1>9. CASE /\ k \in DOMAIN builds /\ builds[k].state = "queued" /\ builds' = next
           /\ builder' = [builder EXCEPT ![b] = now]
  <2>1. builds[k] \in Entry /\ KeyOf[builds[k].query] = k
    BY <1>4, <1>5, <1>9 DEF KeyBooked, BuildBooked
  <2>2. builds[k].query \in Queries
    BY <2>1 DEF Entry
  <2>3. /\ DOMAIN next = DOMAIN builds /\ (\A j \in DOMAIN builds : j # k => next[j] = builds[j])
        /\ next[k] = [builds[k] EXCEPT !.state = "building"]
    BY <1>9
  <2>4. /\ next[k] \in Entry /\ next[k].query = builds[k].query
        /\ next[k].requests = builds[k].requests /\ next[k].state = "building"
    <3> HIDE DEF next
    <3> QED BY <2>1, <2>3 DEF Entry
  <2> HIDE DEF next
  <2>5. builder'[b] = now
    BY <1>3, <1>9
  <2>6. now.phase = "building" /\ now.key = k /\ now.query = builds[k].query
        /\ now \in [phase : {"idle", "taken", "building"}, key : Keys \cup {NoKey},
                    query : Queries \cup {NoQuery}, version : Nat]
    BY <1>3, <1>4, <2>2
  <2> HIDE DEF now
  <2>7. builder' \in [Builders -> [phase : {"idle", "taken", "building"}, key : Keys \cup {NoKey},
                                   query : Queries \cup {NoQuery}, version : Nat]]
    BY <1>3, <1>9, <2>6
  <2>8. FibersSound(builder')
    BY <1>1, <1>7, <2>1, <2>2, <2>5, <2>6 DEF FibersSound
  <2>9. Books(sub, plans, next)
    <3>1. ASSUME NEW j \in Keys PROVE KeyBooked(sub, plans, next, j)
      <4>1. KeyBooked(sub, plans, builds, j)
        BY <1>5
      <4>2. CASE j = k
        BY <1>9, <2>1, <2>3, <2>4, <4>1, <4>2 DEF KeyBooked, BuildBooked
      <4>3. CASE j # k
        BY <2>3, <4>1, <4>3, BooksOfKey
      <4> QED BY <4>2, <4>3
    <3> QED BY <1>5, <2>3, <3>1 DEF Books
  <2>10. Remembered(next, buildQueue, builder')
    <3> SUFFICES ASSUME NEW j \in DOMAIN builds
                 PROVE  IF next[j].state = "queued" THEN Awaits(j, buildQueue, builder')
                        ELSE Runs(j, builder')
      BY <2>3 DEF Remembered
    <3>1. CASE j = k
      BY <2>4, <2>5, <2>6, <3>1 DEF Runs
    <3>2. CASE j # k
      BY <1>1, <1>8, <2>3, <3>2 DEF Remembered
    <3> QED BY <3>1, <3>2
  <2> QED BY <1>6, <1>9, <2>3, <2>7, <2>8, <2>9, <2>10
<1>10. CASE /\ ~(k \in DOMAIN builds /\ builds[k].state = "queued") /\ builds' = builds
            /\ builder' = [builder EXCEPT ![b] = Idle]
  <2>1. /\ Idle \in [phase : {"idle", "taken", "building"}, key : Keys \cup {NoKey},
                     query : Queries \cup {NoQuery}, version : Nat]
        /\ Idle.phase = "idle"
    BY DEF Idle
  <2>2. builder' \in [Builders -> [phase : {"idle", "taken", "building"}, key : Keys \cup {NoKey},
                                   query : Queries \cup {NoQuery}, version : Nat]]
        /\ builder'[b] = Idle
    BY <1>3, <1>10, <2>1
  <2>3. FibersSound(builder')
    BY <1>1, <1>7, <2>1, <2>2 DEF FibersSound
  <2>4. Remembered(builds, buildQueue, builder')
    <3> SUFFICES ASSUME NEW j \in DOMAIN builds
                 PROVE  IF builds[j].state = "queued" THEN Awaits(j, buildQueue, builder')
                        ELSE Runs(j, builder')
      BY DEF Remembered
    <3>1. builds[j].state = "queued" => j # k
      BY <1>10
    <3> QED BY <1>1, <1>8, <3>1 DEF Remembered
  <2> QED BY <1>1, <1>6, <1>10, <2>2, <2>3, <2>4
<1> QED BY <1>2, <1>9, <1>10

(* A waiter is done with the build: the rows it gets are those of its own  *)
(* query, when no other query has its key.                                 *)
EndsRight(s, t, rd, plan) ==
  \E rows : Ends(s, t, rd, plan, rows) /\ (OnePerKey => rows = RowsOf(s.query, version))

(* A fiber ends the build of its key, and its waiters get the plan or none.*)
EndsAll(b, k, plan, told) ==
  /\ sub' = [r \in Requests |-> IF r \in Waiters(k) THEN told[r] ELSE sub[r]]
  /\ \A r \in Waiters(k) : EndsRight(sub[r], told[r], reader[r], plan)
  /\ builds' = Without(builds, k)
  /\ LET kept == {r \in Waiters(k) : told[r] # NoSub}
     IN  plans' = IF plan = NoKey \/ kept = {} THEN plans
                  ELSE With(plans, k, [at |-> version, subscribers |-> Cardinality(kept)])
  /\ builder' = [builder EXCEPT ![b] = Idle]
  /\ UNCHANGED <<version, changed, reader, buildQueue, asked, open>>

(* A build that a fiber ends, one way or the other, for whoever waits for it. *)
LEMMA EndKeeps ==
  ASSUME IInv, NEW b \in Builders, builder[b].phase = "building",
         NEW k \in Keys, k = builder[b].key, NEW plan \in {NoKey, k}, NEW told,
         EndsAll(b, k, plan, told)
  PROVE  IInv'
<1> DEFINE W == Waiting(sub, k)
           after == sub'
           cs == Without(builds, k)
<1>1. /\ Core /\ Books(sub, plans, builds) /\ Room(plans, builds)
      /\ SubsSound(sub, reader, version) /\ FibersSound(builder)
      /\ Remembered(builds, buildQueue, builder) /\ PlansCurrent
      /\ OnePerKey => ServesOwnQuery
  BY DEF IInv
<1>2. /\ DOMAIN builds \subseteq Keys /\ DOMAIN plans \subseteq Keys /\ IsFiniteSet(Registered(sub))
      /\ \A j \in Keys : KeyBooked(sub, plans, builds, j)
  BY <1>1 DEF Books
<1>3. k # NoKey /\ version \in Nat
  BY <1>1, NoKeyIsNone DEF Core
<1>4. Waiters(k) = W
  BY <1>2 DEF Waiters, Waiting, KeyBooked, BuildBooked
<1>5. /\ after = [r \in Requests |-> IF r \in W THEN told[r] ELSE sub[r]]
      /\ \A r \in W : EndsRight(sub[r], told[r], reader[r], plan)
      /\ builds' = cs
      /\ plans' = IF plan = NoKey \/ {r \in W : told[r] # NoSub} = {} THEN plans
                  ELSE With(plans, k, [at |-> version,
                                       subscribers |-> Cardinality({r \in W : told[r] # NoSub})])
      /\ builder' = [builder EXCEPT ![b] = Idle]
      /\ UNCHANGED <<version, changed, reader, buildQueue, asked, open>>
  BY <1>4 DEF EndsAll
<1>6. ASSUME NEW r \in Requests
      PROVE  /\ r \notin W => after[r] = sub[r]
             /\ r \in W => /\ sub[r] # NoSub /\ sub[r].build = k /\ after[r] = told[r]
                           /\ after[r] # NoSub =>
                                /\ Sound(after[r], reader[r], version) /\ after[r].build = NoKey
                                /\ after[r].plan = plan /\ after[r].query = sub[r].query
                                /\ ~after[r].dirty
                                /\ OnePerKey /\ sub[r].dirty => after[r].rows = RowsOf(sub[r].query, version)
                                /\ ~sub[r].dirty => after[r].rows = sub[r].rows
  <2>1. r \notin W => after[r] = sub[r]
    BY <1>5
  <2>2. ASSUME r \in W
        PROVE  sub[r] # NoSub /\ sub[r].build = k /\ after[r] = told[r]
    BY <1>5, <2>2 DEF Waiting
  <2>3. ASSUME r \in W, after[r] # NoSub
        PROVE  /\ Sound(after[r], reader[r], version) /\ after[r].build = NoKey
               /\ after[r].plan = plan /\ after[r].query = sub[r].query
               /\ ~after[r].dirty
               /\ OnePerKey /\ sub[r].dirty => after[r].rows = RowsOf(sub[r].query, version)
               /\ ~sub[r].dirty => after[r].rows = sub[r].rows
    <3> DEFINE t == told[r]
               s == sub[r]
    <3>1. EndsRight(s, t, reader[r], plan)
      BY <1>5, <2>3
    <3> HIDE DEF t, s
    <3>2. PICK rows : Ends(s, t, reader[r], plan, rows) /\ (OnePerKey => rows = RowsOf(s.query, version))
      BY <3>1, Zenon DEF EndsRight
    <3>3. after[r] = t
      BY <2>2, <2>3 DEF t
    <3> QED BY <2>3, <3>2, <3>3 DEF Ends, s
  <2> HIDE DEF W, after
  <2> QED BY <2>1, <2>2, <2>3
<1> HIDE DEF W, after, cs
<1>7. EndsBuild(sub, after, k)
  BY <1>3, <1>6 DEF EndsBuild, W
<1>8. Users(sub, k) = {} \/ W = {}
  BY <1>2 DEF KeyBooked, W
<1>9. /\ Books(after, plans', cs) /\ Room(plans', cs)
      /\ \A j \in DOMAIN plans' : plans'[j].at = version
  <2>1. CASE k \in DOMAIN builds
    <3>1. Users(sub, k) = {} /\ W # {}
      BY <1>2, <1>8, <2>1 DEF KeyBooked, BuildBooked, W
    <3>2. Users(after, k) = IF plan = NoKey THEN {} ELSE {r \in W : told[r] # NoSub}
      <4>1. \A r \in Requests : r \notin W => sub[r] = NoSub \/ sub[r].plan # k
        BY <3>1 DEF Users
      <4>2. W \in SUBSET Requests
        BY DEF W, Waiting
      <4>3. plan # NoKey => plan = k
        OBVIOUS
      <4>4. ASSUME NEW r \in Requests
            PROVE  after[r] # NoSub /\ after[r].plan = k <=> plan # NoKey /\ r \in W /\ told[r] # NoSub
        BY <1>3, <1>6, <4>1, <4>3
      <4> QED BY <4>2, <4>4 DEF Users
    <3>3. \A x \in Waiting(sub, k) : sub[x].plan = NoKey
      <4>1. ASSUME NEW x \in Waiting(sub, k) PROVE sub[x].plan = NoKey
        <5>1. x \in Requests /\ sub[x] # NoSub /\ sub[x].build = k
          BY <4>1 DEF Waiting
        <5>2. Placed(sub[x])
          BY <1>1, <5>1 DEF SubsSound, Sound, Mode
        <5> QED BY <1>3, <5>1, <5>2 DEF Placed
      <4> QED BY <4>1
    <3> DEFINE qs == plans'
    <3>4. Hands(after, plans, qs, k, version)
      BY <1>5, <3>2 DEF Hands
    <3>5. cs = Without(builds, k)
      BY DEF cs
    <3> HIDE DEF qs
    <3>6. /\ Books(after, qs, cs) /\ Room(qs, cs)
          /\ \A j \in DOMAIN qs : qs[j].at = IF j = k THEN version ELSE plans[j].at
      BY <1>1, <1>3, <1>7, <2>1, <3>3, <3>4, <3>5, BuildEnded
    <3>7. \A j \in DOMAIN qs : j # k => j \in DOMAIN plans
      BY <3>4 DEF Hands, With
    <3>8. \A j \in DOMAIN qs : qs[j].at = version
      BY <1>1, <3>6, <3>7 DEF PlansCurrent
    <3> QED BY <3>6, <3>8 DEF qs
  <2>2. CASE k \notin DOMAIN builds
    <3>1. W = {}
      BY <1>2, <2>2 DEF KeyBooked, BuildBooked, W
    <3>2. plans' = plans /\ \A x \in Requests : SameHold(sub[x], after[x])
      BY <1>5, <1>6, <3>1 DEF SameHold
    <3>3. Books(after, plans, builds)
      BY <1>1, <3>2, BooksSame
    <3>4. DOMAIN cs = DOMAIN builds /\ \A j \in DOMAIN builds : cs[j] = builds[j]
      BY <2>2 DEF cs, Without, Restrict
    <3>5. ASSUME NEW j \in Keys PROVE KeyBooked(after, plans, cs, j)
      <4>1. KeyBooked(after, plans, builds, j)
        BY <3>3 DEF Books
      <4> QED BY <3>4, <4>1, BooksOfKey
    <3>6. Books(after, plans, cs)
      BY <3>3, <3>4, <3>5 DEF Books
    <3>7. Room(plans, cs)
      BY <1>1, <3>4 DEF Room
    <3> QED BY <1>1, <3>2, <3>6, <3>7 DEF PlansCurrent
  <2> QED BY <2>1, <2>2
<1>10. SubsSound(after, reader, version)
  <2> SUFFICES ASSUME NEW r \in Requests, after[r] # NoSub PROVE Sound(after[r], reader[r], version)
    BY DEF SubsSound
  <2> QED BY <1>1, <1>6 DEF SubsSound
<1>11. builder' \in [Builders -> [phase : {"idle", "taken", "building"}, key : Keys \cup {NoKey},
                                  query : Queries \cup {NoQuery}, version : Nat]]
       /\ builder'[b] = Idle /\ Idle.phase = "idle"
       /\ \A c \in Builders : c # b => builder'[c] = builder[c]
  <2>1. Idle \in [phase : {"idle", "taken", "building"}, key : Keys \cup {NoKey},
                  query : Queries \cup {NoQuery}, version : Nat] /\ Idle.phase = "idle"
    BY DEF Idle
  <2>2. builder \in [Builders -> [phase : {"idle", "taken", "building"}, key : Keys \cup {NoKey},
                                  query : Queries \cup {NoQuery}, version : Nat]]
    BY <1>1 DEF Core
  <2> QED BY <1>5, <2>1, <2>2
<1>12. Core'
  <2>1. after \in [Requests -> {NoSub} \cup Subscription]
    <3>1. \A r \in Requests : after[r] \in {NoSub} \cup Subscription
      BY <1>10 DEF SubsSound, Sound
    <3> QED BY <1>5, <3>1
  <2>2. sub' \in [Requests -> {NoSub} \cup Subscription]
    BY <2>1 DEF after
  <2> QED BY <1>1, <1>5, <1>11, <2>2 DEF Core
<1>13. FibersSound(builder')
  BY <1>1, <1>11 DEF FibersSound
<1>14. Remembered(cs, buildQueue, builder')
  <2> SUFFICES ASSUME NEW j \in DOMAIN cs
               PROVE  IF cs[j].state = "queued" THEN Awaits(j, buildQueue, builder')
                      ELSE Runs(j, builder')
    BY DEF Remembered
  <2>1. j \in DOMAIN builds /\ j # k /\ cs[j] = builds[j]
    BY DEF cs, Without, Restrict
  <2>2. \A c \in Builders : builder[c].key = j => builder'[c] = builder[c]
    BY <1>11, <2>1
  <2> QED BY <1>1, <2>1, <2>2 DEF Remembered, Awaits, Runs
<1>15. ASSUME OnePerKey PROVE ServesOwnQuery'
  <2> SUFFICES ASSUME NEW x \in Requests, sub'[x] # NoSub, ~sub'[x].dirty, NEW p, p = sub'[x].query
               PROVE  sub'[x].rows = RowsOf(p, version)'
    BY DEF ServesOwnQuery, Subscribed
  <2>1. RowsOf(p, version)' = RowsOf(p, version)
    BY <1>5 DEF RowsOf
  <2>2. after[x] # NoSub /\ ~after[x].dirty /\ after[x].query = p
    BY DEF after
  <2>3. after[x].rows = RowsOf(p, version)
    <3>1. CASE x \in W
      <4>1. /\ sub[x] # NoSub /\ sub[x].query = p
            /\ sub[x].dirty => after[x].rows = RowsOf(p, version)
            /\ ~sub[x].dirty => after[x].rows = sub[x].rows
        BY <1>6, <1>15, <2>2, <3>1
      <4> QED BY <1>1, <1>15, <4>1 DEF ServesOwnQuery, Subscribed
    <3>2. CASE x \notin W
      <4>1. after[x] = sub[x]
        BY <1>6, <3>2
      <4> QED BY <1>1, <1>15, <2>2, <4>1 DEF ServesOwnQuery, Subscribed
    <3> QED BY <3>1, <3>2
  <2> QED BY <2>1, <2>3 DEF after
<1>16. /\ Books(sub', plans', builds') /\ Room(plans', builds') /\ SubsSound(sub', reader', version')
       /\ Remembered(builds', buildQueue', builder') /\ PlansCurrent'
  BY <1>5, <1>9, <1>10, <1>14 DEF after, PlansCurrent
<1> QED BY <1>12, <1>13, <1>15, <1>16 DEF IInv

(* Who waited for a build that is given up falls back to memory. *)
LEMMA DiscardEnds ==
  ASSUME IInv, NEW b \in Builders, builder[b].phase = "building",
         NEW k \in Keys, k = builder[b].key, Discard(k),
         builder' = [builder EXCEPT ![b] = Idle],
         UNCHANGED <<version, changed, reader, buildQueue, asked, open>>
  PROVE  IInv'
<1> DEFINE told == [r \in Requests |-> Discarded(sub[r])]
<1>1. Core /\ SubsSound(sub, reader, version)
  BY DEF IInv
<1>2. \A r \in Waiters(k) : r \in Requests /\ sub[r] # NoSub /\ sub[r].build = k
  <2>1. \A j \in Keys : BuildBooked(sub, builds, j)
    BY DEF IInv, Books, KeyBooked
  <2> QED BY <2>1 DEF Waiters, BuildBooked, Waiting
<1>3. ASSUME NEW r \in Waiters(k) PROVE EndsRight(sub[r], told[r], reader[r], NoKey)
  <2>1. Sound(sub[r], reader[r], version) /\ reader[r].rows \in Rows /\ sub[r].build # NoKey
    BY <1>1, <1>2, <1>3, NoKeyIsNone DEF SubsSound, Core
  <2>2. told[r] = Discarded(sub[r])
    BY <1>2, <1>3
  <2> DEFINE s == sub[r]
             rd == reader[r]
  <2> HIDE DEF s, rd
  <2>3. Ends(s, Discarded(s), rd, NoKey, RowsOf(s.query, version))
    BY <1>1, <2>1, WaiterDiscarded DEF s, rd
  <2> QED BY <2>2, <2>3 DEF EndsRight, s, rd
<1>4. EndsAll(b, k, NoKey, told)
  <2>1. sub' = [r \in Requests |-> IF r \in Waiters(k) THEN told[r] ELSE sub[r]]
    BY <1>2 DEF Discard
  <2> HIDE DEF told
  <2> QED BY <1>3, <2>1 DEF Discard, EndsAll
<1> HIDE DEF told
<1> QED BY <1>4, EndKeeps

(* A fiber whose build fails discards it. *)
LEMMA AbandonKeeps ==
  ASSUME IInv, NEW b \in Builders, Abandon(b)
  PROVE  IInv'
<1>1. FibersSound(builder)
  BY DEF IInv
<1>2. builder[b].key \in Keys
  BY <1>1, ActivePlanConstants DEF Abandon, FibersSound
<1> QED BY <1>2, DiscardEnds DEF Abandon

(* Who waited for a build that is installed gets its plan. *)
LEMMA InstallKeeps ==
  ASSUME IInv, NEW b \in Builders, Install(b)
  PROVE  IInv'
<1> DEFINE k == builder[b].key
           q == builder[b].query
           from == builder[b].version
           told == [r \in Requests |-> Installed(sub[r], k, q, from)]
<1>1. Core /\ SubsSound(sub, reader, version) /\ FibersSound(builder)
  BY DEF IInv
<1>2. /\ builder[b].phase = "building" /\ builder' = [builder EXCEPT ![b] = Idle]
      /\ UNCHANGED <<version, changed, reader, buildQueue, asked, open>>
      /\ (CaughtUp(from) /\ InstallPlan(k, q, from)) \/ Discard(k)
  BY DEF Install
<1>3. q \in Queries /\ k = KeyOf[q] /\ k \in Keys /\ from \in Nat /\ k # NoKey
  <2>1. q \in Queries /\ k = KeyOf[q]
    BY <1>1, <1>2 DEF FibersSound
  <2>2. k \in Keys /\ from \in Nat
    BY <1>1, <2>1, ActivePlanConstants DEF Core
  <2> QED BY <2>1, <2>2, NoKeyIsNone
<1>4. CASE Discard(k)
  BY <1>2, <1>3, <1>4, DiscardEnds
<1>5. CASE CaughtUp(from) /\ InstallPlan(k, q, from)
  <2>1. PlanVersion(from) = version
    BY <1>5 DEF CaughtUp, PlanVersion
  <2>2. \A r \in Waiters(k) : r \in Requests /\ sub[r] # NoSub /\ sub[r].build = k
    <3>1. \A j \in Keys : BuildBooked(sub, builds, j)
      BY DEF IInv, Books, KeyBooked
    <3> HIDE DEF k
    <3> QED BY <1>3, <3>1 DEF Waiters, BuildBooked, Waiting
  <2> HIDE DEF k, q, from
  <2>3. ASSUME NEW r \in Waiters(k) PROVE EndsRight(sub[r], told[r], reader[r], k)
    <3>1. Sound(sub[r], reader[r], version) /\ reader[r].rows \in Rows /\ sub[r].build = k
      BY <1>1, <2>2, <2>3 DEF SubsSound, Core
    <3>2. told[r] = Installed(sub[r], k, q, from)
      BY <2>2, <2>3
    <3> DEFINE s == sub[r]
               rd == reader[r]
    <3>3. s.build = k => k = KeyOf[s.query] /\ s.query \in Queries
      <4>1. Placed(s) /\ s \in Subscription
        BY <3>1 DEF Sound, Mode
      <4> QED BY <1>3, <4>1 DEF Placed, Subscription
    <3> HIDE DEF s, rd, told
    <3>4. Ends(s, Installed(s, k, q, from), rd, k, RowsOf(q, PlanVersion(from)))
      BY <1>1, <1>3, <3>1, WaiterInstalled DEF s, rd
    <3>5. OnePerKey => RowsOf(q, PlanVersion(from)) = RowsOf(s.query, version)
      <4>1. OnePerKey => s.query = q
        BY <1>3, <3>1, <3>3 DEF OnePerKey, s
      <4> QED BY <2>1, <4>1
    <3> QED BY <3>2, <3>4, <3>5 DEF EndsRight, s, rd
  <2>4. EndsAll(b, k, k, told)
    <3>1. sub' = [r \in Requests |-> IF r \in Waiters(k) THEN told[r] ELSE sub[r]]
      BY <1>5, <2>2 DEF InstallPlan
    <3>2. {r \in Waiters(k) : Installed(sub[r], k, q, from) # NoSub} = {r \in Waiters(k) : told[r] # NoSub}
      BY <2>2
    <3> HIDE DEF told
    <3> QED BY <1>2, <1>3, <1>5, <2>1, <2>3, <3>1, <3>2 DEF InstallPlan, EndsAll
  <2> HIDE DEF told
  <2>5. k = builder[b].key
    BY DEF k
  <2> QED BY <1>2, <1>3, <2>4, <2>5, EndKeeps
<1> QED BY <1>2, <1>4, <1>5

(* Every step keeps the invariant. *)
LEMMA StepKeeps ==
  ASSUME IInv, [Next]_vars
  PROVE  IInv'
<1>1. CASE UNCHANGED vars
  <2>1. ServesOwnQuery' = ServesOwnQuery
    BY <1>1 DEF vars, ServesOwnQuery, Subscribed, RowsOf
  <2>2. Core'
    BY <1>1 DEF IInv, Core, vars
  <2> QED BY <1>1, <2>1, <2>2 DEF IInv, vars, PlansCurrent
<1>2. ASSUME NEW r \in Requests, NEW q \in Queries, Subscribe(r, q) PROVE IInv'
  BY <1>2, SubscribeKeeps
<1>3. ASSUME NEW r \in Requests, Release(r) \/ Deliver(r) PROVE IInv'
  BY <1>3, ReleaseKeeps, DeliverKeeps
<1>4. ASSUME NEW relevant \in SUBSET Queries, NEW hits \in SUBSET relevant, Mutate(relevant, hits)
      PROVE  IInv'
  BY <1>4, MutateKeeps
<1>5. ASSUME NEW first \in SUBSET Queries, NEW second \in SUBSET Queries, MutateTogether(first, second)
      PROVE  IInv'
  BY <1>5, MutateTogetherKeeps
<1>6. ASSUME NEW b \in Builders, Build(b) PROVE IInv'
  BY <1>6, TakeKeeps, BeginKeeps, InstallKeeps, AbandonKeeps DEF Build
<1>7. ASSUME Shutdown PROVE IInv'
  BY <1>7, ShutdownKeeps
<1> QED BY <1>1, <1>2, <1>3, <1>4, <1>5, <1>6, <1>7 DEF Next

(* The invariant always holds. *)
THEOREM Inductive == Spec => []IInv
<1>1. Init => IInv
  BY InitKeeps
<1>2. IInv /\ [Next]_vars => IInv'
  BY StepKeeps
<1> QED BY <1>1, <1>2, PTL DEF Spec

-----------------------------------------------------------------------------
(* Counting *)

(* As many pairs of a key and a number as there are members of the sets    *)
(* that the keys name, when no two of them share one.                      *)
Numbered(c, K) == UNION {{k} \X (1 .. c[k]) : k \in K}

(* Numbering the members of each class counts them all. *)
LEMMA PairsCounted ==
  ASSUME NEW K, NEW c, NEW T, IsFiniteSet(T), NEW of \in [T -> K],
         \A k \in K : c[k] = Cardinality({x \in T : of[x] = k})
  PROVE  Cardinality(Numbered(c, K)) = Cardinality(T)
<1> DEFINE D == Numbered(c, K)
           U(k) == {x \in T : of[x] = k}
           F == [k \in K |-> CHOOSE f : f \in Bijection(1 .. c[k], U(k))]
           g == [d \in D |-> F[d[1]][d[2]]]
<1>1. ASSUME NEW k \in K PROVE F[k] \in Bijection(1 .. c[k], U(k))
  <2>1. U(k) \in SUBSET T
    OBVIOUS
  <2>2. IsFiniteSet(U(k))
    BY <2>1, FS_Subset
  <2>3. ExistsBijection(1 .. c[k], U(k))
    <3>1. c[k] = Cardinality(U(k))
      OBVIOUS
    <3> HIDE DEF U
    <3> QED BY <2>2, <3>1, FS_CardinalityType
  <2> DEFINE B == Bijection(1 .. c[k], U(k))
  <2>4. B # {} /\ F[k] = CHOOSE f : f \in B
    BY <2>3 DEF ExistsBijection
  <2> HIDE DEF B, F
  <2>5. F[k] \in B
    BY <2>4
  <2> QED BY <2>5 DEF B
<1> HIDE DEF F
<1>2. ASSUME NEW k \in K
      PROVE  /\ F[k] \in [1 .. c[k] -> U(k)]
             /\ \A i, j \in 1 .. c[k] : F[k][i] = F[k][j] => i = j
             /\ \A x \in U(k) : \E i \in 1 .. c[k] : F[k][i] = x
  BY <1>1 DEF Bijection, Injection, IsInjective, Surjection
<1>3. \A d \in D : \E k \in K : \E i \in 1 .. c[k] : d = <<k, i>>
  BY DEF Numbered
<1>4. \A k \in K : \A i \in 1 .. c[k] : <<k, i>> \in D
  BY DEF Numbered
<1> HIDE DEF D
<1>5. ASSUME NEW d \in D PROVE \E k \in K : \E i \in 1 .. c[k] : d = <<k, i>> /\ g[d] = F[k][i] /\ g[d] \in U(k)
  <2>0. PICK k \in K : \E i \in 1 .. c[k] : d = <<k, i>>
    BY <1>3
  <2>1. PICK i \in 1 .. c[k] : d = <<k, i>>
    BY <2>0
  <2>2. g[d] = F[k][i]
    BY <2>1
  <2>3. F[k][i] \in U(k)
    BY <1>2
  <2> HIDE DEF g
  <2> QED BY <2>1, <2>2, <2>3
<1>6. g \in [D -> T]
  BY <1>5
<1>7. ASSUME NEW a \in D, NEW b \in D, g[a] = g[b] PROVE a = b
  <2> HIDE DEF g, U
  <2>a. PICK k \in K : \E i \in 1 .. c[k] : a = <<k, i>> /\ g[a] = F[k][i] /\ g[a] \in U(k)
    BY <1>5
  <2>1. PICK i \in 1 .. c[k] : a = <<k, i>> /\ g[a] = F[k][i] /\ g[a] \in U(k)
    BY <2>a
  <2>b. PICK l \in K : \E j \in 1 .. c[l] : b = <<l, j>> /\ g[b] = F[l][j] /\ g[b] \in U(l)
    BY <1>5
  <2>2. PICK j \in 1 .. c[l] : b = <<l, j>> /\ g[b] = F[l][j] /\ g[b] \in U(l)
    BY <2>b
  <2> USE DEF U
  <2>3. k = l
    BY <1>7, <2>1, <2>2
  <2>4. i = j
    BY <1>2, <1>7, <2>1, <2>2, <2>3
  <2> QED BY <2>1, <2>2, <2>3, <2>4
<1>8. ASSUME NEW x \in T PROVE \E d \in D : g[d] = x
  <2>1. of[x] \in K /\ x \in U(of[x])
    OBVIOUS
  <2>2. PICK i \in 1 .. c[of[x]] : F[of[x]][i] = x
    BY <1>2, <2>1
  <2>3. <<of[x], i>> \in D
    BY <1>4, <2>1
  <2>4. g[<<of[x], i>>] = F[of[x]][i]
    BY <2>3
  <2> QED BY <2>2, <2>3, <2>4
<1> HIDE DEF g
<1>9. g \in Bijection(D, T)
  BY <1>6, <1>7, <1>8 DEF Bijection, Injection, IsInjective, Surjection
<1>10. ExistsBijection(D, T)
  BY <1>9 DEF ExistsBijection
<1>11. ExistsBijection(T, D)
  BY <1>10, Fun_ExistsBijSymmetric
<1>12. Cardinality(D) = Cardinality(T)
  BY <1>11, FS_Bijection
<1> QED BY <1>12 DEF D

(* Each subscription is served by a view, waits, fell back or was skipped. *)
LEMMA CountedOnce ==
  ASSUME IInv
  PROVE  EachCountedOnce
<1> DEFINE S == Subscribed
           V == {r \in S : sub[r].plan # NoKey}
           P == {r \in S : sub[r].build # NoKey}
           B == {r \in S : sub[r].fallback}
           X == {r \in S : sub[r].skipped}
<1>1. /\ Core /\ SubsSound(sub, reader, version) /\ S = Registered(sub) /\ IsFiniteSet(S)
      /\ \A k \in Keys : KeyBooked(sub, plans, builds, k)
      /\ DOMAIN plans \subseteq Keys /\ DOMAIN builds \subseteq Keys
  BY DEF IInv, Books, Subscribed, Registered
<1>2. ASSUME NEW r \in S PROVE r \in Requests /\ sub[r] \in Subscription /\ Placed(sub[r])
  BY <1>1 DEF SubsSound, Sound, Mode, Subscribed
<1>3. /\ V \in SUBSET S /\ P \in SUBSET S /\ B \in SUBSET S /\ X \in SUBSET S
      /\ V \cup P \cup B \cup X = S /\ V \cap P = {} /\ (V \cup P) \cap B = {}
      /\ (V \cup P \cup B) \cap X = {}
  <2>1. ASSUME NEW r \in S
        PROVE  /\ r \in V \/ r \in P \/ r \in B \/ r \in X
               /\ ~(r \in V /\ r \in P) /\ ~(r \in V /\ r \in B) /\ ~(r \in P /\ r \in B)
               /\ ~(r \in V /\ r \in X) /\ ~(r \in P /\ r \in X) /\ ~(r \in B /\ r \in X)
    BY <1>2 DEF Placed
  <2>2. V \in SUBSET S /\ P \in SUBSET S /\ B \in SUBSET S /\ X \in SUBSET S
    OBVIOUS
  <2> HIDE DEF S, V, P, B, X
  <2> QED BY <2>1, <2>2
<1>4. Cardinality(Numbered([k \in DOMAIN plans |-> plans[k].subscribers], DOMAIN plans)) = Cardinality(V)
  <2> DEFINE K == DOMAIN plans
             c == [k \in K |-> plans[k].subscribers]
             of == [r \in V |-> sub[r].plan]
  <2>1. IsFiniteSet(V)
    <3> HIDE DEF V
    <3> QED BY <1>1, <1>3, FS_Subset
  <2>2. ASSUME NEW r \in V PROVE sub[r].plan \in K
    <3>1. sub[r].plan \in Keys /\ r \in Users(sub, sub[r].plan)
      BY <1>2, <2>2 DEF Subscription, Subscribed, Users
    <3> QED BY <1>1, <3>1 DEF KeyBooked, PlanBooked
  <2>3. ASSUME NEW k \in K PROVE c[k] = Cardinality({r \in V : of[r] = k})
    <3>1. k \in Keys /\ k # NoKey
      BY <1>1, NoKeyIsNone
    <3>2. {r \in V : of[r] = k} = Users(sub, k)
      BY <3>1 DEF Users, Subscribed
    <3> HIDE DEF of, V
    <3> QED BY <1>1, <3>1, <3>2 DEF KeyBooked, PlanBooked
  <2>4. of \in [V -> K]
    BY <2>2
  <2> HIDE DEF K, c, of, V
  <2> QED BY <2>1, <2>3, <2>4, PairsCounted DEF c, K
<1>5. Metrics.views = Cardinality(V)
  <2> DEFINE c == [k \in DOMAIN plans |-> plans[k].subscribers]
  <2>1. UNION {{k} \X (1 .. plans[k].subscribers) : k \in DOMAIN plans} = Numbered(c, DOMAIN plans)
    BY DEF Numbered
  <2> HIDE DEF c, V
  <2>2. Metrics.views = Cardinality(UNION {{k} \X (1 .. plans[k].subscribers) : k \in DOMAIN plans})
    BY DEF Metrics
  <2> QED BY <1>4, <2>1, <2>2 DEF c
<1>6. Metrics.pending = Cardinality(P)
  <2> DEFINE D == UNION {{k} \X builds[k].requests : k \in DOMAIN builds}
             g == [r \in P |-> <<sub[r].build, r>>]
  <2>1. IsFiniteSet(P)
    <3> HIDE DEF P
    <3> QED BY <1>1, <1>3, FS_Subset
  <2>2. \A k \in DOMAIN builds : k # NoKey /\ builds[k].requests = Waiting(sub, k)
    BY <1>1, NoKeyIsNone DEF KeyBooked, BuildBooked
  <2>3. ASSUME NEW r \in P PROVE g[r] \in D
    <3>1. sub[r].build \in Keys /\ r \in Waiting(sub, sub[r].build)
      BY <1>2, <2>3 DEF Subscription, Subscribed, Waiting
    <3>2. sub[r].build \in DOMAIN builds
      BY <1>1, <3>1 DEF KeyBooked, BuildBooked
    <3> QED BY <2>2, <3>1, <3>2
  <2>4. ASSUME NEW d \in D PROVE \E r \in P : g[r] = d
    <3>1. PICK k \in DOMAIN builds : d \in {k} \X builds[k].requests
      OBVIOUS
    <3>2. PICK r \in Waiting(sub, k) : d = <<k, r>>
      BY <2>2, <3>1
    <3>3. r \in P /\ sub[r].build = k
      BY <2>2, <3>2 DEF Waiting, Subscribed
    <3> QED BY <3>2, <3>3
  <2>5. \A r, s \in P : g[r] = g[s] => r = s
    OBVIOUS
  <2>6. g \in [P -> D]
    BY <2>3
  <2> HIDE DEF D, g, P
  <2>7. g \in Bijection(P, D)
    BY <2>4, <2>5, <2>6 DEF Bijection, Injection, IsInjective, Surjection
  <2>8. Cardinality(D) = Cardinality(P)
    <3>1. ExistsBijection(P, D)
      BY <2>7 DEF ExistsBijection
    <3> QED BY <2>1, <3>1, FS_Bijection
  <2>9. Metrics.pending = Cardinality(D)
    BY DEF Metrics, D
  <2> QED BY <2>8, <2>9
<1>7. Metrics.fallbacks = Cardinality(B) /\ Metrics.skipped = Cardinality(X)
  BY DEF Metrics
<1> HIDE DEF S, V, P, B, X
<1>8. IsFiniteSet(V) /\ IsFiniteSet(P) /\ IsFiniteSet(B) /\ IsFiniteSet(X)
  BY <1>1, <1>3, FS_Subset
<1>9. Cardinality({}) = 0
  BY FS_EmptySet
<1>10. IsFiniteSet(V \cup P) /\ Cardinality(V \cup P) = Cardinality(V) + Cardinality(P) - 0
  BY <1>3, <1>8, <1>9, FS_Union
<1>11. /\ IsFiniteSet(V \cup P \cup B)
       /\ Cardinality(V \cup P \cup B) = Cardinality(V \cup P) + Cardinality(B) - 0
  BY <1>3, <1>8, <1>9, <1>10, FS_Union
<1>12. Cardinality(S) = Cardinality(V \cup P \cup B) + Cardinality(X) - 0
  BY <1>3, <1>8, <1>9, <1>11, FS_Union
<1>13. /\ Cardinality(V) \in Nat /\ Cardinality(P) \in Nat /\ Cardinality(B) \in Nat
       /\ Cardinality(X) \in Nat
  BY <1>8, FS_CardinalityType
<1>14. Cardinality(V) + Cardinality(P) + Cardinality(B) + Cardinality(X) = Cardinality(S)
  BY <1>10, <1>11, <1>12, <1>13
<1> QED BY <1>5, <1>6, <1>7, <1>14 DEF EachCountedOnce, S

(* The books say what admission is to keep. *)
LEMMA Admitted ==
  ASSUME IInv
  PROVE  AdmissionExact
<1>1. /\ Books(sub, plans, builds) /\ Room(plans, builds)
      /\ \A k \in Keys : KeyBooked(sub, plans, builds, k)
  BY DEF IInv, Books
<1>2. ASSUME NEW k \in Keys
      PROVE  LET users == {r \in Subscribed : sub[r].plan = k}
                 waiting == {r \in Subscribed : sub[r].build = k}
             IN  /\ k \in DOMAIN plans <=> users # {}
                 /\ k \in DOMAIN plans => plans[k].subscribers = Cardinality(users)
                 /\ k \in DOMAIN builds <=> waiting # {}
                 /\ k \in DOMAIN builds => builds[k].requests = waiting
                 /\ users = {} \/ waiting = {}
  <2>1. /\ {r \in Subscribed : sub[r].plan = k} = Users(sub, k)
        /\ {r \in Subscribed : sub[r].build = k} = Waiting(sub, k)
    BY DEF Subscribed, Users, Waiting
  <2> QED BY <1>1, <2>1 DEF KeyBooked, PlanBooked, BuildBooked
<1>3. Cardinality(DOMAIN plans) + Cardinality(DOMAIN builds) <= MaxActivePlans
  <2>1. Cardinality(DOMAIN plans \cup DOMAIN builds) = Cardinality(DOMAIN plans) + Cardinality(DOMAIN builds)
    BY <1>1, RoomCounted
  <2>2. Cardinality(DOMAIN plans \cup DOMAIN builds) <= MaxActivePlans
    BY <1>1 DEF Room
  <2> QED BY <2>1, <2>2
<1> QED BY <1>2, <1>3 DEF AdmissionExact

(* The invariant says the types. *)
LEMMA TypesHold ==
  ASSUME IInv
  PROVE  TypeOK
<1>1. /\ Core /\ DOMAIN plans \subseteq Keys /\ DOMAIN builds \subseteq Keys
      /\ \A k \in Keys : KeyBooked(sub, plans, builds, k)
  BY DEF IInv, Books
<1>2. \A k \in DOMAIN plans : plans[k] \in Plan
  BY <1>1 DEF KeyBooked, PlanBooked
<1>3. \A k \in DOMAIN builds : builds[k] \in Entry
  BY <1>1 DEF KeyBooked, BuildBooked
<1> QED BY <1>1, <1>2, <1>3 DEF TypeOK, Core, Plan, Entry

(* The books of the coordinator are right: types, admission within the     *)
(* limits, counts that agree with the subscriptions, current plans.        *)
THEOREM BooksAreRight == Spec => []PlansSound
<1>1. IInv => PlansSound
  BY TypesHold, Admitted, CountedOnce DEF IInv, PlansSound
<1> QED BY <1>1, Inductive, PTL

(* No build is forgotten, whatever is released and queued again meanwhile. *)
THEOREM BuildsAreNotForgotten == Spec => []NoBuildForgotten
<1>1. IInv => NoBuildForgotten
  BY Zenon DEF IInv, Remembered, Awaits, Runs, NoBuildForgotten
<1> QED BY <1>1, Inductive, PTL

(* A reader ends with the rows the worker believes it has, and is told that *)
(* they are stale exactly while they are.                                  *)
THEOREM ReadersAreTold == Spec => []StaleIsTold
<1>1. IInv => StaleIsTold
  BY DEF IInv, SubsSound, Sound, Told, Shows, StaleIsTold, Subscribed
<1> QED BY <1>1, Inductive, PTL

(* Where no two queries share a plan key, who is not marked stale has the  *)
(* rows of its own query.  (Two that differ in their window alone do share *)
(* one: WindowsPerSubscription.)                                           *)
THEOREM OwnQueriesServed ==
  ASSUME \A p, q \in Queries : KeyOf[p] = KeyOf[q] => p = q
  PROVE  Spec => []ServesOwnQuery
<1>1. OnePerKey
  BY DEF OnePerKey
<1>2. IInv => ServesOwnQuery
  BY <1>1 DEF IInv
<1> QED BY <1>2, Inductive, PTL
=============================================================================
