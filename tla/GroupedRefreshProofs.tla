------------------------- MODULE GroupedRefreshProofs -------------------------
(***************************************************************************)
(* That nobody is left stale, for any requests, queries, fibers, queue     *)
(* limits and mutations, although ids may be used again; and, when they    *)
(* are not, that who is not stale is right.  The proof turns on what the   *)
(* marks of a subscription say of the lists of the coordinator.            *)
(***************************************************************************)
EXTENDS GroupedRefresh, FanoutQueueProofs

Entry == [requests : SUBSET Requests, pending : SUBSET Requests, running : SUBSET Requests,
          state : {"queued", "running"}]

Subs == [Requests -> Subscription \cup {NoSub}]

(* Only registered subscriptions with the query of an entry are on its     *)
(* lists, and a list of each kind exists in one state only.                *)
EntrySound(subs, q, entry) ==
  /\ entry \in Entry
  /\ \A r \in entry.requests \cup entry.pending \cup entry.running :
       subs[r] # NoSub /\ subs[r].query = q
  /\ entry.state = "queued" => entry.pending = {} /\ entry.running = {} /\ entry.requests # {}
  /\ entry.state = "running" => entry.requests = {}

ListsSound(subs, es) ==
  DOMAIN es \subseteq Queries /\ \A q \in DOMAIN es : EntrySound(subs, q, es[q])

(* What the marks of a subscription say: it is on the list of who will be  *)
(* refreshed next, or the refresh under way is for it.                     *)
OnNextList(es, q, r) ==
  /\ q \in DOMAIN es
  /\ IF es[q].state = "queued" THEN r \in es[q].requests ELSE r \in es[q].pending

InRefresh(es, q, r, fl) ==
  /\ q \in DOMAIN es /\ es[q].state = "running"
  /\ r \in es[q].running /\ r \in fl[q].requests

MarksSound(subs, es, fl) ==
  \A r \in Requests : subs[r] # NoSub =>
    /\ subs[r].scheduled => OnNextList(es, subs[r].query, r)
    /\ subs[r].inFlight => InRefresh(es, subs[r].query, r, fl)

(* Who is marked is stale, and who is stale is marked, except for R. *)
Owed(subs, R) ==
  \A r \in Requests : subs[r] # NoSub =>
    /\ subs[r].scheduled \/ subs[r].inFlight => subs[r].dirty # NotDirty
    /\ subs[r].dirty # NotDirty => subs[r].scheduled \/ subs[r].inFlight \/ r \in R

(* A refresh that runs has a fiber in flight, and no fiber is in flight    *)
(* without one; a refresh that is queued has a fiber that will begin it.   *)
FibersSound(es, sl, fl) ==
  \A q \in Queries :
    /\ fl[q].phase # "none" <=> q \in DOMAIN es /\ es[q].state = "running"
    /\ q \in DOMAIN es /\ es[q].state = "queued" => sl[q] > 0

IInv ==
  /\ TypeOK
  /\ ListsSound(sub, entries)
  /\ MarksSound(sub, entries, flight)
  /\ Owed(sub, {})
  /\ FibersSound(entries, sleeping, flight)

-----------------------------------------------------------------------------
(* The three changes of a mark leave a subscription a subscription. *)
LEMMA Marked ==
  ASSUME NEW s \in Subscription
  PROVE  /\ MarkScheduled(s) \in Subscription /\ MarkScheduled(s) # NoSub
         /\ MarkScheduled(s) = [s EXCEPT !.scheduled = TRUE]
         /\ MarkInFlight(s) \in Subscription /\ MarkInFlight(s) # NoSub
         /\ MarkInFlight(s) = [s EXCEPT !.scheduled = FALSE, !.inFlight = TRUE]
         /\ MarkIdle(s) \in Subscription /\ MarkIdle(s) # NoSub
         /\ MarkIdle(s) = [s EXCEPT !.scheduled = FALSE, !.inFlight = FALSE]
BY NoSubscription DEF MarkScheduled, MarkInFlight, MarkIdle, Subscription

(* Who joins a list of its query: it is queued, joined, or waits. *)
LEMMA JoinedSound ==
  ASSUME NEW subs \in Subs, NEW es, ListsSound(subs, es), NEW q \in Queries,
         NEW new \in SUBSET Requests, new # {} \/ q \in DOMAIN es,
         \A r \in new : subs[r] # NoSub /\ subs[r].query = q
  PROVE  LET entry == Joined(es, q, new)
         IN  /\ EntrySound(subs, q, entry)
             /\ q \notin DOMAIN es => entry.state = "queued"
             /\ q \in DOMAIN es => /\ entry.state = es[q].state /\ entry.running = es[q].running
                                   /\ es[q].requests \subseteq entry.requests
                                   /\ es[q].pending \subseteq entry.pending
             /\ \A r \in new : IF entry.state = "queued" THEN r \in entry.requests
                                                         ELSE r \in entry.pending
<1> DEFINE entry == Joined(es, q, new)
<1>1. CASE q \notin DOMAIN es
  <2>1. entry = [requests |-> new, pending |-> {}, running |-> {}, state |-> "queued"]
    BY <1>1 DEF Joined
  <2> HIDE DEF entry
  <2>2. /\ entry.requests = new /\ entry.pending = {} /\ entry.running = {}
        /\ entry.state = "queued" /\ entry \in Entry
    BY <2>1 DEF Entry
  <2>3. new # {}
    BY <1>1
  <2>4. EntrySound(subs, q, entry)
    BY <2>2, <2>3 DEF EntrySound
  <2> QED BY <1>1, <2>2, <2>4 DEF entry
<1>2. CASE q \in DOMAIN es
  <2>1. EntrySound(subs, q, es[q])
    BY <1>2 DEF ListsSound
  <2>2. es[q] \in Entry
    BY <2>1 DEF EntrySound
  <2>3. CASE es[q].state = "queued"
    <3>1. entry = [es[q] EXCEPT !.requests = es[q].requests \cup new]
      BY <1>2, <2>3 DEF Joined
    <3> HIDE DEF entry
    <3>2. /\ entry.requests = es[q].requests \cup new /\ entry.pending = es[q].pending
          /\ entry.running = es[q].running /\ entry.state = es[q].state /\ entry \in Entry
      BY <2>2, <3>1 DEF Entry
    <3>3. EntrySound(subs, q, entry)
      BY <2>1, <2>3, <3>2 DEF EntrySound
    <3> QED BY <1>2, <2>3, <3>2, <3>3 DEF entry
  <2>4. CASE es[q].state = "running"
    <3>1. entry = [es[q] EXCEPT !.pending = es[q].pending \cup new]
      BY <1>2, <2>4 DEF Joined
    <3> HIDE DEF entry
    <3>2. /\ entry.pending = es[q].pending \cup new /\ entry.requests = es[q].requests
          /\ entry.running = es[q].running /\ entry.state = es[q].state /\ entry \in Entry
      BY <2>2, <3>1 DEF Entry
    <3>3. EntrySound(subs, q, entry)
      BY <2>1, <2>4, <3>2 DEF EntrySound
    <3> QED BY <1>2, <2>4, <3>2, <3>3 DEF entry
  <2> QED BY <2>2, <2>3, <2>4 DEF Entry
<1> QED BY <1>1, <1>2

(* How a change of marks, or of what is queued, leaves a subscription: of  *)
(* the same query, in the same refresh.                                    *)
SameMarks(s, t) == t.query = s.query /\ t.scheduled = s.scheduled /\ t.inFlight = s.inFlight

(* The lists say nothing of subscriptions but their queries. *)
LEMMA ListsKeep ==
  ASSUME NEW subs, NEW after, NEW es, ListsSound(subs, es),
         \A r \in Requests : subs[r] # NoSub => after[r] # NoSub /\ after[r].query = subs[r].query
  PROVE  ListsSound(after, es)
<1> SUFFICES ASSUME NEW q \in DOMAIN es PROVE EntrySound(after, q, es[q])
  BY DEF ListsSound
<1>1. EntrySound(subs, q, es[q])
  BY DEF ListsSound
<1> QED BY <1>1 DEF EntrySound, Entry

(* schedule: whoever of R is owed a refresh is on a list afterwards, and a *)
(* refresh that starts has a fiber.                                        *)
LEMMA ScheduledSound ==
  ASSUME NEW subs \in Subs, NEW es, NEW fl, NEW sl \in [Queries -> Nat],
         NEW R \in SUBSET Requests,
         ListsSound(subs, es), MarksSound(subs, es, fl), Owed(subs, R), FibersSound(es, sl, fl),
         \A r \in R : subs[r] # NoSub => subs[r].dirty # NotDirty,
         NEW s, s = Scheduled(subs, es, R),
         NEW sl2, sl2 = [q \in Queries |-> sl[q] + IF q \in s.forked THEN 1 ELSE 0]
  PROVE  /\ s.subs \in Subs /\ sl2 \in [Queries -> Nat]
         /\ ListsSound(s.subs, s.entries) /\ MarksSound(s.subs, s.entries, fl)
         /\ Owed(s.subs, {}) /\ FibersSound(s.entries, sl2, fl)
         /\ \A r \in Requests :
              \/ s.subs[r] = subs[r]
              \/ subs[r] \in Subscription /\ s.subs[r] = MarkScheduled(subs[r])
<1> DEFINE New(q) == Schedulable(subs, R, q)
           starts == {q \in Queries : New(q) # {} /\ q \notin DOMAIN es}
           all == UNION {New(q) : q \in Queries}
<1>1. \A q \in Queries, r \in Requests :
        r \in New(q) <=> /\ r \in R /\ subs[r] # NoSub /\ subs[r].query = q
                         /\ ~subs[r].scheduled /\ ~subs[r].inFlight
  BY DEF Schedulable
<1>2. /\ s.subs = [r \in Requests |->
                     IF \E q \in Queries : r \in New(q) THEN MarkScheduled(subs[r]) ELSE subs[r]]
      /\ s.entries = [q \in DOMAIN es \cup starts |-> Joined(es, q, New(q))]
      /\ s.forked = starts
  BY DEF Scheduled
<1>3. \A r \in Requests : subs[r] # NoSub => subs[r] \in Subscription /\ subs[r].query \in Queries
  BY DEF Subs, Subscription
<1> DEFINE Due(r) == /\ r \in R /\ subs[r] # NoSub
                     /\ ~subs[r].scheduled /\ ~subs[r].inFlight
<1>4. \A q \in Queries : New(q) \in SUBSET Requests
  BY DEF Schedulable
<1>5. \A r \in Requests : (\E q \in Queries : r \in New(q)) <=> Due(r)
  BY <1>1, <1>3
<1>6. \A r \in Requests : Due(r) => r \in New(subs[r].query)
  BY <1>1, <1>3
<1>7. DOMAIN es \subseteq Queries /\ starts \subseteq Queries /\ DOMAIN s.entries = DOMAIN es \cup starts
  BY <1>2 DEF ListsSound
<1> HIDE DEF New, starts
<1>8. \A r \in Requests : s.subs[r] = IF Due(r) THEN MarkScheduled(subs[r]) ELSE subs[r]
  BY <1>2, <1>5
<1> HIDE DEF Due
<1>9. \A r \in Requests : Due(r) => subs[r] # NoSub /\ r \in R
  BY DEF Due
<1>10. s.subs \in Subs
  <2>1. \A r \in Requests : s.subs[r] \in Subscription \cup {NoSub}
    BY ZenonT(30), <1>3, <1>8, <1>9, Marked DEF Subs
  <2> QED BY <1>2, <2>1 DEF Subs
<1>11. \A r \in Requests : subs[r] # NoSub =>
         /\ s.subs[r] # NoSub /\ s.subs[r].query = subs[r].query
         /\ s.subs[r].dirty = subs[r].dirty /\ s.subs[r].inFlight = subs[r].inFlight
         /\ IF Due(r) THEN s.subs[r].scheduled ELSE s.subs[r].scheduled = subs[r].scheduled
  <2> SUFFICES ASSUME NEW r \in Requests, subs[r] # NoSub
               PROVE  /\ s.subs[r] # NoSub /\ s.subs[r].query = subs[r].query
                      /\ s.subs[r].dirty = subs[r].dirty /\ s.subs[r].inFlight = subs[r].inFlight
                      /\ IF Due(r) THEN s.subs[r].scheduled
                                   ELSE s.subs[r].scheduled = subs[r].scheduled
    OBVIOUS
  <2>1. subs[r] \in Subscription
    BY <1>3
  <2>2. CASE Due(r)
    <3>1. s.subs[r] = [subs[r] EXCEPT !.scheduled = TRUE] /\ s.subs[r] # NoSub
      BY <1>8, <2>1, <2>2, Marked
    <3> QED BY <2>1, <2>2, <3>1 DEF Subscription
  <2>3. CASE ~ Due(r)
    BY <1>8, <2>3
  <2> QED BY <2>2, <2>3
<1>12. \A r \in Requests : subs[r] = NoSub => s.subs[r] = NoSub
  BY <1>8, <1>9
<1>13. ASSUME NEW q \in DOMAIN s.entries
       PROVE  /\ q \in Queries /\ s.entries[q] = Joined(es, q, New(q))
              /\ EntrySound(subs, q, s.entries[q])
              /\ q \notin DOMAIN es => s.entries[q].state = "queued"
              /\ q \in DOMAIN es => /\ s.entries[q].state = es[q].state
                                    /\ s.entries[q].running = es[q].running
                                    /\ es[q].requests \subseteq s.entries[q].requests
                                    /\ es[q].pending \subseteq s.entries[q].pending
              /\ \A r \in New(q) : IF s.entries[q].state = "queued" THEN r \in s.entries[q].requests
                                                                    ELSE r \in s.entries[q].pending
  <2>1. q \in Queries /\ q \in DOMAIN es \cup starts
    BY <1>7
  <2>joined. s.entries[q] = Joined(es, q, New(q))
    BY <1>2, <2>1
  <2>needed. New(q) # {} \/ q \in DOMAIN es
    BY <2>1 DEF starts
  <2>4. \A r \in New(q) : subs[r] # NoSub /\ subs[r].query = q
    BY <1>1, <1>4, <2>1
  <2>5. New(q) \in SUBSET Requests
    BY <1>4, <2>1
  <2> QED BY <2>1, <2>joined, <2>needed, <2>4, <2>5, JoinedSound
<1>14. ListsSound(s.subs, s.entries)
  <2>1. ListsSound(subs, s.entries)
    BY <1>7, <1>13 DEF ListsSound
  <2> QED BY <1>11, <2>1, ListsKeep
<1>15. \A q \in Queries : New(q) # {} => q \in DOMAIN s.entries
  BY <1>7 DEF starts
<1>16. MarksSound(s.subs, s.entries, fl)
  <2> SUFFICES ASSUME NEW r \in Requests, s.subs[r] # NoSub
               PROVE  /\ s.subs[r].scheduled => OnNextList(s.entries, s.subs[r].query, r)
                      /\ s.subs[r].inFlight => InRefresh(s.entries, s.subs[r].query, r, fl)
    BY DEF MarksSound
  <2> DEFINE q == subs[r].query
  <2>1. subs[r] # NoSub /\ q \in Queries /\ s.subs[r].query = q
    BY <1>3, <1>11, <1>12
  <2>2. ASSUME s.subs[r].inFlight PROVE InRefresh(s.entries, q, r, fl)
    <3>1. InRefresh(es, q, r, fl)
      BY <1>11, <2>1, <2>2 DEF MarksSound
    <3> QED BY <1>7, <1>13, <3>1 DEF InRefresh
  <2>3. ASSUME s.subs[r].scheduled PROVE OnNextList(s.entries, q, r)
    <3>1. CASE Due(r)
      <4>1. r \in New(q)
        BY <1>6, <3>1
      <4>2. q \in DOMAIN s.entries
        BY <1>15, <2>1, <4>1
      <4> QED BY <1>13, <4>1, <4>2 DEF OnNextList
    <3>2. CASE ~ Due(r)
      <4>1. OnNextList(es, q, r)
        BY <1>11, <2>1, <2>3, <3>2 DEF MarksSound
      <4>2. q \in DOMAIN es /\ q \in DOMAIN s.entries
        BY <1>7, <4>1 DEF OnNextList
      <4> QED BY <1>13, <4>1, <4>2 DEF OnNextList
    <3> QED BY <3>1, <3>2
  <2> QED BY <2>1, <2>2, <2>3
<1>17. Owed(s.subs, {})
  <2> SUFFICES ASSUME NEW r \in Requests, s.subs[r] # NoSub
               PROVE  /\ s.subs[r].scheduled \/ s.subs[r].inFlight => s.subs[r].dirty # NotDirty
                      /\ s.subs[r].dirty # NotDirty => s.subs[r].scheduled \/ s.subs[r].inFlight
    BY DEF Owed
  <2>1. subs[r] # NoSub
    BY <1>12
  <2>2. CASE Due(r)
    BY <1>9, <1>11, <2>1, <2>2
  <2>3. CASE ~ Due(r)
    <3>1. /\ s.subs[r].scheduled = subs[r].scheduled /\ s.subs[r].inFlight = subs[r].inFlight
          /\ s.subs[r].dirty = subs[r].dirty
      BY <1>11, <2>1, <2>3
    <3>2. /\ subs[r].scheduled \/ subs[r].inFlight => subs[r].dirty # NotDirty
          /\ subs[r].dirty # NotDirty => subs[r].scheduled \/ subs[r].inFlight \/ r \in R
      BY <2>1 DEF Owed
    <3>3. r \in R => subs[r].scheduled \/ subs[r].inFlight
      BY <2>1, <2>3 DEF Due
    <3> QED BY <3>1, <3>2, <3>3
  <2> QED BY <2>2, <2>3
<1>18. sl2 \in [Queries -> Nat]
  OBVIOUS
<1>19. FibersSound(s.entries, sl2, fl)
  <2> SUFFICES ASSUME NEW q \in Queries
               PROVE  /\ fl[q].phase # "none" <=> q \in DOMAIN s.entries /\ s.entries[q].state = "running"
                      /\ q \in DOMAIN s.entries /\ s.entries[q].state = "queued" => sl2[q] > 0
    BY DEF FibersSound
  <2>1. /\ fl[q].phase # "none" <=> q \in DOMAIN es /\ es[q].state = "running"
        /\ q \in DOMAIN es /\ es[q].state = "queued" => sl[q] > 0
    BY DEF FibersSound
  <2>2. /\ q \in DOMAIN es => q \in DOMAIN s.entries /\ s.entries[q].state = es[q].state
        /\ q \notin DOMAIN es /\ q \in DOMAIN s.entries => s.entries[q].state = "queued" /\ q \in s.forked
    BY <1>2, <1>7, <1>13
  <2>3. sl[q] \in Nat /\ sl2[q] = sl[q] + (IF q \in s.forked THEN 1 ELSE 0)
    OBVIOUS
  <2>4. sl2[q] >= sl[q] /\ (q \in s.forked => sl2[q] > 0)
    BY <2>3
  <2> QED BY <2>1, <2>2, <2>3, <2>4
<1>20. \A r \in Requests : \/ s.subs[r] = subs[r]
                           \/ subs[r] \in Subscription /\ s.subs[r] = MarkScheduled(subs[r])
  BY <1>3, <1>8, <1>9
<1> QED BY <1>10, <1>14, <1>16, <1>17, <1>18, <1>19, <1>20

(* Who is not of R is registered, with the query that it had. *)
KeptOutside(subs, after, R) ==
  \A r \in Requests \ R : subs[r] # NoSub => after[r] # NoSub /\ after[r].query = subs[r].query

(* Nobody of R waits for a refresh. *)
Unmarked(subs, R) ==
  \A r \in R : subs[r] # NoSub => ~subs[r].scheduled /\ ~subs[r].inFlight

(* release: the requests R are on no list any more, the others where they  *)
(* were, and a refresh that runs has its entry still.                      *)
LEMMA ReleaseSound ==
  ASSUME NEW subs, NEW after, NEW es, NEW fl, NEW sl, NEW R \in SUBSET Requests,
         ListsSound(subs, es), MarksSound(after, es, fl), FibersSound(es, sl, fl),
         KeptOutside(subs, after, R), Unmarked(after, R),
         NEW left, left = ReleaseRequests(es, R)
  PROVE  /\ ListsSound(after, left) /\ MarksSound(after, left, fl) /\ FibersSound(left, sl, fl)
         /\ DOMAIN left \subseteq DOMAIN es
<1> DEFINE Left(q) == [es[q] EXCEPT !.requests = es[q].requests \ R, !.pending = es[q].pending \ R,
                                    !.running = es[q].running \ R]
           over == {q \in DOMAIN es :
                      es[q].state = "queued" /\ Left(q).requests \cup Left(q).pending = {}}
<1>1. left = [q \in DOMAIN es \ over |-> Left(q)]
  BY DEF ReleaseRequests
<1>2. ASSUME NEW q \in DOMAIN es
      PROVE  /\ Left(q) \in Entry /\ Left(q).state = es[q].state
             /\ Left(q).requests = es[q].requests \ R /\ Left(q).pending = es[q].pending \ R
             /\ Left(q).running = es[q].running \ R
             /\ EntrySound(subs, q, es[q]) /\ q \in Queries
  <2>1. EntrySound(subs, q, es[q]) /\ q \in Queries
    BY DEF ListsSound
  <2>2. es[q] \in Entry
    BY <2>1 DEF EntrySound
  <2> QED BY <2>1, <2>2 DEF Entry
<1> HIDE DEF Left
<1>3. ASSUME NEW q \in DOMAIN left
      PROVE  /\ q \in DOMAIN es /\ q \notin over /\ left[q] = Left(q) /\ q \in Queries
  BY <1>1, <1>2
<1>4. ASSUME NEW q \in DOMAIN es, q \notin DOMAIN left
      PROVE  es[q].state = "queued" /\ es[q].requests \subseteq R
  <2>1. q \in over
    BY <1>1, <1>4
  <2> QED BY <1>2, <2>1
<1>5. ASSUME NEW q \in DOMAIN left PROVE EntrySound(after, q, left[q])
  <2>1. /\ Left(q) \in Entry /\ Left(q).state = es[q].state
        /\ Left(q).requests = es[q].requests \ R /\ Left(q).pending = es[q].pending \ R
        /\ Left(q).running = es[q].running \ R /\ EntrySound(subs, q, es[q])
    BY <1>2, <1>3
  <2>2. left[q] = Left(q)
    BY <1>3
  <2>known. \A r \in Left(q).requests \cup Left(q).pending \cup Left(q).running :
          after[r] # NoSub /\ after[r].query = q
    BY <2>1 DEF EntrySound, Entry, KeptOutside
  <2>whileQueued. Left(q).state = "queued" =>
          Left(q).pending = {} /\ Left(q).running = {} /\ Left(q).requests # {}
    <3>1. q \notin over
      BY <1>3
    <3> QED BY <1>3, <2>1, <3>1 DEF EntrySound
  <2>whileRunning. Left(q).state = "running" => Left(q).requests = {}
    BY <2>1 DEF EntrySound
  <2> QED BY <2>1, <2>2, <2>known, <2>whileQueued, <2>whileRunning DEF EntrySound
<1>6. ListsSound(after, left)
  BY <1>3, <1>5 DEF ListsSound
<1>7. MarksSound(after, left, fl)
  <2> SUFFICES ASSUME NEW r \in Requests, after[r] # NoSub
               PROVE  /\ after[r].scheduled => OnNextList(left, after[r].query, r)
                      /\ after[r].inFlight => InRefresh(left, after[r].query, r, fl)
    BY DEF MarksSound
  <2> DEFINE q == after[r].query
  <2>1. /\ after[r].scheduled => OnNextList(es, q, r)
        /\ after[r].inFlight => InRefresh(es, q, r, fl)
    BY DEF MarksSound
  <2>2. after[r].scheduled \/ after[r].inFlight => r \notin R
    BY DEF Unmarked
  <2> HIDE DEF q
  <2>3. ASSUME after[r].scheduled PROVE OnNextList(left, q, r)
    <3>1. q \in DOMAIN es /\ r \notin R
          /\ IF es[q].state = "queued" THEN r \in es[q].requests ELSE r \in es[q].pending
      BY <2>1, <2>2, <2>3 DEF OnNextList
    <3>2. q \in DOMAIN left
      BY <1>4, <3>1
    <3>3. left[q] = Left(q)
      BY <1>3, <3>2
    <3> QED BY <1>2, <3>1, <3>2, <3>3 DEF OnNextList
  <2>4. ASSUME after[r].inFlight PROVE InRefresh(left, q, r, fl)
    <3>1. /\ q \in DOMAIN es /\ r \notin R /\ es[q].state = "running"
          /\ r \in es[q].running /\ r \in fl[q].requests
      BY <2>1, <2>2, <2>4 DEF InRefresh
    <3>2. q \in DOMAIN left
      BY <1>4, <3>1
    <3>3. left[q] = Left(q)
      BY <1>3, <3>2
    <3> QED BY <1>2, <3>1, <3>2, <3>3 DEF InRefresh
  <2> QED BY <2>3, <2>4 DEF q
<1>8. FibersSound(left, sl, fl)
  <2> SUFFICES ASSUME NEW q \in Queries
               PROVE  /\ fl[q].phase # "none" <=> q \in DOMAIN left /\ left[q].state = "running"
                      /\ q \in DOMAIN left /\ left[q].state = "queued" => sl[q] > 0
    BY DEF FibersSound
  <2>1. /\ fl[q].phase # "none" <=> q \in DOMAIN es /\ es[q].state = "running"
        /\ q \in DOMAIN es /\ es[q].state = "queued" => sl[q] > 0
    BY DEF FibersSound
  <2>2. q \in DOMAIN left => q \in DOMAIN es /\ left[q].state = es[q].state
    BY <1>2, <1>3
  <2>3. q \in DOMAIN es /\ es[q].state = "running" => q \in DOMAIN left
    BY <1>4
  <2> QED BY <2>1, <2>2, <2>3
<1> QED BY <1>3, <1>6, <1>7, <1>8

-----------------------------------------------------------------------------
(* Types *)

Quiet == {event \in Events(Rows) : event.type # "delta"}

QuietQueue == [events : Seq(Quiet), pending : {0}, lag : {0}]

(* A subscription is a record of which only some fields change. *)
LEMMA SubscriptionFields ==
  /\ Subscription = [query : Queries, dirty : Nat, scheduled : BOOLEAN, inFlight : BOOLEAN,
                     rows : Rows, queue : QuietQueue]
  /\ NoRows \in Rows /\ QuietQueue \subseteq [events : Seq(Quiet), pending : {0}, lag : {0}]
BY DEF Subscription, QuietQueue, Quiet, Rows

(* Rows of a query: a pair whose version is the newest that changed them. *)
LEMMA RowsOfSound ==
  ASSUME TypeOK, NEW q \in Queries, NEW v \in Nat
  PROVE  /\ RowsOf(q, v) \in Rows
         /\ \A w \in Nat : {c \in changed[q] : c <= v} = {c \in changed[q] : c <= w}
                             => RowsOf(q, v) = RowsOf(q, w)
<1> DEFINE S == {c \in changed[q] : c <= v} \cup {0}
<1>1. version \in Nat /\ changed[q] \subseteq 1 .. version
  BY DEF TypeOK
<1>2. S \in SUBSET (0 .. version) /\ S # {}
  BY <1>1
<1> HIDE DEF S
<1>3. Max(S) \in 0 .. version
  BY <1>1, <1>2, MaxIsGreatest
<1>4. RowsOf(q, v) = <<q, Max(S)>>
  BY DEF RowsOf, S
<1>5. RowsOf(q, v) \in Rows
  BY <1>1, <1>3, <1>4 DEF Rows
<1> QED BY <1>5 DEF RowsOf

(* What is put into a queue. *)
LEMMA SnapshotQuiet ==
  ASSUME NEW v \in Nat, NEW rows \in Rows
  PROVE  /\ SnapshotEvent(v, rows) \in Quiet /\ SnapshotEvent(v, rows).type = "snapshot"
         /\ SnapshotEvent(v, rows).rows = rows
<1>1. << >> \in Seq(Operations(Rows))
  OBVIOUS
<1>2. SnapshotEvent(v, rows) \in [type : {"delta", "snapshot", "status"}, seq : Nat, from : Nat,
                                  to : Nat, ops : Seq(Operations(Rows)), rows : Rows]
  BY <1>1 DEF SnapshotEvent
<1> QED BY <1>2 DEF SnapshotEvent, Quiet, Events

(* A status is an event without operations. *)
LEMMA StatusQuiet ==
  ASSUME NEW v \in Nat
  PROVE  StatusEvent(v) \in Quiet /\ StatusEvent(v).type = "status"
<1>1. << >> \in Seq(Operations(Rows)) /\ NoRows \in Rows
  BY DEF Rows
<1>2. StatusEvent(v) \in [type : {"delta", "snapshot", "status"}, seq : Nat, from : Nat,
                          to : Nat, ops : Seq(Operations(Rows)), rows : Rows]
  BY <1>1 DEF StatusEvent
<1> QED BY <1>2 DEF StatusEvent, Quiet, Events

(* An offer that is taken leaves a queue from which a reader that has rows *)
(* takes those of the snapshot, or the same as before and staleness.       *)
LEMMA Offered ==
  ASSUME NEW s \in Subscription, NEW event \in Quiet, OfferFull(s.queue, event).offered,
         NEW rows \in Rows, NEW stale
  PROVE  LET next == OfferFull(s.queue, event).queue
         IN  /\ next \in QuietQueue
             /\ RowsShown(rows, next.events) =
                  IF event.type = "snapshot" THEN event.rows
                                             ELSE RowsShown(rows, s.queue.events)
             /\ StaleShown(stale, next.events) <=> event.type = "status"
<1> DEFINE q == s.queue
           next == OfferFull(q, event).queue
<1>1. q.events \in Seq(Quiet)
  BY SubscriptionFields DEF QuietQueue
<1>2. Quiet \in SUBSET Events(Rows) /\ event.type # "delta" /\ \A e \in Quiet : e.type # "delta"
  BY DEF Quiet
<1>3. NoRows \in Rows
  BY DEF Rows
<1>0. OfferFull(q, event).offered
  OBVIOUS
<1>4. Tells(Rows, Quiet, rows, stale, q.events, event, next)
  <2> HIDE DEF q
  <2> QED BY <1>0, <1>1, <1>2, <1>3, OfferFullTells
<1> HIDE DEF q, next
<1>5. next \in QuietQueue
  BY <1>2, <1>4 DEF Tells, QuietQueue
<1> QED BY <1>4, <1>5 DEF Tells, q, next

(* What the handlers make of a subscription. *)
LEMMA FreshSound ==
  ASSUME TypeOK, NEW q \in Queries
  PROVE  /\ Fresh(q) \in Subscription /\ Fresh(q) # NoSub
         /\ Fresh(q).query = q /\ Fresh(q).dirty = NotDirty
         /\ ~Fresh(q).scheduled /\ ~Fresh(q).inFlight /\ Fresh(q).rows = RowsOf(q, version)
         /\ Fresh(q).queue.events = <<SnapshotEvent(version, RowsOf(q, version))>>
<1>1. version \in Nat /\ RowsOf(q, version) \in Rows
  BY RowsOfSound DEF TypeOK
<1> DEFINE first == SnapshotEvent(version, RowsOf(q, version))
<1>2. first \in Quiet
  BY <1>1, SnapshotQuiet
<1> HIDE DEF first
<1>3. <<first>> \in Seq(Quiet)
  BY <1>2
<1>4. [EmptyQueue EXCEPT !.events = <<first>>] = [events |-> <<first>>, pending |-> 0, lag |-> 0]
  BY DEF EmptyQueue
<1> DEFINE queue == [events |-> <<first>>, pending |-> 0, lag |-> 0]
<1>5. queue \in QuietQueue /\ queue.events = <<first>>
  BY <1>3 DEF QuietQueue
<1> HIDE DEF queue
<1>6. Fresh(q) = [query |-> q, dirty |-> 0, scheduled |-> FALSE, inFlight |-> FALSE,
                  rows |-> RowsOf(q, version), queue |-> queue]
  BY <1>4 DEF Fresh, first, queue, NotDirty
<1>7. Fresh(q) \in Subscription
  BY <1>1, <1>5, <1>6, SubscriptionFields
<1>8. Fresh(q).queue.events = <<first>> /\ Fresh(q).dirty = NotDirty
  BY <1>5, <1>6 DEF NotDirty
<1>9. /\ Fresh(q).query = q /\ ~Fresh(q).scheduled /\ ~Fresh(q).inFlight
      /\ Fresh(q).rows = RowsOf(q, version)
  BY <1>6
<1> QED BY <1>7, <1>8, <1>9, NoSubscription DEF first

-----------------------------------------------------------------------------
(* The steps *)

(* Only the marks of a subscription change. *)
OnlyMarks(s, t) ==
  t # NoSub /\ t.query = s.query /\ t.dirty = s.dirty /\ t.rows = s.rows /\ t.queue = s.queue

(* What the lists and marks need of the types, and what they give. *)
LEMMA TypesHold ==
  ASSUME version' \in Nat, asked' \in Nat, open' \in BOOLEAN, used' \subseteq Requests,
         changed' \in [Queries -> SUBSET (1 .. version')],
         sub' \in Subs, \A r \in Requests : sub'[r] # NoSub => sub'[r].dirty <= version',
         reader' \in [Requests -> [rows : Rows, stale : BOOLEAN]],
         ListsSound(sub, entries)', sleeping' \in [Queries -> Nat],
         flight' \in [Queries -> [phase : {"none", "asking", "computed"},
                                  requests : SUBSET Requests, version : Nat]]
  PROVE  TypeOK'
<1>1. /\ DOMAIN entries' \subseteq Queries
      /\ \A q \in DOMAIN entries' :
           entries'[q] \in Entry /\ (entries'[q].state = "queued" => entries'[q].requests # {})
  BY DEF ListsSound, EntrySound
<1> QED BY <1>1 DEF TypeOK, Subs, Subscribed, Entry

(* A fan-out, a reset or an installation becomes the state. *)
LEMMA BecomeSound ==
  ASSUME NEW subs \in Subs, NEW es, NEW fl, NEW R \in SUBSET Requests,
         sleeping \in [Queries -> Nat],
         ListsSound(subs, es), MarksSound(subs, es, fl), Owed(subs, R),
         FibersSound(es, sleeping, fl),
         \A r \in R : subs[r] # NoSub => subs[r].dirty # NotDirty,
         Become(Scheduled(subs, es, R)), flight' = fl
  PROVE  /\ sub' \in Subs /\ sleeping' \in [Queries -> Nat]
         /\ ListsSound(sub, entries)' /\ MarksSound(sub, entries, flight)'
         /\ Owed(sub, {})' /\ FibersSound(entries, sleeping, flight)'
         /\ \A r \in Requests :
              IF subs[r] = NoSub THEN sub'[r] = NoSub
              ELSE OnlyMarks(subs[r], sub'[r]) /\ sub'[r].inFlight = subs[r].inFlight
<1> DEFINE s == Scheduled(subs, es, R)
           sl2 == [q \in Queries |-> sleeping[q] + IF q \in s.forked THEN 1 ELSE 0]
<1>1. sub' = s.subs /\ entries' = s.entries /\ sleeping' = sl2
  BY DEF Become
<1> HIDE DEF s
<1>2. /\ s.subs \in Subs /\ sl2 \in [Queries -> Nat]
      /\ ListsSound(s.subs, s.entries) /\ MarksSound(s.subs, s.entries, fl)
      /\ Owed(s.subs, {}) /\ FibersSound(s.entries, sl2, fl)
      /\ \A r \in Requests : \/ s.subs[r] = subs[r]
                             \/ subs[r] \in Subscription /\ s.subs[r] = MarkScheduled(subs[r])
  BY ScheduledSound DEF s
<1> HIDE DEF sl2
<1>3. ListsSound(sub, entries)' /\ MarksSound(sub, entries, flight)'
  BY <1>1, <1>2
<1>4. Owed(sub, {})' /\ FibersSound(entries, sleeping, flight)'
  BY <1>1, <1>2
<1>5. ASSUME NEW r \in Requests
      PROVE  IF subs[r] = NoSub THEN sub'[r] = NoSub
             ELSE OnlyMarks(subs[r], sub'[r]) /\ sub'[r].inFlight = subs[r].inFlight
  <2>1. CASE sub'[r] = subs[r]
    BY <2>1 DEF OnlyMarks
  <2>2. CASE subs[r] \in Subscription /\ sub'[r] = MarkScheduled(subs[r])
    <3>1. sub'[r] = [subs[r] EXCEPT !.scheduled = TRUE] /\ sub'[r] # NoSub /\ subs[r] # NoSub
      BY <2>2, Marked, NoSubscription
    <3> QED BY <2>2, <3>1 DEF OnlyMarks, Subscription
  <2> QED BY <1>1, <1>2, <2>1, <2>2
<1> QED BY <1>1, <1>2, <1>3, <1>4, <1>5

(* A subscribe, with the refresh its rows may need. *)
LEMMA SubscribeKeeps ==
  ASSUME IInv, NEW r \in Requests, NEW q \in Queries, Subscribe(r, q)
  PROVE  IInv'
<1> USE DEF IInv
<1>1. /\ sub' = [sub EXCEPT ![r] = Fresh(q)] /\ entries' = ReleaseRequests(entries, {r})
      /\ UNCHANGED <<version, changed, sleeping, flight, open>>
      /\ asked' = asked + 1 /\ used' = used \cup {r}
      /\ reader' = [reader EXCEPT ![r] = [rows |-> NoRows, stale |-> FALSE]]
  BY DEF Subscribe
<1>2. /\ Fresh(q) \in Subscription /\ Fresh(q) # NoSub /\ Fresh(q).dirty = 0
      /\ ~Fresh(q).scheduled /\ ~Fresh(q).inFlight
  BY FreshSound DEF NotDirty
<1>3. sub \in Subs
  BY DEF TypeOK, Subs
<1>4. sub' \in Subs /\ \A o \in Requests : sub'[o] = IF o = r THEN Fresh(q) ELSE sub[o]
  BY <1>1, <1>2, <1>3 DEF Subs
<1>5. MarksSound(sub', entries, flight)
  BY <1>2, <1>4 DEF MarksSound
<1>6. ListsSound(sub', entries') /\ MarksSound(sub', entries', flight)
      /\ FibersSound(entries', sleeping, flight)
  <2>1. KeptOutside(sub, sub', {r}) /\ Unmarked(sub', {r}) /\ {r} \in SUBSET Requests
    BY <1>2, <1>4 DEF KeptOutside, Unmarked
  <2> QED BY <1>1, <1>5, <2>1, ReleaseSound
<1>7. ListsSound(sub, entries)' /\ MarksSound(sub, entries, flight)'
      /\ FibersSound(entries, sleeping, flight)'
  BY <1>1, <1>6
<1>8. Owed(sub, {})'
  BY <1>2, <1>4 DEF Owed, NotDirty
<1>9. TypeOK'
  <2>1. \A o \in Requests : sub'[o] # NoSub => sub'[o].dirty <= version'
    BY <1>1, <1>2, <1>4 DEF TypeOK, Subscribed
  <2>2. reader' \in [Requests -> [rows : Rows, stale : BOOLEAN]]
    BY <1>1, SubscriptionFields DEF TypeOK
  <2>3. /\ version' \in Nat /\ asked' \in Nat /\ open' \in BOOLEAN /\ used' \subseteq Requests
        /\ changed' \in [Queries -> SUBSET (1 .. version')] /\ sleeping' \in [Queries -> Nat]
        /\ flight' \in [Queries -> [phase : {"none", "asking", "computed"},
                                    requests : SUBSET Requests, version : Nat]]
    BY <1>1 DEF TypeOK
  <2> QED BY <1>4, <1>7, <2>1, <2>2, <2>3, TypesHold
<1> QED BY <1>7, <1>8, <1>9

(* An unsubscribe or a finalizer, which takes the id off the refreshes. *)
LEMMA ReleaseKeeps ==
  ASSUME IInv, NEW r \in Requests, Release(r)
  PROVE  IInv'
<1> USE DEF IInv
<1>1. /\ sub' = [sub EXCEPT ![r] = NoSub] /\ entries' = ReleaseRequests(entries, {r})
      /\ UNCHANGED <<version, changed, reader, used, asked, sleeping, flight, open>>
  BY DEF Release
<1>2. sub \in Subs
  BY DEF TypeOK, Subs
<1>3. sub' \in Subs /\ \A o \in Requests : sub'[o] = IF o = r THEN NoSub ELSE sub[o]
  BY <1>1, <1>2 DEF Subs
<1>4. MarksSound(sub', entries, flight)
  BY <1>3 DEF MarksSound
<1>5. ListsSound(sub', entries') /\ MarksSound(sub', entries', flight)
      /\ FibersSound(entries', sleeping, flight)
  <2>1. KeptOutside(sub, sub', {r}) /\ Unmarked(sub', {r}) /\ {r} \in SUBSET Requests
    BY <1>3 DEF KeptOutside, Unmarked
  <2> QED BY <1>1, <1>4, <2>1, ReleaseSound
<1>6. ListsSound(sub, entries)' /\ MarksSound(sub, entries, flight)'
      /\ FibersSound(entries, sleeping, flight)'
  BY <1>1, <1>5
<1>7. Owed(sub, {})'
  BY <1>3 DEF Owed
<1>8. TypeOK'
  <2>1. \A o \in Requests : sub'[o] # NoSub => sub'[o].dirty <= version'
    BY <1>1, <1>3 DEF TypeOK, Subscribed
  <2> QED BY <1>1, <1>3, <1>6, <2>1, TypesHold DEF TypeOK
<1> QED BY <1>6, <1>7, <1>8

(* What a mutation makes of a subscription it concerns, but for its mark. *)
Staled(s, t, v) ==
  /\ t.query = s.query /\ t.inFlight = s.inFlight /\ t.rows = s.rows /\ t.dirty = v
  /\ OfferFull(s.queue, StatusEvent(v)).offered
  /\ t.queue = OfferFull(s.queue, StatusEvent(v)).queue

(* A mutation leaves a subscription as it is, or dirty up to it and told. *)
MutateEffect(relevant) ==
  \A r \in Requests : sub'[r] # NoSub =>
    /\ sub[r] # NoSub
    /\ IF sub[r].query \in relevant
         THEN Staled(sub[r], sub'[r], version + 1)
         ELSE OnlyMarks(sub[r], sub'[r]) /\ sub'[r].inFlight = sub[r].inFlight

(* A mutation marks who it concerns as stale and schedules them. *)
LEMMA MutateKeeps ==
  ASSUME IInv, NEW relevant \in SUBSET Queries, NEW hits \in SUBSET relevant,
         Mutate(relevant, hits)
  PROVE  IInv' /\ MutateEffect(relevant)
<1> USE DEF IInv
<1> DEFINE v == version + 1
           Stale(s) ==
             LET offer == OfferFull(s.queue, StatusEvent(v))
             IN  IF offer.offered THEN [s EXCEPT !.dirty = v, !.queue = offer.queue] ELSE NoSub
           concerned == {r \in Subscribed : sub[r].query \in relevant}
           told == [r \in Requests |-> IF r \in concerned THEN Stale(sub[r]) ELSE sub[r]]
           removed == {r \in concerned : told[r] = NoSub}
           left == ReleaseRequests(entries, removed)
<1>1. /\ version' = v /\ Become(Scheduled(told, left, concerned))
      /\ changed' = [q \in Queries |-> IF q \in hits THEN changed[q] \cup {v} ELSE changed[q]]
      /\ UNCHANGED <<reader, used, asked, flight, open>>
  BY DEF Mutate
<1>2. version \in Nat /\ sub \in Subs /\ v \in Nat /\ v > 0 /\ sleeping \in [Queries -> Nat]
  BY DEF TypeOK, Subs
<1>3. ASSUME NEW s \in Subscription
      PROVE  Stale(s) # NoSub =>
               /\ Stale(s) \in Subscription /\ Staled(s, Stale(s), v)
               /\ Stale(s).scheduled = s.scheduled
  <2> DEFINE offer == OfferFull(s.queue, StatusEvent(v))
  <2>1. CASE offer.offered
    <3>1. offer.queue \in QuietQueue
      BY <1>2, <2>1, StatusQuiet, SubscriptionFields, Offered
    <3>2. Stale(s) = [s EXCEPT !.dirty = v, !.queue = offer.queue]
      BY <2>1
    <3> DEFINE t == Stale(s)
    <3> HIDE DEF offer, t, v
    <3>3. /\ t \in Subscription /\ t.query = s.query /\ t.inFlight = s.inFlight
          /\ t.rows = s.rows /\ t.dirty = v /\ t.scheduled = s.scheduled /\ t.queue = offer.queue
      BY <1>2, <3>1, <3>2, SubscriptionFields DEF t
    <3> QED BY <2>1, <3>3 DEF t, offer, Staled
  <2>2. CASE ~ offer.offered
    BY <2>2
  <2> QED BY <2>1, <2>2
<1> HIDE DEF Stale, v
<1>4. \A r \in Requests :
        /\ r \in concerned <=> sub[r] # NoSub /\ sub[r].query \in relevant
        /\ sub[r] # NoSub => sub[r] \in Subscription
        /\ told[r] = IF r \in concerned THEN Stale(sub[r]) ELSE sub[r]
  BY <1>2 DEF Subs, Subscribed
<1>5. concerned \in SUBSET Requests /\ removed \in SUBSET Requests /\ removed \subseteq concerned
  BY DEF Subscribed
<1>6. told \in Subs
  <2>1. \A r \in Requests : told[r] \in Subscription \cup {NoSub}
    BY <1>3, <1>4
  <2> QED BY <2>1 DEF Subs
<1>7. \A r \in removed : told[r] = NoSub
  OBVIOUS
<1>8. \A r \in Requests : sub[r] # NoSub /\ r \notin removed => told[r] # NoSub
  BY <1>4
<1> HIDE DEF concerned, told, removed, left
<1>9. ASSUME NEW r \in Requests, told[r] # NoSub
      PROVE  /\ sub[r] # NoSub /\ sub[r] \in Subscription /\ told[r].query = sub[r].query
             /\ told[r].scheduled = sub[r].scheduled /\ told[r].inFlight = sub[r].inFlight
             /\ IF r \in concerned THEN Staled(sub[r], told[r], v) ELSE told[r] = sub[r]
  <2>1. CASE r \in concerned
    BY <1>3, <1>4, <1>9, <2>1 DEF Staled
  <2>2. CASE r \notin concerned
    BY <1>4, <1>9, <2>2
  <2> QED BY <2>1, <2>2
<1>10. MarksSound(told, entries, flight)
  BY <1>9 DEF MarksSound
<1>11. KeptOutside(sub, told, removed) /\ Unmarked(told, removed)
  BY <1>7, <1>8, <1>9 DEF KeptOutside, Unmarked
<1>12. ListsSound(told, left) /\ MarksSound(told, left, flight) /\ FibersSound(left, sleeping, flight)
  BY <1>5, <1>10, <1>11, ReleaseSound DEF left
<1>13. Owed(told, concerned)
  <2> SUFFICES ASSUME NEW r \in Requests, told[r] # NoSub
               PROVE  /\ told[r].scheduled \/ told[r].inFlight => told[r].dirty # NotDirty
                      /\ told[r].dirty # NotDirty =>
                           told[r].scheduled \/ told[r].inFlight \/ r \in concerned
    BY DEF Owed
  <2>1. /\ sub[r].scheduled \/ sub[r].inFlight => sub[r].dirty # NotDirty
        /\ sub[r].dirty # NotDirty => sub[r].scheduled \/ sub[r].inFlight
    BY <1>9 DEF Owed
  <2>2. CASE r \in concerned
    BY <1>2, <1>9, <2>2 DEF Staled, NotDirty
  <2>3. CASE r \notin concerned
    BY <1>9, <2>1, <2>3
  <2> QED BY <2>2, <2>3
<1>14. \A r \in concerned : told[r] # NoSub => told[r].dirty # NotDirty
  BY <1>2, <1>5, <1>9 DEF Staled, NotDirty
<1>15. flight' = flight
  BY <1>1
<1>16. /\ sub' \in Subs /\ sleeping' \in [Queries -> Nat]
       /\ ListsSound(sub, entries)' /\ MarksSound(sub, entries, flight)'
       /\ Owed(sub, {})' /\ FibersSound(entries, sleeping, flight)'
       /\ \A r \in Requests :
            IF told[r] = NoSub THEN sub'[r] = NoSub
            ELSE OnlyMarks(told[r], sub'[r]) /\ sub'[r].inFlight = told[r].inFlight
  BY <1>1, <1>2, <1>5, <1>6, <1>12, <1>13, <1>14, <1>15, BecomeSound
<1>17. ASSUME NEW r \in Requests, sub'[r] # NoSub
       PROVE  /\ sub[r] # NoSub
              /\ IF sub[r].query \in relevant
                   THEN Staled(sub[r], sub'[r], v)
                   ELSE OnlyMarks(sub[r], sub'[r]) /\ sub'[r].inFlight = sub[r].inFlight
  <2>1. told[r] # NoSub /\ OnlyMarks(told[r], sub'[r]) /\ sub'[r].inFlight = told[r].inFlight
    BY <1>16, <1>17
  <2>2. CASE r \in concerned
    BY <1>4, <1>9, <2>1, <2>2 DEF Staled, OnlyMarks
  <2>3. CASE r \notin concerned
    BY <1>4, <1>9, <2>1, <2>3
  <2> QED BY <2>2, <2>3
<1>18. TypeOK'
  <2>1. \A r \in Requests : sub'[r] # NoSub => sub'[r].dirty <= version'
    <3> SUFFICES ASSUME NEW r \in Requests, sub'[r] # NoSub PROVE sub'[r].dirty <= version'
      OBVIOUS
    <3>1. sub[r].dirty \in Nat /\ sub[r].dirty <= version
      BY <1>2, <1>4, <1>17 DEF TypeOK, Subscribed, Subscription
    <3>2. sub'[r].dirty = v \/ sub'[r].dirty = sub[r].dirty
      BY <1>17 DEF Staled, OnlyMarks
    <3> QED BY <1>1, <1>2, <3>1, <3>2 DEF v
  <2>2. changed' \in [Queries -> SUBSET (1 .. version')]
    BY <1>1, <1>2 DEF TypeOK, v
  <2>3. /\ version' \in Nat /\ asked' \in Nat /\ open' \in BOOLEAN /\ used' \subseteq Requests
        /\ reader' \in [Requests -> [rows : Rows, stale : BOOLEAN]]
        /\ flight' \in [Queries -> [phase : {"none", "asking", "computed"},
                                    requests : SUBSET Requests, version : Nat]]
    BY <1>1, <1>2 DEF TypeOK
  <2> QED BY <1>16, <2>1, <2>2, <2>3, TypesHold
<1>19. MutateEffect(relevant)
  BY <1>17 DEF MutateEffect, v
<1> QED BY <1>16, <1>18, <1>19

(* Nobody waits for q any more, and nobody waits who did not wait before. *)
LetGo(subs, after, q) ==
  \A r \in Requests : after[r] # NoSub =>
    /\ subs[r] # NoSub /\ after[r].query = subs[r].query
    /\ IF after[r].query = q
         THEN ~after[r].scheduled /\ ~after[r].inFlight
         ELSE /\ after[r].scheduled => subs[r].scheduled
              /\ after[r].inFlight => subs[r].inFlight

SameElsewhere(f, g, q) == \A p \in Queries \ {q} : g[p] = f[p]

(* The entry of q can go when nobody waits for it. *)
LEMMA WithoutSound ==
  ASSUME NEW subs, NEW after, NEW es, NEW fl, NEW sl, NEW q \in Queries,
         ListsSound(subs, es), MarksSound(subs, es, fl), FibersSound(es, sl, fl),
         LetGo(subs, after, q),
         NEW fl2, fl2[q].phase = "none", SameElsewhere(fl, fl2, q),
         NEW sl2, SameElsewhere(sl, sl2, q),
         NEW left, left = Restrict(es, DOMAIN es \ {q})
  PROVE  ListsSound(subs, left) /\ MarksSound(after, left, fl2) /\ FibersSound(left, sl2, fl2)
<1>1. /\ DOMAIN left = DOMAIN es \ {q} /\ \A p \in DOMAIN left : left[p] = es[p]
  BY DEF Restrict
<1>2. ListsSound(subs, left)
  BY <1>1 DEF ListsSound
<1>3. MarksSound(after, left, fl2)
  <2> SUFFICES ASSUME NEW r \in Requests, after[r] # NoSub
               PROVE  /\ after[r].scheduled => OnNextList(left, after[r].query, r)
                      /\ after[r].inFlight => InRefresh(left, after[r].query, r, fl2)
    BY DEF MarksSound
  <2> DEFINE p == after[r].query
  <2>1. /\ subs[r] # NoSub /\ subs[r].query = p
        /\ p = q => ~after[r].scheduled /\ ~after[r].inFlight
        /\ p # q => /\ after[r].scheduled => subs[r].scheduled
                    /\ after[r].inFlight => subs[r].inFlight
    BY DEF LetGo
  <2>2. /\ subs[r].scheduled => OnNextList(es, p, r)
        /\ subs[r].inFlight => InRefresh(es, p, r, fl)
    BY <2>1 DEF MarksSound
  <2> HIDE DEF p
  <2>3. p # q /\ OnNextList(es, p, r) => OnNextList(left, p, r)
    BY <1>1 DEF OnNextList
  <2>4. p # q /\ InRefresh(es, p, r, fl) => InRefresh(left, p, r, fl2)
    <3>1. p \in DOMAIN es => p \in Queries
      BY DEF ListsSound
    <3> QED BY <1>1, <3>1 DEF InRefresh, SameElsewhere
  <2> QED BY <2>1, <2>2, <2>3, <2>4 DEF p
<1>4. FibersSound(left, sl2, fl2)
  BY <1>1 DEF FibersSound, SameElsewhere
<1> QED BY <1>2, <1>3, <1>4

(* Who is refreshed is registered with the query, and its marks say so. *)
Begun(q, due) ==
  /\ flight'[q].phase # "none" /\ flight'[q].requests = due /\ flight'[q].version = version
  /\ \A r \in due : sub'[r] # NoSub /\ sub'[r].query = q /\ sub'[r].inFlight

(* A step of the refresh of q changes nothing of a subscription but its    *)
(* marks, and those of subscriptions with another query not at all.        *)
MarksOf(q) ==
  /\ \A r \in Requests : sub'[r] # NoSub =>
       /\ sub[r] # NoSub /\ OnlyMarks(sub[r], sub'[r])
       /\ sub[r].query # q => sub'[r].inFlight = sub[r].inFlight
  /\ \A p \in Queries \ {q} : flight'[p] = flight[p]

(* What such a step makes of the refresh itself: it begins, ends, or goes  *)
(* on for some of the subscriptions it was begun for.                      *)
RefreshEffect(q) ==
  /\ MarksOf(q)
  /\ \/ flight'[q] = NoFlight
     \/ \E due \in SUBSET Requests : Begun(q, due)
     \/ /\ sub' = sub /\ flight'[q].requests \subseteq flight[q].requests
        /\ flight'[q].version \in {flight[q].version, version}

(* A fiber begins a refresh and takes its list with it. *)
LEMMA BeginKeeps ==
  ASSUME IInv, NEW q \in Queries, Begin(q)
  PROVE  IInv' /\ RefreshEffect(q)
<1> USE DEF IInv
<1> DEFINE due == {r \in entries[q].requests : sub[r] # NoSub /\ sub[r].dirty # NotDirty}
<1>1. /\ sleeping[q] > 0 /\ sleeping' = [sleeping EXCEPT ![q] = sleeping[q] - 1]
      /\ UNCHANGED <<version, changed, reader, used, asked, open>>
  BY DEF Begin
<1>2. sub \in Subs /\ sleeping \in [Queries -> Nat] /\ version \in Nat
  BY DEF TypeOK, Subs
<1>3. /\ sleeping' \in [Queries -> Nat] /\ sleeping'[q] = sleeping[q] - 1
      /\ \A p \in Queries \ {q} : sleeping'[p] = sleeping[p]
  BY <1>1, <1>2
<1>4. /\ version' \in Nat /\ asked' \in Nat /\ open' \in BOOLEAN /\ used' \subseteq Requests
      /\ changed' \in [Queries -> SUBSET (1 .. version')]
      /\ reader' \in [Requests -> [rows : Rows, stale : BOOLEAN]]
  BY <1>1 DEF TypeOK
<1>5. /\ flight \in [Queries -> [phase : {"none", "asking", "computed"},
                                 requests : SUBSET Requests, version : Nat]]
      /\ \A r \in Requests : sub[r] # NoSub => sub[r] \in Subscription /\ sub[r].dirty <= version
  BY <1>2 DEF TypeOK, Subs, Subscribed
<1>6. CASE q \notin DOMAIN entries \/ entries[q].state = "running"
  <2>1. UNCHANGED <<sub, entries, flight>>
    BY <1>6 DEF Begin
  <2>2. FibersSound(entries', sleeping', flight')
    BY <1>3, <1>6, <2>1 DEF FibersSound
  <2>3. ListsSound(sub, entries)' /\ MarksSound(sub, entries, flight)' /\ Owed(sub, {})'
        /\ FibersSound(entries, sleeping, flight)'
    BY <2>1, <2>2
  <2>4. TypeOK'
    BY <1>1, <1>2, <1>3, <1>4, <1>5, <2>1, <2>3, TypesHold
  <2>5. MarksOf(q)
    BY <2>1 DEF MarksOf, OnlyMarks
  <2> QED BY <2>1, <2>3, <2>4, <2>5 DEF RefreshEffect
<1>7. CASE q \in DOMAIN entries /\ entries[q].state # "running"
  <2>1. EntrySound(sub, q, entries[q])
    BY <1>7 DEF ListsSound
  <2>2. /\ entries[q].state = "queued" /\ entries[q].pending = {} /\ entries[q].running = {}
        /\ entries[q] \in Entry /\ flight[q].phase = "none"
    BY <1>7, <2>1 DEF EntrySound, Entry, FibersSound
  <2>3. \A r \in Requests : sub[r] # NoSub /\ sub[r].query = q =>
          /\ sub[r].scheduled => r \in due
          /\ ~sub[r].inFlight
    BY <2>2 DEF MarksSound, OnNextList, InRefresh, Owed
  <2>4. \A r \in due : r \in Requests /\ sub[r] # NoSub /\ sub[r].query = q /\ sub[r].dirty # NotDirty
    BY <2>1, <2>2 DEF EntrySound, Entry
  <2>5. CASE due = {}
    <3>1. entries' = Restrict(entries, DOMAIN entries \ {q}) /\ UNCHANGED <<sub, flight>>
      BY <1>7, <2>5 DEF Begin
    <3>2. LetGo(sub, sub, q)
      BY <2>3, <2>5 DEF LetGo
    <3>a. SameElsewhere(flight, flight, q) /\ SameElsewhere(sleeping, sleeping', q)
      BY <1>3 DEF SameElsewhere
    <3>3. ListsSound(sub, entries') /\ MarksSound(sub, entries', flight)
          /\ FibersSound(entries', sleeping', flight)
      BY <2>2, <3>1, <3>2, <3>a, WithoutSound
    <3>4. ListsSound(sub, entries)' /\ MarksSound(sub, entries, flight)'
          /\ FibersSound(entries, sleeping, flight)' /\ Owed(sub, {})'
      BY <3>1, <3>3
    <3>5. TypeOK'
      BY <1>1, <1>2, <1>3, <1>4, <1>5, <3>1, <3>4, TypesHold
    <3>6. MarksOf(q)
      BY <3>1 DEF MarksOf, OnlyMarks
    <3> QED BY <3>1, <3>4, <3>5, <3>6 DEF RefreshEffect
  <2>6. CASE due # {}
    <3>1. /\ entries' = [entries EXCEPT ![q].requests = {}, ![q].running = due, ![q].state = "running"]
          /\ sub' = [r \in Requests |-> IF r \in due THEN MarkInFlight(sub[r]) ELSE sub[r]]
          /\ flight' = [flight EXCEPT ![q] = [phase |-> "asking", requests |-> due,
                                              version |-> version]]
      BY <1>7, <2>6 DEF Begin
    <3>2. due \in SUBSET Requests
      BY <2>4
    <3> HIDE DEF due
    <3>3. /\ DOMAIN entries' = DOMAIN entries /\ \A p \in DOMAIN entries : p # q => entries'[p] = entries[p]
          /\ entries'[q] = [entries[q] EXCEPT !.requests = {}, !.running = due, !.state = "running"]
      BY <1>7, <3>1
    <3>4. /\ entries'[q] \in Entry /\ entries'[q].requests = {} /\ entries'[q].pending = {}
          /\ entries'[q].running = due /\ entries'[q].state = "running"
      BY <2>2, <3>2, <3>3 DEF Entry
    <3>5. /\ \A p \in Queries \ {q} : flight'[p] = flight[p]
          /\ flight'[q] = [phase |-> "asking", requests |-> due, version |-> version]
          /\ flight' \in [Queries -> [phase : {"none", "asking", "computed"},
                                      requests : SUBSET Requests, version : Nat]]
      BY <1>2, <1>5, <3>1, <3>2
    <3>6. flight'[q].phase = "asking" /\ flight'[q].requests = due /\ flight'[q].version = version
      BY <3>5
    <3>7. ASSUME NEW r \in Requests
          PROVE  /\ sub[r] = NoSub <=> sub'[r] = NoSub
                 /\ sub[r] # NoSub =>
                      /\ sub'[r] \in Subscription /\ OnlyMarks(sub[r], sub'[r])
                      /\ IF r \in due THEN sub'[r].inFlight /\ ~sub'[r].scheduled
                                      ELSE sub'[r] = sub[r]
      <4>1. CASE r \in due
        <5>1. sub[r] \in Subscription /\ sub[r] # NoSub
          BY <1>5, <2>4, <4>1
        <5>2. /\ sub'[r] \in Subscription /\ sub'[r] # NoSub
              /\ sub'[r] = [sub[r] EXCEPT !.scheduled = FALSE, !.inFlight = TRUE]
          BY <3>1, <4>1, <5>1, Marked
        <5> QED BY <4>1, <5>1, <5>2 DEF OnlyMarks, Subscription
      <4>2. CASE r \notin due
        BY <1>5, <3>1, <4>2 DEF OnlyMarks
      <4> QED BY <4>1, <4>2
    <3>8. sub' \in Subs
      <4>1. \A r \in Requests : sub'[r] \in Subscription \cup {NoSub}
        BY <3>7
      <4> QED BY <3>1, <4>1 DEF Subs
    <3>9. ListsSound(sub', entries')
      <4>1. ListsSound(sub', entries)
        BY <3>7, ListsKeep DEF OnlyMarks
      <4>2. \A r \in due : sub'[r] # NoSub /\ sub'[r].query = q
        BY <2>4, <3>7 DEF OnlyMarks
      <4>3. EntrySound(sub', q, entries'[q])
        BY <3>4, <4>2 DEF EntrySound
      <4> QED BY <3>3, <4>1, <4>3 DEF ListsSound
    <3>10. MarksSound(sub', entries', flight')
      <4> SUFFICES ASSUME NEW r \in Requests, sub'[r] # NoSub
                   PROVE  /\ sub'[r].scheduled => OnNextList(entries', sub'[r].query, r)
                          /\ sub'[r].inFlight => InRefresh(entries', sub'[r].query, r, flight')
        BY DEF MarksSound
      <4>1. sub[r] # NoSub /\ sub'[r].query = sub[r].query
        BY <3>7 DEF OnlyMarks
      <4>2. CASE r \in due
        <5>1. sub'[r].query = q /\ ~sub'[r].scheduled
          BY <2>4, <3>7, <4>1, <4>2
        <5>2. InRefresh(entries', q, r, flight')
          BY <1>7, <3>3, <3>4, <3>6, <4>2 DEF InRefresh
        <5> QED BY <5>1, <5>2
      <4>3. CASE r \notin due
        <5>1. sub'[r] = sub[r]
          BY <3>7, <4>1, <4>3
        <5>2. CASE sub[r].query = q
          BY <2>3, <4>1, <4>3, <5>1, <5>2
        <5>3. CASE sub[r].query # q
          <6>1. sub[r].scheduled => OnNextList(entries, sub[r].query, r)
            BY <4>1 DEF MarksSound
          <6>2. sub[r].inFlight => InRefresh(entries, sub[r].query, r, flight)
            BY <4>1 DEF MarksSound
          <6>3. sub[r].query \in Queries
            BY <1>5, <4>1 DEF Subscription
          <6> QED BY <3>3, <3>5, <5>1, <5>3, <6>1, <6>2, <6>3 DEF OnNextList, InRefresh
        <5> QED BY <5>2, <5>3
      <4> QED BY <4>2, <4>3
    <3>11. Owed(sub', {})
      <4> SUFFICES ASSUME NEW r \in Requests, sub'[r] # NoSub
                   PROVE  /\ sub'[r].scheduled \/ sub'[r].inFlight => sub'[r].dirty # NotDirty
                          /\ sub'[r].dirty # NotDirty => sub'[r].scheduled \/ sub'[r].inFlight
        BY DEF Owed
      <4>1. sub[r] # NoSub /\ sub'[r].dirty = sub[r].dirty
        BY <3>7 DEF OnlyMarks
      <4>2. CASE r \in due
        BY <2>4, <3>7, <4>1, <4>2
      <4>3. CASE r \notin due
        BY <3>7, <4>1, <4>3 DEF Owed
      <4> QED BY <4>2, <4>3
    <3>12. FibersSound(entries', sleeping', flight')
      <4>1. /\ flight'[q].phase # "none" /\ q \in DOMAIN entries'
            /\ entries'[q].state = "running"
        BY <1>7, <3>3, <3>4, <3>6
      <4>2. \A p \in Queries : p # q =>
              /\ flight'[p] = flight[p] /\ sleeping'[p] = sleeping[p]
              /\ p \in DOMAIN entries' <=> p \in DOMAIN entries
              /\ p \in DOMAIN entries => entries'[p] = entries[p]
        BY <1>3, <3>3, <3>5
      <4> QED BY <4>1, <4>2 DEF FibersSound
    <3>13. ListsSound(sub, entries)' /\ MarksSound(sub, entries, flight)'
           /\ FibersSound(entries, sleeping, flight)' /\ Owed(sub, {})'
      BY <3>9, <3>10, <3>11, <3>12
    <3>14. \A r \in Requests : sub'[r] # NoSub => sub'[r].dirty <= version'
      BY <1>1, <1>5, <3>7 DEF OnlyMarks
    <3>15. TypeOK'
      BY <1>3, <1>4, <3>5, <3>8, <3>13, <3>14, TypesHold
    <3>16. MarksOf(q)
      BY <2>4, <3>5, <3>7 DEF MarksOf
    <3>17. Begun(q, due)
      BY <2>4, <3>6, <3>7 DEF Begun, OnlyMarks
    <3> QED BY <3>2, <3>13, <3>15, <3>16, <3>17 DEF RefreshEffect
  <2> QED BY <2>5, <2>6
<1> QED BY <1>6, <1>7

(* A refresh returns its subscriptions to the list of the next one *)
(* (resetGroupedRefresh).                                          *)
LEMMA ResetKeeps ==
  ASSUME IInv, NEW q \in Queries, Reset(q),
         UNCHANGED <<version, changed, reader, used, asked, open>>
  PROVE  IInv' /\ RefreshEffect(q)
<1> USE DEF IInv
<1> DEFINE mine == {r \in Everyone(q) : sub[r] # NoSub}
           idle == [r \in Requests |-> IF r \in mine THEN MarkIdle(sub[r]) ELSE sub[r]]
           left == Restrict(entries, DOMAIN entries \ {q})
           R == {r \in mine : sub[r].dirty # NotDirty}
           fl == [flight EXCEPT ![q] = NoFlight]
<1>1. Become(Scheduled(idle, left, R)) /\ flight' = fl
  BY DEF Reset
<1>2. sub \in Subs /\ sleeping \in [Queries -> Nat] /\ version \in Nat
  BY DEF TypeOK, Subs
<1>3. /\ flight \in [Queries -> [phase : {"none", "asking", "computed"},
                                 requests : SUBSET Requests, version : Nat]]
      /\ \A r \in Requests : sub[r] # NoSub => sub[r] \in Subscription /\ sub[r].dirty <= version
  BY <1>2 DEF TypeOK, Subs, Subscribed
<1>4. /\ fl[q] = NoFlight /\ SameElsewhere(flight, fl, q) /\ fl[q].phase = "none"
      /\ fl \in [Queries -> [phase : {"none", "asking", "computed"},
                             requests : SUBSET Requests, version : Nat]]
  BY <1>3 DEF SameElsewhere, NoFlight
<1>5. \A r \in mine : r \in Requests /\ sub[r] # NoSub /\ sub[r].query = q
  <2>1. q \in DOMAIN entries => EntrySound(sub, q, entries[q])
    BY DEF ListsSound
  <2> QED BY <2>1 DEF Everyone, EntrySound, Entry
<1>6. mine \in SUBSET Requests /\ R \in SUBSET Requests
      /\ \A r \in Requests : r \in R <=> r \in mine /\ sub[r].dirty # NotDirty
  BY <1>5
<1>7. \A r \in Requests : sub[r] # NoSub /\ (sub[r].scheduled \/ sub[r].inFlight)
                          /\ sub[r].query = q => r \in mine
  BY DEF MarksSound, OnNextList, InRefresh, Everyone
<1> HIDE DEF mine, fl, R
<1>8. ASSUME NEW r \in Requests
      PROVE  /\ idle[r] = NoSub <=> sub[r] = NoSub
             /\ idle[r] \in Subscription \cup {NoSub}
             /\ sub[r] # NoSub => OnlyMarks(sub[r], idle[r])
             /\ IF r \in mine THEN ~idle[r].scheduled /\ ~idle[r].inFlight ELSE idle[r] = sub[r]
  <2>1. CASE r \in mine
    <3>1. sub[r] \in Subscription /\ sub[r] # NoSub
      BY <1>3, <1>5, <2>1
    <3>2. /\ idle[r] \in Subscription /\ idle[r] # NoSub
          /\ idle[r] = [sub[r] EXCEPT !.scheduled = FALSE, !.inFlight = FALSE]
      BY <2>1, <3>1, Marked
    <3> QED BY <2>1, <3>1, <3>2 DEF OnlyMarks, Subscription
  <2>2. CASE r \notin mine
    BY <1>3, <2>2 DEF OnlyMarks
  <2> QED BY <2>1, <2>2
<1>9. idle \in Subs
  <2>1. \A r \in Requests : idle[r] \in Subscription \cup {NoSub}
    BY <1>8
  <2> QED BY <2>1 DEF Subs
<1> HIDE DEF idle, left
<1>10. LetGo(sub, idle, q)
  BY <1>5, <1>7, <1>8 DEF LetGo, OnlyMarks
<1>11. SameElsewhere(sleeping, sleeping, q)
  BY DEF SameElsewhere
<1>12. ListsSound(sub, left) /\ MarksSound(idle, left, fl) /\ FibersSound(left, sleeping, fl)
  BY <1>4, <1>10, <1>11, WithoutSound DEF left
<1>13. ListsSound(idle, left)
  BY <1>8, <1>12, ListsKeep DEF OnlyMarks
<1>14. Owed(idle, R)
  <2> SUFFICES ASSUME NEW r \in Requests, idle[r] # NoSub
               PROVE  /\ idle[r].scheduled \/ idle[r].inFlight => idle[r].dirty # NotDirty
                      /\ idle[r].dirty # NotDirty => idle[r].scheduled \/ idle[r].inFlight \/ r \in R
    BY DEF Owed
  <2>1. sub[r] # NoSub /\ idle[r].dirty = sub[r].dirty
    BY <1>8 DEF OnlyMarks
  <2>2. CASE r \in mine
    BY <1>6, <1>8, <2>1, <2>2
  <2>3. CASE r \notin mine
    BY <1>8, <2>1, <2>3 DEF Owed
  <2> QED BY <2>2, <2>3
<1>15. \A r \in R : idle[r] # NoSub => idle[r].dirty # NotDirty
  BY <1>6, <1>8 DEF OnlyMarks
<1>16. /\ sub' \in Subs /\ sleeping' \in [Queries -> Nat]
       /\ ListsSound(sub, entries)' /\ MarksSound(sub, entries, flight)'
       /\ Owed(sub, {})' /\ FibersSound(entries, sleeping, flight)'
       /\ \A r \in Requests :
            IF idle[r] = NoSub THEN sub'[r] = NoSub
            ELSE OnlyMarks(idle[r], sub'[r]) /\ sub'[r].inFlight = idle[r].inFlight
  BY <1>1, <1>2, <1>6, <1>9, <1>12, <1>13, <1>14, <1>15, BecomeSound
<1>17. MarksOf(q)
  <2>1. ASSUME NEW r \in Requests, sub'[r] # NoSub
        PROVE  /\ sub[r] # NoSub /\ OnlyMarks(sub[r], sub'[r])
               /\ sub[r].query # q => sub'[r].inFlight = sub[r].inFlight
    <3>1. /\ idle[r] # NoSub /\ OnlyMarks(idle[r], sub'[r]) /\ sub'[r].inFlight = idle[r].inFlight
          /\ sub[r] # NoSub
      BY <1>8, <1>16, <2>1
    <3>2. sub[r].query # q => idle[r] = sub[r]
      BY <1>5, <1>8
    <3> QED BY <1>8, <3>1, <3>2 DEF OnlyMarks
  <2> QED BY <1>1, <1>4, <2>1 DEF MarksOf, SameElsewhere
<1>18. TypeOK'
  <2>1. \A r \in Requests : sub'[r] # NoSub => sub'[r].dirty <= version'
    BY <1>3, <1>17 DEF MarksOf, OnlyMarks
  <2>2. /\ version' \in Nat /\ asked' \in Nat /\ open' \in BOOLEAN /\ used' \subseteq Requests
        /\ changed' \in [Queries -> SUBSET (1 .. version')]
        /\ reader' \in [Requests -> [rows : Rows, stale : BOOLEAN]]
    BY DEF TypeOK
  <2>3. flight' \in [Queries -> [phase : {"none", "asking", "computed"},
                                 requests : SUBSET Requests, version : Nat]]
    BY <1>1, <1>4
  <2> QED BY <1>16, <2>1, <2>2, <2>3, TypesHold
<1> QED BY <1>1, <1>4, <1>16, <1>17, <1>18 DEF RefreshEffect

(* An answer, or a copy of memory, changes nothing but the flight. *)
LEMMA BackendAnswersKeeps ==
  ASSUME IInv, NEW q \in Queries, BackendAnswers(q)
  PROVE  IInv' /\ RefreshEffect(q)
<1> USE DEF IInv
<1>1. /\ flight[q].phase = "asking" /\ flight' = [flight EXCEPT ![q].phase = "computed"]
      /\ UNCHANGED <<version, changed, sub, reader, used, asked, entries, sleeping, open>>
  BY DEF BackendAnswers
<1>2. /\ flight \in [Queries -> [phase : {"none", "asking", "computed"},
                                 requests : SUBSET Requests, version : Nat]]
      /\ sub \in Subs
  BY DEF TypeOK, Subs
<1>3. /\ flight' \in [Queries -> [phase : {"none", "asking", "computed"},
                                  requests : SUBSET Requests, version : Nat]]
      /\ \A p \in Queries : /\ flight'[p].requests = flight[p].requests
                            /\ flight'[p].version = flight[p].version
                            /\ flight'[p].phase # "none" <=> flight[p].phase # "none"
                            /\ p # q => flight'[p] = flight[p]
  BY <1>1, <1>2
<1>4. MarksSound(sub', entries', flight')
  <2>1. \A r \in Requests : sub[r] # NoSub => sub[r].query \in Queries
    BY <1>2 DEF Subs, Subscription
  <2> QED BY <1>1, <1>3, <2>1 DEF MarksSound, InRefresh
<1>5. FibersSound(entries', sleeping', flight')
  BY <1>1, <1>3 DEF FibersSound
<1>6. ListsSound(sub, entries)' /\ Owed(sub, {})' /\ MarksSound(sub, entries, flight)'
      /\ FibersSound(entries, sleeping, flight)'
  BY <1>1, <1>4, <1>5
<1>7. MarksOf(q)
  BY <1>1, <1>3 DEF MarksOf, OnlyMarks
<1>8. TypeOK'
  <2>1. \A r \in Requests : sub'[r] # NoSub => sub'[r].dirty <= version'
    BY <1>1 DEF TypeOK, Subscribed
  <2>2. /\ version' \in Nat /\ asked' \in Nat /\ open' \in BOOLEAN /\ used' \subseteq Requests
        /\ changed' \in [Queries -> SUBSET (1 .. version')] /\ sleeping' \in [Queries -> Nat]
        /\ reader' \in [Requests -> [rows : Rows, stale : BOOLEAN]]
    BY <1>1 DEF TypeOK
  <2> QED BY <1>1, <1>2, <1>3, <1>6, <2>1, <2>2, TypesHold
<1> QED BY <1>1, <1>3, <1>6, <1>7, <1>8 DEF RefreshEffect

(* A refresh copies the rows of memory. *)
LEMMA CopyMemoryKeeps ==
  ASSUME IInv, NEW q \in Queries, CopyMemory(q)
  PROVE  IInv' /\ RefreshEffect(q)
<1> DEFINE still == {r \in flight[q].requests : sub[r] # NoSub /\ sub[r].dirty # NotDirty}
<1>1. flight[q].phase = "asking" /\ UNCHANGED <<version, changed, reader, used, asked, open>>
  BY DEF CopyMemory
<1>2. CASE still = {}
  <2>1. Reset(q)
    BY <1>2 DEF CopyMemory
  <2> QED BY <1>1, <2>1, ResetKeeps
<1>3. CASE still # {}
  <2> USE DEF IInv
  <2> DEFINE done == [phase |-> "computed", requests |-> still, version |-> version]
  <2>1. flight' = [flight EXCEPT ![q] = done] /\ UNCHANGED <<sub, entries, sleeping>>
    BY <1>3 DEF CopyMemory
  <2>2. /\ flight \in [Queries -> [phase : {"none", "asking", "computed"},
                                   requests : SUBSET Requests, version : Nat]]
        /\ version \in Nat /\ sub \in Subs
    BY DEF TypeOK, Subs
  <2>3. /\ still \subseteq flight[q].requests /\ still \in SUBSET Requests
        /\ \A r \in Requests : /\ r \in flight[q].requests /\ sub[r] # NoSub
                               /\ sub[r].dirty # NotDirty
                               => r \in still
    BY <2>2
  <2>4. done.phase = "computed" /\ done.requests = still /\ done.version = version
    OBVIOUS
  <2> HIDE DEF still
  <2>5. done \in [phase : {"none", "asking", "computed"}, requests : SUBSET Requests, version : Nat]
    BY <2>2, <2>3
  <2> HIDE DEF done
  <2>6. /\ flight'[q] = done /\ \A p \in Queries \ {q} : flight'[p] = flight[p]
        /\ flight' \in [Queries -> [phase : {"none", "asking", "computed"},
                                    requests : SUBSET Requests, version : Nat]]
    BY <2>1, <2>2, <2>5
  <2>7. MarksSound(sub, entries, flight')
    <3> SUFFICES ASSUME NEW r \in Requests, sub[r] # NoSub
                 PROVE  /\ sub[r].scheduled => OnNextList(entries, sub[r].query, r)
                        /\ sub[r].inFlight => InRefresh(entries, sub[r].query, r, flight')
      BY DEF MarksSound
    <3>1. /\ sub[r].scheduled => OnNextList(entries, sub[r].query, r)
          /\ sub[r].inFlight => InRefresh(entries, sub[r].query, r, flight)
          /\ sub[r].inFlight => sub[r].dirty # NotDirty
          /\ sub[r].query \in Queries
      BY <2>2 DEF MarksSound, Owed, Subs, Subscription
    <3>2. CASE sub[r].query = q
      BY <2>3, <2>4, <2>6, <3>1, <3>2 DEF InRefresh
    <3>3. CASE sub[r].query # q
      BY <2>6, <3>1, <3>3 DEF InRefresh
    <3> QED BY <3>2, <3>3
  <2>8. FibersSound(entries, sleeping, flight')
    BY <1>1, <2>4, <2>6 DEF FibersSound
  <2>9. ListsSound(sub, entries)' /\ Owed(sub, {})' /\ MarksSound(sub, entries, flight)'
        /\ FibersSound(entries, sleeping, flight)'
    BY <2>1, <2>7, <2>8
  <2>10. TypeOK'
    <3>1. \A r \in Requests : sub'[r] # NoSub => sub'[r].dirty <= version'
      BY <1>1, <2>1 DEF TypeOK, Subscribed
    <3>2. /\ version' \in Nat /\ asked' \in Nat /\ open' \in BOOLEAN /\ used' \subseteq Requests
          /\ changed' \in [Queries -> SUBSET (1 .. version')] /\ sleeping' \in [Queries -> Nat]
          /\ reader' \in [Requests -> [rows : Rows, stale : BOOLEAN]]
      BY <1>1, <2>1 DEF TypeOK
    <3> QED BY <2>1, <2>2, <2>6, <2>9, <3>1, <3>2, TypesHold
  <2>11. MarksOf(q)
    BY <2>1, <2>6 DEF MarksOf, OnlyMarks
  <2> QED BY <2>1, <2>3, <2>4, <2>6, <2>9, <2>10, <2>11 DEF RefreshEffect
<1> QED BY <1>2, <1>3

(* A computation that fails. *)
LEMMA FailKeeps ==
  ASSUME IInv, NEW q \in Queries, Fail(q)
  PROVE  IInv' /\ RefreshEffect(q)
BY ResetKeeps DEF Fail

(* The subscriptions that take the result of a refresh. *)
Installed(s, t, v, rows) ==
  /\ t.query = s.query /\ t.dirty = NotDirty /\ t.rows = rows
  /\ OfferFull(s.queue, SnapshotEvent(v, rows)).offered
  /\ t.queue = OfferFull(s.queue, SnapshotEvent(v, rows)).queue

(* Who is refreshed has the result and is told, the others have new marks  *)
(* at most, and who is neither overtaken nor refreshed has the mark of its *)
(* own refresh still.                                                      *)
InstallEffect(q) ==
  /\ flight'[q] = NoFlight /\ SameElsewhere(flight, flight', q)
  /\ \A r \in Requests : sub'[r] # NoSub =>
       /\ sub[r] # NoSub
       /\ IF r \in Fit(q)
            THEN Installed(sub[r], sub'[r], flight[q].version, RowsOf(q, flight[q].version))
            ELSE /\ OnlyMarks(sub[r], sub'[r])
                 /\ r \notin Overtaken(q) => sub'[r].inFlight = sub[r].inFlight

(* An accepted snapshot installs its rows and ends the staleness. *)
LEMMA RefreshedSound ==
  ASSUME NEW s \in Subscription, NEW v \in Nat, NEW rows \in Rows, Refreshed(s, v, rows) # NoSub
  PROVE  /\ Refreshed(s, v, rows) \in Subscription
         /\ Installed(s, Refreshed(s, v, rows), v, rows)
         /\ ~Refreshed(s, v, rows).scheduled /\ ~Refreshed(s, v, rows).inFlight
<1> DEFINE offer == OfferFull(s.queue, SnapshotEvent(v, rows))
           t == Refreshed(s, v, rows)
<1>1. /\ offer.offered
      /\ t = [MarkIdle(s) EXCEPT !.rows = rows, !.dirty = NotDirty, !.queue = offer.queue]
  BY DEF Refreshed
<1>2. offer.queue \in QuietQueue
  BY <1>1, SnapshotQuiet, SubscriptionFields, Offered
<1>3. MarkIdle(s) = [s EXCEPT !.scheduled = FALSE, !.inFlight = FALSE]
  BY DEF MarkIdle
<1> HIDE DEF offer, t
<1>4. /\ t \in Subscription /\ t.query = s.query /\ t.dirty = NotDirty /\ t.rows = rows
      /\ t.queue = offer.queue /\ ~t.scheduled /\ ~t.inFlight
  BY <1>1, <1>2, <1>3, SubscriptionFields DEF NotDirty
<1> QED BY <1>1, <1>4 DEF Installed, offer, t

(* A result is installed, or returned when a mutation overtook it. *)
LEMMA InstallKeeps ==
  ASSUME IInv, NEW q \in Queries, Install(q)
  PROVE  IInv' /\ InstallEffect(q)
<1> USE DEF IInv
<1> DEFINE v == flight[q].version
           rows == RowsOf(q, v)
           after == [r \in Requests |->
                       IF r \in Fit(q) THEN Refreshed(sub[r], v, rows)
                       ELSE IF r \in Overtaken(q) THEN MarkIdle(sub[r])
                       ELSE sub[r]]
           removed == {r \in Fit(q) : after[r] = NoSub}
           without == Restrict(entries, DOMAIN entries \ {q})
           left == ReleaseRequests(without, removed)
           R == {r \in Overtaken(q) : after[r] # NoSub /\ after[r].dirty # NotDirty}
           fl == [flight EXCEPT ![q] = NoFlight]
<1>1. /\ flight[q].phase = "computed" /\ flight' = fl
      /\ Become(Scheduled(after, left, R))
      /\ UNCHANGED <<version, changed, reader, used, asked, open>>
  BY DEF Install
<1>2. sub \in Subs /\ sleeping \in [Queries -> Nat] /\ version \in Nat
  BY DEF TypeOK, Subs
<1>3. /\ flight \in [Queries -> [phase : {"none", "asking", "computed"},
                                 requests : SUBSET Requests, version : Nat]]
      /\ \A r \in Requests : sub[r] # NoSub => sub[r] \in Subscription /\ sub[r].dirty <= version
  BY <1>2 DEF TypeOK, Subs, Subscribed
<1>4. v \in Nat /\ rows \in Rows
  BY <1>3, RowsOfSound
<1>5. /\ fl[q] = NoFlight /\ SameElsewhere(flight, fl, q) /\ fl[q].phase = "none"
      /\ fl \in [Queries -> [phase : {"none", "asking", "computed"},
                             requests : SUBSET Requests, version : Nat]]
  BY <1>3 DEF SameElsewhere, NoFlight
<1>6. q \in DOMAIN entries /\ entries[q].state = "running" /\ EntrySound(sub, q, entries[q])
  BY <1>1 DEF FibersSound, ListsSound
<1>7. /\ Fit(q) \in SUBSET Requests /\ Overtaken(q) \in SUBSET Requests
      /\ \A r \in Fit(q) : sub[r] # NoSub
      /\ \A r \in Overtaken(q) : sub[r] # NoSub
  BY <1>3, <1>6 DEF Fit, Overtaken, EntrySound, Entry
<1>8. \A r \in Requests : sub[r] # NoSub /\ sub[r].query = q /\ (sub[r].scheduled \/ sub[r].inFlight)
        => r \in Fit(q) \cup Overtaken(q)
  BY <1>6 DEF MarksSound, OnNextList, InRefresh, Fit, Overtaken
<1> HIDE DEF fl, v, rows
<1>9. ASSUME NEW r \in Requests
      PROVE  /\ after[r] \in Subscription \cup {NoSub}
             /\ after[r] # NoSub => sub[r] # NoSub /\ after[r].query = sub[r].query
             /\ r \in Fit(q) /\ after[r] # NoSub =>
                  /\ Installed(sub[r], after[r], v, rows)
                  /\ ~after[r].scheduled /\ ~after[r].inFlight
             /\ r \notin Fit(q) /\ sub[r] # NoSub =>
                  /\ OnlyMarks(sub[r], after[r])
                  /\ IF r \in Overtaken(q) THEN ~after[r].scheduled /\ ~after[r].inFlight
                                           ELSE after[r] = sub[r]
  <2>1. CASE r \in Fit(q)
    <3>1. sub[r] \in Subscription /\ sub[r] # NoSub /\ after[r] = Refreshed(sub[r], v, rows)
      BY <1>3, <1>7, <2>1
    <3> HIDE DEF after
    <3>2. CASE after[r] = NoSub
      BY <2>1, <3>2
    <3>3. CASE after[r] # NoSub
      <4>1. /\ after[r] \in Subscription /\ Installed(sub[r], after[r], v, rows)
            /\ ~after[r].scheduled /\ ~after[r].inFlight
        BY <1>4, <3>1, <3>3, RefreshedSound
      <4> QED BY <2>1, <3>1, <4>1 DEF Installed
    <3> QED BY <3>2, <3>3
  <2>2. CASE r \notin Fit(q) /\ r \in Overtaken(q)
    <3>1. sub[r] \in Subscription /\ sub[r] # NoSub /\ after[r] = MarkIdle(sub[r])
      BY <1>3, <1>7, <2>2
    <3>2. /\ after[r] \in Subscription /\ after[r] # NoSub
          /\ after[r] = [sub[r] EXCEPT !.scheduled = FALSE, !.inFlight = FALSE]
      BY <3>1, Marked
    <3> HIDE DEF after
    <3> QED BY <2>2, <3>1, <3>2 DEF OnlyMarks, Subscription
  <2>3. CASE r \notin Fit(q) /\ r \notin Overtaken(q)
    BY <1>3, <2>3 DEF OnlyMarks
  <2> QED BY <2>1, <2>2, <2>3
<1>10. after \in Subs
  <2>1. \A r \in Requests : after[r] \in Subscription \cup {NoSub}
    BY <1>9
  <2> QED BY <2>1 DEF Subs
<1>11. /\ removed \in SUBSET Requests /\ removed \subseteq Fit(q)
       /\ \A r \in Requests : r \in removed <=> r \in Fit(q) /\ after[r] = NoSub
  BY <1>7
<1>12. /\ R \in SUBSET Requests
       /\ \A r \in Requests :
            r \in R <=> r \in Overtaken(q) /\ after[r] # NoSub /\ after[r].dirty # NotDirty
  BY <1>7
<1> HIDE DEF after, removed, R, left, without
<1>13. LetGo(sub, after, q)
  BY <1>8, <1>9 DEF LetGo
<1>14. SameElsewhere(sleeping, sleeping, q)
  BY DEF SameElsewhere
<1>15. /\ ListsSound(sub, without) /\ MarksSound(after, without, fl)
       /\ FibersSound(without, sleeping, fl)
  BY <1>5, <1>13, <1>14, WithoutSound DEF without
<1>16. KeptOutside(sub, after, removed) /\ Unmarked(after, removed)
  BY <1>9, <1>11 DEF KeptOutside, Unmarked, OnlyMarks
<1>17. ListsSound(after, left) /\ MarksSound(after, left, fl) /\ FibersSound(left, sleeping, fl)
  BY <1>11, <1>15, <1>16, ReleaseSound DEF left
<1>18. Owed(after, R)
  <2> SUFFICES ASSUME NEW r \in Requests, after[r] # NoSub
               PROVE  /\ after[r].scheduled \/ after[r].inFlight => after[r].dirty # NotDirty
                      /\ after[r].dirty # NotDirty =>
                           after[r].scheduled \/ after[r].inFlight \/ r \in R
    BY DEF Owed
  <2>1. CASE r \in Fit(q)
    BY <1>9, <2>1 DEF Installed
  <2>2. CASE r \notin Fit(q) /\ r \in Overtaken(q)
    BY <1>9, <1>12, <2>2
  <2>3. CASE r \notin Fit(q) /\ r \notin Overtaken(q)
    BY <1>9, <2>3 DEF Owed
  <2> QED BY <2>1, <2>2, <2>3
<1>19. \A r \in R : after[r] # NoSub => after[r].dirty # NotDirty
  BY <1>12
<1>20. /\ sub' \in Subs /\ sleeping' \in [Queries -> Nat]
       /\ ListsSound(sub, entries)' /\ MarksSound(sub, entries, flight)'
       /\ Owed(sub, {})' /\ FibersSound(entries, sleeping, flight)'
       /\ \A r \in Requests :
            IF after[r] = NoSub THEN sub'[r] = NoSub
            ELSE OnlyMarks(after[r], sub'[r]) /\ sub'[r].inFlight = after[r].inFlight
  BY <1>1, <1>2, <1>10, <1>12, <1>17, <1>18, <1>19, BecomeSound
<1>21. InstallEffect(q)
  <2>1. ASSUME NEW r \in Requests, sub'[r] # NoSub
        PROVE  /\ sub[r] # NoSub
               /\ r \in Fit(q) => Installed(sub[r], sub'[r], v, rows)
               /\ r \notin Fit(q) =>
                    /\ OnlyMarks(sub[r], sub'[r])
                    /\ r \notin Overtaken(q) => sub'[r].inFlight = sub[r].inFlight
    <3>1. /\ after[r] # NoSub /\ OnlyMarks(after[r], sub'[r])
          /\ sub'[r].inFlight = after[r].inFlight
      BY <1>20, <2>1
    <3>2. sub[r] # NoSub
      BY <1>9, <3>1
    <3>3. r \in Fit(q) => Installed(sub[r], sub'[r], v, rows)
      BY <1>9, <3>1 DEF OnlyMarks, Installed
    <3>4. r \notin Fit(q) => OnlyMarks(sub[r], sub'[r])
      BY <1>9, <3>1, <3>2 DEF OnlyMarks
    <3>5. r \notin Fit(q) /\ r \notin Overtaken(q) => sub'[r].inFlight = sub[r].inFlight
      BY <1>9, <3>1, <3>2
    <3> QED BY <3>2, <3>3, <3>4, <3>5
  <2> QED BY <1>1, <1>5, <2>1 DEF InstallEffect, v, rows
<1>22. TypeOK'
  <2>1. \A r \in Requests : sub'[r] # NoSub => sub'[r].dirty <= version'
    <3> SUFFICES ASSUME NEW r \in Requests, sub'[r] # NoSub PROVE sub'[r].dirty <= version'
      OBVIOUS
    <3>1. sub[r] # NoSub /\ (sub'[r].dirty = 0 \/ sub'[r].dirty = sub[r].dirty)
      BY <1>21 DEF InstallEffect, Installed, OnlyMarks, NotDirty
    <3> QED BY <1>1, <1>2, <1>3, <3>1
  <2>2. /\ version' \in Nat /\ asked' \in Nat /\ open' \in BOOLEAN /\ used' \subseteq Requests
        /\ changed' \in [Queries -> SUBSET (1 .. version')]
        /\ reader' \in [Requests -> [rows : Rows, stale : BOOLEAN]]
    BY <1>1 DEF TypeOK
  <2>3. flight' \in [Queries -> [phase : {"none", "asking", "computed"},
                                 requests : SUBSET Requests, version : Nat]]
    BY <1>1, <1>5
  <2> QED BY <1>20, <2>1, <2>2, <2>3, TypesHold
<1> QED BY <1>20, <1>21, <1>22

(* The reader takes the oldest event: the rows and the staleness it will   *)
(* show once it has taken the rest are the same.                           *)
Delivered(r) ==
  /\ \A o \in Requests \ {r} : sub'[o] = sub[o] /\ reader'[o] = reader[o]
  /\ sub[r] # NoSub /\ sub'[r] # NoSub
  /\ sub'[r].query = sub[r].query /\ sub'[r].dirty = sub[r].dirty /\ sub'[r].rows = sub[r].rows
  /\ sub'[r].scheduled = sub[r].scheduled /\ sub'[r].inFlight = sub[r].inFlight
  /\ RowsShown(reader'[r].rows, sub'[r].queue.events) = RowsShown(reader[r].rows, sub[r].queue.events)
  /\ StaleShown(reader'[r].stale, sub'[r].queue.events)
       = StaleShown(reader[r].stale, sub[r].queue.events)

(* A reader that takes an event. *)
LEMMA DeliverKeeps ==
  ASSUME IInv, NEW r \in Requests, Deliver(r)
  PROVE  IInv' /\ Delivered(r)
<1> USE DEF IInv
<1> DEFINE events == sub[r].queue.events
           event == Head(events)
           was == reader[r]
           now == [rows |-> RowsTaken(was.rows, event), stale |-> event.type = "status"]
           after == [sub[r] EXCEPT !.queue.events = Tail(events)]
<1>1. /\ sub[r] # NoSub /\ events # << >>
      /\ sub' = [sub EXCEPT ![r] = after] /\ reader' = [reader EXCEPT ![r] = now]
      /\ UNCHANGED <<version, changed, used, asked, entries, sleeping, flight, open>>
  BY DEF Deliver
<1>2. /\ sub \in Subs /\ reader \in [Requests -> [rows : Rows, stale : BOOLEAN]]
      /\ version \in Nat /\ sub[r] \in Subscription
  BY <1>1 DEF TypeOK, Subs
<1>3. sub[r].queue \in QuietQueue /\ events \in Seq(Quiet)
  BY <1>2, SubscriptionFields DEF QuietQueue
<1>4. Quiet \in SUBSET Events(Rows) /\ NoRows \in Rows
  BY DEF Quiet, Rows
<1>5. /\ Tail(events) \in Seq(Quiet) /\ event \in Quiet /\ event = events[1]
      /\ events \in Seq(Events(Rows)) /\ event \in Events(Rows)
      /\ Len(Tail(events)) = Len(events) - 1 /\ Len(events) \in Nat /\ Len(events) > 0
      /\ \A i \in 1 .. Len(Tail(events)) : Tail(events)[i] = events[i + 1]
  <2> HIDE DEF events
  <2> QED BY <1>1, <1>3, <1>4
<1>6. was.rows \in Rows /\ RowsTaken(was.rows, event) \in Rows
  BY <1>2, <1>4, <1>5, RowsTakenType
<1>7. now \in [rows : Rows, stale : BOOLEAN]
  <2> HIDE DEF event
  <2> QED BY <1>6
<1>8. /\ after \in Subscription /\ after.query = sub[r].query /\ after.dirty = sub[r].dirty
      /\ after.rows = sub[r].rows /\ after.scheduled = sub[r].scheduled
      /\ after.inFlight = sub[r].inFlight /\ after.queue.events = Tail(events)
  <2> DEFINE queue == [sub[r].queue EXCEPT !.events = Tail(events)]
  <2>1. queue \in QuietQueue /\ queue.events = Tail(events)
    BY <1>3, <1>5 DEF QuietQueue
  <2>2. after = [sub[r] EXCEPT !.queue = queue]
    BY <1>2, SubscriptionFields
  <2> HIDE DEF queue, after
  <2> QED BY <1>2, <2>1, <2>2, SubscriptionFields
<1>9. /\ sub' \in Subs /\ sub'[r] = after /\ sub'[r] # NoSub
      /\ reader'[r] = now /\ reader' \in [Requests -> [rows : Rows, stale : BOOLEAN]]
      /\ \A o \in Requests \ {r} : sub'[o] = sub[o] /\ reader'[o] = reader[o]
  <2> HIDE DEF after, now
  <2> QED BY <1>1, <1>2, <1>7, <1>8, NoSubscription DEF Subs
<1>10. now.rows = RowsTaken(was.rows, event) /\ now.stale = (event.type = "status")
  OBVIOUS
<1>11. RowsShown(was.rows, events) = RowsShown(now.rows, Tail(events))
  BY <1>1, <1>4, <1>5, <1>6, <1>10, ShownFromOldest
<1>12. StaleShown(now.stale, Tail(events)) = StaleShown(was.stale, events)
  <2> HIDE DEF events, event, was, now
  <2>1. CASE Tail(events) = << >>
    <3>1. Len(events) = 1
      <4>1. \A s : s = << >> => Len(s) = 0
        OBVIOUS
      <4>2. Len(Tail(events)) = 0
        BY <2>1, <4>1, Zenon
      <4> DEFINE m == Len(Tail(events))
                 n == Len(events)
      <4>3. m = n - 1 /\ n \in Nat /\ m = 0
        BY <1>5, <4>2
      <4> HIDE DEF m, n
      <4>4. n = 1
        BY <4>3
      <4> QED BY <4>4 DEF n
    <3>2. StaleShown(was.stale, events) = (events[1].type = "status")
      BY <1>1, <3>1 DEF StaleShown, Last, events
    <3> QED BY <1>5, <1>10, <2>1, <3>2 DEF StaleShown
  <2>2. CASE Tail(events) # << >>
    <3>1. Len(Tail(events)) > 0
      BY <1>5, <2>2
    <3>2. Tail(events)[Len(Tail(events))] = events[Len(events)]
      BY <1>5, <3>1
    <3> QED BY <1>1, <2>2, <3>2 DEF StaleShown, Last, events
  <2> QED BY <2>1, <2>2
<1> HIDE DEF after, now, was, event
<1>13. Delivered(r)
  BY <1>1, <1>8, <1>9, <1>11, <1>12 DEF Delivered, was
<1>14. \A o \in Requests :
         /\ sub'[o] # NoSub <=> sub[o] # NoSub
         /\ sub[o] # NoSub =>
              /\ sub'[o].query = sub[o].query /\ sub'[o].dirty = sub[o].dirty
              /\ sub'[o].scheduled = sub[o].scheduled /\ sub'[o].inFlight = sub[o].inFlight
  BY <1>13, <1>9 DEF Delivered
<1>15. ListsSound(sub', entries)
  BY <1>14, ListsKeep
<1>16. MarksSound(sub', entries, flight) /\ Owed(sub', {})
  BY <1>14 DEF MarksSound, Owed
<1>17. ListsSound(sub, entries)' /\ MarksSound(sub, entries, flight)' /\ Owed(sub, {})'
       /\ FibersSound(entries, sleeping, flight)'
  BY <1>1, <1>15, <1>16
<1>18. TypeOK'
  <2>1. \A o \in Requests : sub'[o] # NoSub => sub'[o].dirty <= version'
    BY <1>1, <1>14 DEF TypeOK, Subscribed
  <2>2. /\ version' \in Nat /\ asked' \in Nat /\ open' \in BOOLEAN /\ used' \subseteq Requests
        /\ changed' \in [Queries -> SUBSET (1 .. version')] /\ sleeping' \in [Queries -> Nat]
        /\ flight' \in [Queries -> [phase : {"none", "asking", "computed"},
                                    requests : SUBSET Requests, version : Nat]]
    BY <1>1 DEF TypeOK
  <2> QED BY <1>9, <1>17, <2>1, <2>2, TypesHold
<1> QED BY <1>13, <1>17, <1>18

(* The worker shuts down and ends all subscriptions. *)
LEMMA ShutdownKeeps ==
  ASSUME IInv, Shutdown
  PROVE  IInv'
<1> USE DEF IInv
<1>1. /\ open' = FALSE /\ sub' = [r \in Requests |-> NoSub] /\ entries' = << >>
      /\ sleeping' = [q \in Queries |-> 0] /\ flight' = [q \in Queries |-> NoFlight]
      /\ UNCHANGED <<version, changed, reader, used, asked>>
  BY DEF Shutdown
<1>2. DOMAIN entries' = {}
  BY <1>1
<1>3. /\ \A q \in Queries : flight'[q].phase = "none"
      /\ flight' \in [Queries -> [phase : {"none", "asking", "computed"},
                                  requests : SUBSET Requests, version : Nat]]
  BY <1>1 DEF NoFlight
<1>4. \A r \in Requests : sub'[r] = NoSub
  BY <1>1
<1>5. ListsSound(sub', entries') /\ MarksSound(sub', entries', flight') /\ Owed(sub', {})
      /\ FibersSound(entries', sleeping', flight')
  BY <1>2, <1>3, <1>4 DEF ListsSound, MarksSound, Owed, FibersSound
<1>6. ListsSound(sub, entries)' /\ MarksSound(sub, entries, flight)' /\ Owed(sub, {})'
      /\ FibersSound(entries, sleeping, flight)'
  BY <1>5
<1>7. TypeOK'
  <2>1. \A r \in Requests : sub'[r] # NoSub => sub'[r].dirty <= version'
    BY <1>4
  <2>2. sub' \in Subs /\ sleeping' \in [Queries -> Nat]
    BY <1>1 DEF Subs
  <2>3. /\ version' \in Nat /\ asked' \in Nat /\ open' \in BOOLEAN /\ used' \subseteq Requests
        /\ changed' \in [Queries -> SUBSET (1 .. version')]
        /\ reader' \in [Requests -> [rows : Rows, stale : BOOLEAN]]
    BY <1>1 DEF TypeOK
  <2> QED BY <1>3, <1>6, <2>1, <2>2, <2>3, TypesHold
<1> QED BY <1>6, <1>7

(* The invariant holds at first. *)
LEMMA InitHolds == Init => IInv
<1> SUFFICES ASSUME Init PROVE IInv
  OBVIOUS
<1>1. /\ version = 0 /\ changed = [q \in Queries |-> {}] /\ sub = [r \in Requests |-> NoSub]
      /\ reader = [r \in Requests |-> [rows |-> NoRows, stale |-> FALSE]]
      /\ used = {} /\ asked = 0 /\ entries = << >> /\ sleeping = [q \in Queries |-> 0]
      /\ flight = [q \in Queries |-> NoFlight] /\ open = TRUE
  BY DEF Init
<1>2. /\ DOMAIN entries = {} /\ \A r \in Requests : sub[r] = NoSub
      /\ \A q \in Queries : flight[q].phase = "none"
  BY <1>1 DEF NoFlight
<1>3. ListsSound(sub, entries) /\ MarksSound(sub, entries, flight) /\ Owed(sub, {})
      /\ FibersSound(entries, sleeping, flight)
  BY <1>2 DEF ListsSound, MarksSound, Owed, FibersSound
<1>4. flight \in [Queries -> [phase : {"none", "asking", "computed"},
                              requests : SUBSET Requests, version : Nat]]
  BY <1>1 DEF NoFlight
<1>5. reader \in [Requests -> [rows : Rows, stale : BOOLEAN]]
  BY <1>1, SubscriptionFields
<1>6. sub \in [Requests -> Subscription \cup {NoSub}] /\ sleeping \in [Queries -> Nat]
      /\ changed \in [Queries -> SUBSET (1 .. version)]
  BY <1>1
<1>7. version \in Nat /\ asked \in Nat /\ open \in BOOLEAN /\ used \subseteq Requests
  BY <1>1
<1>8. TypeOK
  BY <1>2, <1>4, <1>5, <1>6, <1>7 DEF TypeOK, Subscribed
<1> QED BY <1>3, <1>8 DEF IInv

(* Every step keeps the invariant. *)
LEMMA StepKeeps == IInv /\ [Next]_vars => IInv'
<1> SUFFICES ASSUME IInv, [Next]_vars PROVE IInv'
  OBVIOUS
<1>1. ASSUME NEW r \in Requests, NEW q \in Queries, Subscribe(r, q) PROVE IInv'
  BY <1>1, SubscribeKeeps
<1>2. ASSUME NEW r \in Requests, Release(r) \/ Deliver(r) PROVE IInv'
  BY <1>2, ReleaseKeeps, DeliverKeeps
<1>3. ASSUME NEW relevant \in SUBSET Queries, NEW hits \in SUBSET relevant, Mutate(relevant, hits)
      PROVE  IInv'
  BY <1>3, MutateKeeps
<1>4. ASSUME NEW q \in Queries, Begin(q) \/ Compute(q) \/ Fail(q) \/ Install(q) PROVE IInv'
  BY <1>4, BeginKeeps, BackendAnswersKeeps, CopyMemoryKeeps, FailKeeps, InstallKeeps DEF Compute
<1>5. CASE Shutdown
  BY <1>5, ShutdownKeeps
<1>6. CASE UNCHANGED vars
  BY <1>6 DEF vars, IInv, TypeOK, Subscribed, ListsSound, EntrySound, Entry, MarksSound, OnNextList,
              InRefresh, Owed, FibersSound
<1> QED BY <1>1, <1>2, <1>3, <1>4, <1>5, <1>6 DEF Next

(* What the marks and lists say is that nobody is forgotten. *)
LEMMA NobodyForgotten == IInv => NoOneForgotten
<1> SUFFICES ASSUME IInv PROVE NoOneForgotten
  OBVIOUS
<1> USE DEF IInv
<1>1. ASSUME NEW r \in Subscribed, sub[r].dirty # NotDirty
      PROVE  LET q == sub[r].query
                 entry == entries[q]
             IN  /\ q \in DOMAIN entries
                 /\ \/ entry.state = "queued" /\ sub[r].scheduled /\ r \in entry.requests
                    \/ entry.state = "running" /\ sub[r].scheduled /\ r \in entry.pending
                    \/ /\ entry.state = "running" /\ sub[r].inFlight
                       /\ r \in entry.running \cap flight[q].requests
  <2> DEFINE q == sub[r].query
  <2>1. r \in Requests /\ sub[r] # NoSub
    BY DEF Subscribed
  <2>2. /\ sub[r].scheduled \/ sub[r].inFlight
        /\ sub[r].scheduled => OnNextList(entries, q, r)
        /\ sub[r].inFlight => InRefresh(entries, q, r, flight)
    BY <1>1, <2>1 DEF Owed, MarksSound
  <2>3. q \in DOMAIN entries => entries[q].state \in {"queued", "running"}
    BY DEF TypeOK
  <2> QED BY <2>2, <2>3 DEF OnNextList, InRefresh
<1>2. ASSUME NEW q \in DOMAIN entries
      PROVE  IF entries[q].state = "queued" THEN sleeping[q] > 0 ELSE flight[q].phase # "none"
  BY DEF FibersSound, ListsSound, EntrySound, Entry
<1> QED BY <1>1, <1>2 DEF NoOneForgotten

(* Whoever is stale is refreshed in the end if the fibers run: it is on a  *)
(* list of the coordinator and a fiber works on that list, for all         *)
(* requests and queries, whether ids are used again or not.                *)
THEOREM NobodyIsForgotten == Spec => []NoOneForgotten
BY InitHolds, StepKeeps, NobodyForgotten, PTL DEF Spec

-----------------------------------------------------------------------------
(* What readers are told *)

(* The reader of a subscription s, which shows rd, will show the rows the  *)
(* worker believes it has, as stale exactly if it is owed a refresh.       *)
Telling(s, rd) ==
  /\ RowsShown(rd.rows, s.queue.events) = s.rows
  /\ StaleShown(rd.stale, s.queue.events) <=> s.dirty # NotDirty

(* An event that the queue takes tells the reader what it says. *)
LEMMA OfferTells ==
  ASSUME NEW s \in Subscription, NEW event \in Quiet, OfferFull(s.queue, event).offered,
         NEW rd \in [rows : Rows, stale : BOOLEAN], Telling(s, rd),
         NEW t, t.queue = OfferFull(s.queue, event).queue,
         t.rows = IF event.type = "snapshot" THEN event.rows ELSE s.rows,
         t.dirty # NotDirty <=> event.type = "status"
  PROVE  Telling(t, rd)
<1> DEFINE next == OfferFull(s.queue, event).queue
<1>1. rd.rows \in Rows
  OBVIOUS
<1>2. /\ RowsShown(rd.rows, next.events) =
           IF event.type = "snapshot" THEN event.rows ELSE RowsShown(rd.rows, s.queue.events)
      /\ StaleShown(rd.stale, next.events) <=> event.type = "status"
  BY <1>1, Offered
<1> HIDE DEF next
<1>3. RowsShown(rd.rows, s.queue.events) = s.rows
  BY DEF Telling
<1>4. t.queue = next
  BY DEF next
<1> QED BY <1>2, <1>3, <1>4 DEF Telling

(* A new subscription is sent its rows before anything else. *)
LEMMA FreshTells ==
  ASSUME TypeOK, NEW q \in Queries
  PROVE  Telling(Fresh(q), [rows |-> NoRows, stale |-> FALSE])
<1> DEFINE first == SnapshotEvent(version, RowsOf(q, version))
           events == <<first>>
<1>1. version \in Nat /\ RowsOf(q, version) \in Rows /\ NoRows \in Rows
  BY RowsOfSound DEF TypeOK, Rows
<1>2. first \in Quiet /\ first.type = "snapshot" /\ first.rows = RowsOf(q, version)
  BY <1>1, SnapshotQuiet
<1>3. first \in Events(Rows)
  BY <1>2 DEF Quiet
<1> HIDE DEF first
<1>4. events \in Seq(Events(Rows)) /\ events # << >> /\ Head(events) = first /\ Tail(events) = << >>
      /\ Len(events) = 1 /\ events[1] = first
  BY <1>3
<1>5. RowsTaken(NoRows, first) = RowsOf(q, version)
  BY <1>2 DEF RowsTaken
<1> HIDE DEF events
<1>6. RowsShown(NoRows, events) = RowsShown(RowsOf(q, version), << >>)
  BY <1>1, <1>4, <1>5, ShownFromOldest
<1>7. RowsShown(NoRows, events) = RowsOf(q, version)
  BY <1>1, <1>6, ShownOfNone
<1>8. ~StaleShown(FALSE, events)
  BY <1>2, <1>4 DEF StaleShown, Last
<1>9. /\ Fresh(q).queue.events = events /\ Fresh(q).dirty = NotDirty
      /\ Fresh(q).rows = RowsOf(q, version)
  BY FreshSound DEF first, events
<1> DEFINE rd == [rows |-> NoRows, stale |-> FALSE]
<1>10. rd.rows = NoRows /\ rd.stale = FALSE
  OBVIOUS
<1> HIDE DEF rd
<1>11. Telling(Fresh(q), rd)
  BY <1>7, <1>8, <1>9, <1>10 DEF Telling
<1> QED BY <1>11 DEF rd

(* Every step keeps readers told the truth about their staleness. *)
LEMMA StepTells == IInv /\ StaleIsTold /\ [Next]_vars => StaleIsTold'
<1> SUFFICES ASSUME IInv, StaleIsTold, [Next]_vars,
                    NEW r \in Requests, sub'[r] # NoSub
             PROVE  Telling(sub'[r], reader'[r])
  BY DEF StaleIsTold, Subscribed, Telling
<1>1. /\ TypeOK /\ version \in Nat
      /\ reader \in [Requests -> [rows : Rows, stale : BOOLEAN]]
      /\ sub[r] # NoSub => sub[r] \in Subscription
  BY DEF IInv, TypeOK
<1>2. sub[r] # NoSub => Telling(sub[r], reader[r])
  BY DEF StaleIsTold, Subscribed, Telling
<1>3. reader[r] \in [rows : Rows, stale : BOOLEAN]
  BY <1>1
<1>4. ASSUME sub[r] # NoSub, OnlyMarks(sub[r], sub'[r]), reader' = reader
      PROVE  Telling(sub'[r], reader'[r])
  BY <1>2, <1>4 DEF OnlyMarks, Telling
<1>5. ASSUME NEW o \in Requests, NEW q \in Queries, Subscribe(o, q)
      PROVE  Telling(sub'[r], reader'[r])
  <2>1. /\ sub' = [sub EXCEPT ![o] = Fresh(q)]
        /\ reader' = [reader EXCEPT ![o] = [rows |-> NoRows, stale |-> FALSE]]
    BY <1>5 DEF Subscribe
  <2>2. DOMAIN sub = Requests /\ DOMAIN reader = Requests
    BY DEF IInv, TypeOK
  <2>3. CASE o = r
    BY <1>1, <2>1, <2>2, <2>3, FreshTells
  <2>4. CASE o # r
    BY <1>2, <2>1, <2>2, <2>4
  <2> QED BY <2>3, <2>4
<1>6. ASSUME NEW o \in Requests, Release(o) PROVE Telling(sub'[r], reader'[r])
  BY <1>2, <1>6 DEF Release, IInv, TypeOK
<1>7. ASSUME NEW o \in Requests, Deliver(o) PROVE Telling(sub'[r], reader'[r])
  <2>1. Delivered(o)
    BY <1>7, DeliverKeeps
  <2>2. CASE o = r
    BY <1>2, <2>1, <2>2 DEF Delivered, Telling
  <2>3. CASE o # r
    BY <1>2, <2>1, <2>3 DEF Delivered
  <2> QED BY <2>2, <2>3
<1>8. ASSUME NEW relevant \in SUBSET Queries, NEW hits \in SUBSET relevant, Mutate(relevant, hits)
      PROVE  Telling(sub'[r], reader'[r])
  <2>1. reader' = reader
    BY <1>8 DEF Mutate
  <2>2. /\ sub[r] # NoSub
        /\ IF sub[r].query \in relevant
             THEN Staled(sub[r], sub'[r], version + 1)
             ELSE OnlyMarks(sub[r], sub'[r])
    BY <1>8, MutateKeeps DEF MutateEffect
  <2>3. CASE sub[r].query \in relevant
    <3> DEFINE event == StatusEvent(version + 1)
    <3>1. event \in Quiet /\ event.type = "status"
      BY <1>1, StatusQuiet
    <3>2. /\ OfferFull(sub[r].queue, event).offered /\ sub'[r].rows = sub[r].rows
          /\ sub'[r].queue = OfferFull(sub[r].queue, event).queue /\ sub'[r].dirty # NotDirty
      BY <1>1, <2>2, <2>3 DEF Staled, NotDirty
    <3> HIDE DEF event
    <3>3. Telling(sub'[r], reader[r])
      BY <1>1, <1>2, <1>3, <2>2, <3>1, <3>2, OfferTells
    <3> QED BY <2>1, <3>3
  <2>4. CASE sub[r].query \notin relevant
    BY <1>4, <2>1, <2>2, <2>4
  <2> QED BY <2>3, <2>4
<1>9. ASSUME NEW q \in Queries, Begin(q) \/ Compute(q) \/ Fail(q)
      PROVE  Telling(sub'[r], reader'[r])
  <2>1. MarksOf(q)
    BY <1>9, BeginKeeps, BackendAnswersKeeps, CopyMemoryKeeps, FailKeeps DEF Compute, RefreshEffect
  <2>2. reader' = reader
    BY <1>9 DEF Begin, Compute, BackendAnswers, CopyMemory, Fail
  <2> QED BY <1>4, <2>1, <2>2 DEF MarksOf
<1>10. ASSUME NEW q \in Queries, Install(q) PROVE Telling(sub'[r], reader'[r])
  <2>1. InstallEffect(q) /\ reader' = reader
    BY <1>10, InstallKeeps DEF Install
  <2>2. /\ sub[r] # NoSub
        /\ IF r \in Fit(q)
             THEN Installed(sub[r], sub'[r], flight[q].version, RowsOf(q, flight[q].version))
             ELSE OnlyMarks(sub[r], sub'[r])
    BY <2>1 DEF InstallEffect
  <2>3. CASE r \in Fit(q)
    <3> DEFINE rows == RowsOf(q, flight[q].version)
               event == SnapshotEvent(flight[q].version, rows)
    <3>1. flight[q].version \in Nat
      BY DEF IInv, TypeOK
    <3>2. rows \in Rows
      BY <1>1, <3>1, RowsOfSound
    <3>3. event \in Quiet /\ event.type = "snapshot" /\ event.rows = rows
      BY <3>1, <3>2, SnapshotQuiet
    <3>4. /\ OfferFull(sub[r].queue, event).offered /\ sub'[r].rows = event.rows
          /\ sub'[r].queue = OfferFull(sub[r].queue, event).queue /\ sub'[r].dirty = NotDirty
      BY <2>2, <2>3, <3>3 DEF Installed
    <3> HIDE DEF event
    <3>5. Telling(sub'[r], reader[r])
      BY <1>1, <1>2, <1>3, <2>2, <3>3, <3>4, OfferTells
    <3> QED BY <2>1, <3>5
  <2>4. CASE r \notin Fit(q)
    BY <1>4, <2>1, <2>2, <2>4
  <2> QED BY <2>3, <2>4
<1>11. CASE Shutdown
  BY <1>11 DEF Shutdown
<1>12. CASE UNCHANGED vars
  BY <1>2, <1>12 DEF vars
<1> QED BY <1>5, <1>6, <1>7, <1>8, <1>9, <1>10, <1>11, <1>12 DEF Next

(* What a reader shows once it has taken what is queued is what the worker *)
(* believes it shows, and as stale exactly as long as a refresh is owed to *)
(* it, however statuses and snapshots replace each other in its queue.     *)
THEOREM StalenessAlwaysTold == Spec => []StaleIsTold
<1>1. Init => StaleIsTold
  BY DEF Init, StaleIsTold, Subscribed
<1> QED BY <1>1, InitHolds, StepKeeps, StepTells, PTL DEF Spec

-----------------------------------------------------------------------------
(* Results *)

(* A subscription that is not dirty has its query's rows, and one that is  *)
(* dirty is dirty up to the last mutation that changed them.               *)
UpToDirt(s) ==
  IF s.dirty = NotDirty THEN s.rows = RowsOf(s.query, version)
                        ELSE \A c \in changed[s.query] : c <= s.dirty

(* When no id is used twice, a refresh only finds the subscriptions it was *)
(* begun for, and they still wait for it.                                  *)
OwnRefresh(q) ==
  /\ flight[q].version <= version /\ flight[q].requests \subseteq used
  /\ \A r \in flight[q].requests : sub[r] # NoSub => sub[r].query = q /\ sub[r].inFlight

IdsKept ==
  /\ \A r \in Requests : sub[r] # NoSub => r \in used
  /\ \A q \in Queries : OwnRefresh(q)

Correct ==
  /\ IdsKept
  /\ \A r \in Requests : sub[r] # NoSub => UpToDirt(sub[r])

(* Ids stay with the subscription they were given to. *)
LEMMA IdsStayKept ==
  ASSUME IInv, IdsKept, ~ReuseRequestIds, [Next]_vars
  PROVE  IdsKept'
<1>1. /\ version \in Nat /\ flight \in [Queries -> [phase : {"none", "asking", "computed"},
                                                   requests : SUBSET Requests, version : Nat]]
      /\ ListsSound(sub, entries)
  BY DEF IInv, TypeOK
<1>2. /\ \A r \in Requests : sub[r] # NoSub => r \in used
      /\ \A q \in Queries : OwnRefresh(q)
  BY DEF IdsKept
<1>3. ASSUME used \subseteq used', \A q \in Queries : flight'[q] = flight[q],
             version' \in Nat, version' >= version,
             \A r \in Requests : sub'[r] # NoSub =>
               \/ r \in used' \ used
               \/ /\ sub[r] # NoSub /\ sub'[r].query = sub[r].query
                  /\ sub'[r].inFlight = sub[r].inFlight
      PROVE  IdsKept'
  <2>1. \A r \in Requests : sub'[r] # NoSub => r \in used'
    BY <1>2, <1>3
  <2>2. ASSUME NEW q \in Queries PROVE OwnRefresh(q)'
    <3>1. flight'[q].version <= version' /\ flight'[q].requests \subseteq used'
          /\ flight'[q].requests = flight[q].requests
      <4>1. flight[q].version \in Nat /\ flight[q].version <= version
            /\ flight[q].requests \subseteq used
        BY <1>1, <1>2 DEF OwnRefresh
      <4> QED BY <1>1, <1>3, <4>1
    <3>2. ASSUME NEW r \in flight[q].requests, sub'[r] # NoSub
          PROVE  sub'[r].query = q /\ sub'[r].inFlight
      <4>1. r \in used /\ (sub[r] # NoSub => sub[r].query = q /\ sub[r].inFlight) /\ r \in Requests
        BY <1>1, <1>2 DEF OwnRefresh
      <4> QED BY <1>3, <3>2, <4>1
    <3> QED BY <3>1, <3>2 DEF OwnRefresh
  <2> QED BY <2>1, <2>2 DEF IdsKept
<1>4. ASSUME NEW o \in Requests, NEW q \in Queries, Subscribe(o, q) PROVE IdsKept'
  <2>1. /\ o \notin used /\ used' = used \cup {o} /\ version' = version /\ flight' = flight
        /\ sub' = [sub EXCEPT ![o] = Fresh(q)]
    BY <1>4 DEF Subscribe
  <2>2. DOMAIN sub = Requests
    BY DEF IInv, TypeOK
  <2>3. \A r \in Requests : r # o => sub'[r] = sub[r]
    BY <2>1, <2>2
  <2>4. version' >= version /\ used \subseteq used' /\ o \in used' \ used
    BY <1>1, <2>1
  <2> QED BY <1>1, <1>3, <2>1, <2>3, <2>4
<1>5. ASSUME NEW o \in Requests, Release(o) PROVE IdsKept'
  <2>1. /\ used' = used /\ version' = version /\ flight' = flight
        /\ sub' = [sub EXCEPT ![o] = NoSub]
    BY <1>5 DEF Release
  <2>2. \A r \in Requests : sub'[r] # NoSub => sub'[r] = sub[r]
    BY <2>1 DEF IInv, TypeOK
  <2> QED BY <1>1, <1>3, <2>1, <2>2
<1>6. ASSUME NEW o \in Requests, Deliver(o) PROVE IdsKept'
  <2>1. used' = used /\ version' = version /\ flight' = flight
    BY <1>6 DEF Deliver
  <2>2. Delivered(o)
    BY <1>6, DeliverKeeps
  <2>3. ASSUME NEW r \in Requests, sub'[r] # NoSub
        PROVE  sub[r] # NoSub /\ sub'[r].query = sub[r].query /\ sub'[r].inFlight = sub[r].inFlight
    <3>1. CASE r = o
      BY <2>2, <2>3, <3>1 DEF Delivered
    <3>2. CASE r # o
      BY <2>2, <2>3, <3>2 DEF Delivered
    <3> QED BY <3>1, <3>2
  <2> QED BY <1>1, <1>3, <2>1, <2>3
<1>7. ASSUME NEW relevant \in SUBSET Queries, NEW hits \in SUBSET relevant, Mutate(relevant, hits)
      PROVE  IdsKept'
  <2>1. used' = used /\ version' = version + 1 /\ flight' = flight
    BY <1>7 DEF Mutate
  <2>2. \A r \in Requests : sub'[r] # NoSub =>
          sub[r] # NoSub /\ sub'[r].query = sub[r].query /\ sub'[r].inFlight = sub[r].inFlight
    BY <1>7, MutateKeeps DEF MutateEffect, Staled, OnlyMarks
  <2>3. version' \in Nat /\ version' >= version
    BY <1>1, <2>1
  <2> QED BY <1>3, <2>1, <2>2, <2>3
<1>8. ASSUME NEW q \in Queries, used' = used, version' = version,
             \A p \in Queries \ {q} : flight'[p] = flight[p],
             \A r \in Requests : sub'[r] # NoSub =>
               /\ sub[r] # NoSub /\ sub'[r].query = sub[r].query
               /\ \A p \in Queries \ {q} : r \in flight[p].requests =>
                    sub'[r].inFlight = sub[r].inFlight,
             OwnRefresh(q)'
      PROVE  IdsKept'
  <2>1. \A r \in Requests : sub'[r] # NoSub => r \in used'
    BY <1>2, <1>8
  <2>2. ASSUME NEW p \in Queries \ {q} PROVE OwnRefresh(p)'
    <3>1. OwnRefresh(p) /\ flight'[p] = flight[p]
      BY <1>2, <1>8
    <3>2. ASSUME NEW r \in flight[p].requests, sub'[r] # NoSub
          PROVE  sub'[r].query = p /\ sub'[r].inFlight
      <4>1. r \in Requests /\ sub[r] # NoSub /\ sub'[r].query = sub[r].query
            /\ sub'[r].inFlight = sub[r].inFlight
        BY <1>1, <1>8, <3>2
      <4> QED BY <3>1, <4>1 DEF OwnRefresh
    <3>3. flight'[p].version <= version' /\ flight'[p].requests \subseteq used'
      BY <1>8, <3>1 DEF OwnRefresh
    <3> QED BY <3>1, <3>2, <3>3 DEF OwnRefresh
  <2> QED BY <1>8, <2>1, <2>2 DEF IdsKept
<1>9. ASSUME NEW q \in Queries, Begin(q) \/ Compute(q) \/ Fail(q) PROVE IdsKept'
  <2>1. RefreshEffect(q) /\ MarksOf(q)
    BY <1>9, BeginKeeps, BackendAnswersKeeps, CopyMemoryKeeps, FailKeeps DEF Compute, RefreshEffect
  <2>2. used' = used /\ version' = version
    BY <1>9 DEF Begin, Compute, BackendAnswers, CopyMemory, Fail
  <2>3. ASSUME NEW r \in Requests, sub'[r] # NoSub
        PROVE  /\ sub[r] # NoSub /\ sub'[r].query = sub[r].query
               /\ \A p \in Queries \ {q} : r \in flight[p].requests =>
                    sub'[r].inFlight = sub[r].inFlight
    BY <1>2, <2>1, <2>3 DEF MarksOf, OnlyMarks, OwnRefresh
  <2>4. OwnRefresh(q)'
    <3>1. CASE flight'[q] = NoFlight
      <4>1. flight'[q].version = 0 /\ flight'[q].requests = {}
        BY <3>1 DEF NoFlight
      <4> QED BY <1>1, <2>2, <4>1 DEF OwnRefresh
    <3>2. CASE \E due \in SUBSET Requests : Begun(q, due)
      <4>1. PICK due \in SUBSET Requests : Begun(q, due)
        BY <3>2
      <4>2. due \subseteq used
        BY <1>2, <2>3, <4>1 DEF Begun
      <4>3. flight'[q].version <= version' /\ flight'[q].requests = due
        BY <1>1, <2>2, <4>1 DEF Begun
      <4>4. \A r \in due : sub'[r].query = q /\ sub'[r].inFlight
        BY <4>1 DEF Begun
      <4> QED BY <2>2, <4>2, <4>3, <4>4 DEF OwnRefresh
    <3>3. CASE /\ sub' = sub /\ flight'[q].requests \subseteq flight[q].requests
               /\ flight'[q].version \in {flight[q].version, version}
      <4>1. OwnRefresh(q)
        BY <1>2
      <4>2. flight'[q].version <= version'
        BY <1>1, <2>2, <3>3, <4>1 DEF OwnRefresh
      <4> QED BY <2>2, <3>3, <4>1, <4>2 DEF OwnRefresh
    <3> QED BY <2>1, <3>1, <3>2, <3>3 DEF RefreshEffect
  <2> QED BY <1>8, <2>1, <2>2, <2>3, <2>4 DEF MarksOf
<1>10. ASSUME NEW q \in Queries, Install(q) PROVE IdsKept'
  <2>1. InstallEffect(q) /\ used' = used /\ version' = version
    BY <1>10, InstallKeeps DEF Install
  <2>2. ASSUME NEW r \in Requests, r \in Fit(q) \cup Overtaken(q) PROVE sub[r].query = q
    <3>1. CASE r \in flight[q].requests /\ sub[r] # NoSub
      BY <1>2, <3>1 DEF OwnRefresh
    <3>2. CASE q \in DOMAIN entries /\ r \in entries[q].pending
      BY <1>1, <3>2 DEF ListsSound, EntrySound
    <3> QED BY <2>2, <3>1, <3>2 DEF Fit, Overtaken
  <2>3. ASSUME NEW r \in Requests, sub'[r] # NoSub
        PROVE  /\ sub[r] # NoSub /\ sub'[r].query = sub[r].query
               /\ \A p \in Queries \ {q} : r \in flight[p].requests =>
                    sub'[r].inFlight = sub[r].inFlight
    <3>1. sub[r] # NoSub /\ sub'[r].query = sub[r].query
      BY <2>1, <2>3 DEF InstallEffect, Installed, OnlyMarks
    <3>2. r \notin Fit(q) \cup Overtaken(q) => sub'[r].inFlight = sub[r].inFlight
      BY <2>1, <2>3 DEF InstallEffect
    <3>3. \A p \in Queries \ {q} : r \in flight[p].requests => sub[r].query = p
      BY <1>2, <3>1 DEF OwnRefresh
    <3> QED BY <2>2, <3>1, <3>2, <3>3
  <2>4. OwnRefresh(q)'
    <3>1. flight'[q].version = 0 /\ flight'[q].requests = {}
      BY <2>1 DEF InstallEffect, NoFlight
    <3> QED BY <1>1, <2>1, <3>1 DEF OwnRefresh
  <2>5. \A p \in Queries \ {q} : flight'[p] = flight[p]
    BY <2>1 DEF InstallEffect, SameElsewhere
  <2> QED BY <1>8, <2>1, <2>3, <2>4, <2>5
<1>11. CASE Shutdown
  <2>1. /\ \A r \in Requests : sub'[r] = NoSub
        /\ \A q \in Queries : flight'[q].version = 0 /\ flight'[q].requests = {}
        /\ version' = version
    BY <1>11 DEF Shutdown, NoFlight
  <2>2. \A q \in Queries : OwnRefresh(q)'
    BY <1>1, <2>1 DEF OwnRefresh
  <2> QED BY <2>1, <2>2 DEF IdsKept
<1>12. CASE UNCHANGED vars
  BY <1>12 DEF vars, IdsKept, OwnRefresh
<1> QED BY <1>4, <1>5, <1>6, <1>7, <1>9, <1>10, <1>11, <1>12 DEF Next

(* The rows of a query at two versions are the same if no mutation between *)
(* them changed them.                                                      *)
LEMMA SameRows ==
  ASSUME NEW q \in Queries, NEW v \in Nat, NEW w \in Nat,
         \A c \in changed[q] : c <= v /\ c <= w
  PROVE  RowsOf(q, v) = RowsOf(q, w)
<1>1. {c \in changed[q] : c <= v} = {c \in changed[q] : c <= w}
  OBVIOUS
<1> QED BY <1>1 DEF RowsOf

(* Rows stay those of the current version unless marked stale. *)
LEMMA StaysCorrect ==
  ASSUME IInv, Correct, ~ReuseRequestIds, [Next]_vars
  PROVE  Correct'
<1>1. IdsKept'
  BY IdsStayKept DEF Correct
<1> SUFFICES ASSUME NEW r \in Requests, sub'[r] # NoSub PROVE UpToDirt(sub[r])'
  BY <1>1 DEF Correct
<1>2. /\ version \in Nat /\ changed \in [Queries -> SUBSET (1 .. version)]
      /\ \A q \in Queries : flight[q].version \in Nat
  BY DEF IInv, TypeOK
<1>3. sub[r] # NoSub => /\ UpToDirt(sub[r]) /\ sub[r].query \in Queries
                        /\ sub[r].dirty \in Nat /\ sub[r].dirty <= version
  BY DEF Correct, IInv, TypeOK, Subscribed, Subscription
<1>4. ASSUME sub[r] # NoSub, sub'[r].query = sub[r].query, sub'[r].dirty = sub[r].dirty,
             sub'[r].rows = sub[r].rows, UNCHANGED <<version, changed>>
      PROVE  UpToDirt(sub[r])'
  <2>1. UpToDirt(sub[r])
    BY <1>3, <1>4
  <2> QED BY <1>4, <2>1 DEF UpToDirt, RowsOf
<1>5. ASSUME NEW o \in Requests, NEW q \in Queries, Subscribe(o, q) PROVE UpToDirt(sub[r])'
  <2>1. sub' = [sub EXCEPT ![o] = Fresh(q)] /\ UNCHANGED <<version, changed>>
    BY <1>5 DEF Subscribe
  <2>2. DOMAIN sub = Requests /\ TypeOK
    BY DEF IInv, TypeOK
  <2>3. CASE o = r
    <3>1. sub'[r] = Fresh(q)
      BY <2>1, <2>2, <2>3
    <3>2. sub'[r].query = q /\ sub'[r].dirty = NotDirty /\ sub'[r].rows = RowsOf(q, version)
      BY <2>2, <3>1, FreshSound
    <3> QED BY <2>1, <3>2 DEF UpToDirt, RowsOf
  <2>4. CASE o # r
    BY <1>4, <2>1, <2>2, <2>4
  <2> QED BY <2>3, <2>4
<1>6. ASSUME NEW o \in Requests, Release(o) PROVE UpToDirt(sub[r])'
  <2>1. sub' = [sub EXCEPT ![o] = NoSub] /\ UNCHANGED <<version, changed>>
    BY <1>6 DEF Release
  <2>2. sub'[r] = sub[r]
    BY <2>1 DEF IInv, TypeOK
  <2> QED BY <1>4, <2>1, <2>2
<1>7. ASSUME NEW o \in Requests, Deliver(o) PROVE UpToDirt(sub[r])'
  <2>1. Delivered(o) /\ UNCHANGED <<version, changed>>
    BY <1>7, DeliverKeeps DEF Deliver
  <2>2. CASE o = r
    BY <1>4, <2>1, <2>2 DEF Delivered
  <2>3. CASE o # r
    BY <1>4, <2>1, <2>3 DEF Delivered
  <2> QED BY <2>2, <2>3
<1>8. ASSUME NEW relevant \in SUBSET Queries, NEW hits \in SUBSET relevant, Mutate(relevant, hits)
      PROVE  UpToDirt(sub[r])'
  <2>1. /\ version' = version + 1
        /\ changed' = [q \in Queries |-> IF q \in hits THEN changed[q] \cup {version + 1}
                                                       ELSE changed[q]]
    BY <1>8 DEF Mutate
  <2>2. /\ sub[r] # NoSub
        /\ IF sub[r].query \in relevant
             THEN Staled(sub[r], sub'[r], version + 1)
             ELSE OnlyMarks(sub[r], sub'[r])
    BY <1>8, MutateKeeps DEF MutateEffect
  <2> DEFINE q == sub[r].query
  <2>3. q \in Queries /\ UpToDirt(sub[r]) /\ changed[q] \subseteq 1 .. version
    BY <1>2, <1>3, <2>2
  <2>4. CASE q \in relevant
    <3>1. sub'[r].query = q /\ sub'[r].dirty = version + 1
      BY <2>2, <2>4 DEF Staled
    <3>2. \A c \in changed'[q] : c <= version + 1
      BY <1>2, <2>1, <2>3
    <3> QED BY <1>2, <3>1, <3>2 DEF UpToDirt, NotDirty
  <2>5. CASE q \notin relevant
    <3>1. /\ sub'[r].query = q /\ sub'[r].dirty = sub[r].dirty /\ sub'[r].rows = sub[r].rows
          /\ changed'[q] = changed[q]
      BY <2>1, <2>2, <2>3, <2>5 DEF OnlyMarks
    <3>2. RowsOf(q, version) = RowsOf(q, version + 1)
      <4>1. \A c \in changed[q] : c <= version /\ c <= version + 1
        BY <1>2, <2>3
      <4> HIDE DEF q
      <4> QED BY <1>2, <2>3, <4>1, SameRows
    <3>3. <<q, Max({c \in changed'[q] : c <= version'} \cup {0})>> = RowsOf(q, version + 1)
      BY <2>1, <3>1 DEF RowsOf
    <3> HIDE DEF q
    <3>4. UpToDirt(sub[r]) /\ sub[r].query = q
      BY <2>3 DEF q
    <3> QED BY <3>1, <3>2, <3>3, <3>4 DEF UpToDirt, RowsOf
  <2> QED BY <2>4, <2>5
<1>9. ASSUME NEW q \in Queries, Begin(q) \/ Compute(q) \/ Fail(q) PROVE UpToDirt(sub[r])'
  <2>1. MarksOf(q)
    BY <1>9, BeginKeeps, BackendAnswersKeeps, CopyMemoryKeeps, FailKeeps DEF Compute, RefreshEffect
  <2>2. UNCHANGED <<version, changed>>
    BY <1>9 DEF Begin, Compute, BackendAnswers, CopyMemory, Fail
  <2> QED BY <1>4, <2>1, <2>2 DEF MarksOf, OnlyMarks
<1>10. ASSUME NEW q \in Queries, Install(q) PROVE UpToDirt(sub[r])'
  <2> DEFINE v == flight[q].version
  <2>1. InstallEffect(q) /\ UNCHANGED <<version, changed>>
    BY <1>10, InstallKeeps DEF Install
  <2>2. /\ sub[r] # NoSub
        /\ IF r \in Fit(q) THEN Installed(sub[r], sub'[r], v, RowsOf(q, v))
                           ELSE OnlyMarks(sub[r], sub'[r])
    BY <2>1 DEF InstallEffect
  <2>3. CASE r \in Fit(q)
    <3>1. sub'[r].query = sub[r].query /\ sub'[r].dirty = NotDirty /\ sub'[r].rows = RowsOf(q, v)
      BY <2>2, <2>3 DEF Installed
    <3>2. /\ sub[r].query = q /\ sub[r].inFlight /\ v <= version
          /\ (sub[r].dirty = NotDirty \/ sub[r].dirty <= v)
      BY <2>2, <2>3 DEF Correct, IdsKept, OwnRefresh, Fit, UpToDate
    <3>3. sub[r].dirty # NotDirty
      BY <2>2, <3>2 DEF IInv, Owed
    <3>4. \A c \in changed[q] : c <= sub[r].dirty
      BY <1>3, <2>2, <3>2, <3>3 DEF UpToDirt
    <3>5. v \in Nat /\ changed[q] \subseteq 1 .. version /\ sub[r].dirty \in Nat
          /\ sub[r].dirty <= v
      BY <1>2, <1>3, <2>2, <3>2, <3>3
    <3>6. \A c \in changed[q] : c <= v /\ c <= version
      <4> HIDE DEF v
      <4> QED BY <1>2, <3>4, <3>5
    <3>7. RowsOf(q, v) = RowsOf(q, version)
      <4> HIDE DEF v
      <4> QED BY <1>2, <3>5, <3>6, SameRows
    <3>8. sub'[r].rows = RowsOf(q, version)
      BY <3>1, <3>7
    <3> QED BY <2>1, <3>1, <3>2, <3>8 DEF UpToDirt, RowsOf
  <2>4. CASE r \notin Fit(q)
    BY <1>4, <2>1, <2>2, <2>4 DEF OnlyMarks
  <2> QED BY <2>3, <2>4
<1>11. CASE Shutdown
  BY <1>11 DEF Shutdown
<1>12. CASE UNCHANGED vars
  BY <1>3, <1>4, <1>12 DEF vars
<1> QED BY <1>5, <1>6, <1>7, <1>8, <1>9, <1>10, <1>11, <1>12 DEF Next

(* What clients are told is right when no request id is used twice, as the *)
(* generated client sees to: the rows of a subscription not marked stale   *)
(* are its own query's at the current version, although refreshes overlap  *)
(* mutations, fail, and are shared.                                        *)
THEOREM ClientsAreToldRight ==
  ASSUME ~ReuseRequestIds
  PROVE  Spec => []ClientsTold
<1>1. Init => Correct
  <2> SUFFICES ASSUME Init PROVE Correct
    OBVIOUS
  <2>1. /\ version = 0 /\ \A r \in Requests : sub[r] = NoSub
        /\ \A q \in Queries : flight[q].version = 0 /\ flight[q].requests = {}
    BY DEF Init, NoFlight
  <2>2. \A q \in Queries : OwnRefresh(q)
    BY <2>1 DEF OwnRefresh
  <2> QED BY <2>1, <2>2 DEF Correct, IdsKept
<1>2. IInv /\ Correct /\ [Next]_vars => Correct'
  BY StaysCorrect
<1>3. Init => StaleIsTold
  BY DEF Init, StaleIsTold, Subscribed
<1>4. IInv /\ StaleIsTold /\ Correct => ClientsTold
  BY DEF IInv, Correct, UpToDirt, ClientsTold, CurrentUnlessStale, Subscribed
<1> QED BY <1>1, <1>2, <1>3, <1>4, InitHolds, StepKeeps, StepTells, PTL DEF Spec
=============================================================================
