---------------------------- MODULE FanoutQueue ----------------------------
(***************************************************************************)
(* The event queue of one subscription and the producer's memory of it,    *)
(* as operators on a record                                                *)
(*                                                                         *)
(*   [events |-> Seq(event), pending |-> seq, lag |-> Nat].                *)
(*                                                                         *)
(* `events` is what the consumer has not taken yet.  `pending` names the   *)
(* delta event the producer still holds a reference to and mutates when it *)
(* coalesces (pendingDeltaEvent; 0 when there is none): the producer finds *)
(* it by reference, wherever it is by then, so a delta carries an identity *)
(* `seq`, the version it was made for.  `lag` is pendingLagVersions.       *)
(*                                                                         *)
(* Events are records [type, seq, from, to, ops, rows]: a delta carries    *)
(* row operations, a snapshot rows, a status event neither.  An operation  *)
(* is a pair [base, rows]: it turns the row list `base` into `rows`.       *)
(***************************************************************************)
EXTENDS Integers, Sequences, SequencesExt

CONSTANTS
  MaxQueueDepth,   (* worker.maxQueueDepth   *)
  DeltaCoalescing, (* worker.deltaCoalescing *)
  NoRows           (* in place of the rows of an event that carries none, *)
                   (* and what operations make of rows they do not fit   *)

ASSUME QueueConstants == MaxQueueDepth \in Nat /\ DeltaCoalescing \in BOOLEAN

(* What is in a queue whose rows are in R: a delta goes forward, and *)
(* only a delta carries operations.                                  *)

Operations(R) == [base : R, rows : R]

Events(R) ==
  {event \in [type : {"delta", "snapshot", "status"}, seq : Nat, from : Nat, to : Nat,
              ops : Seq(Operations(R)), rows : R] :
     event.from <= event.to /\ (event.type # "delta" => event.ops = << >>)}

Queues(R) == [events : Seq(Events(R)), pending : Nat, lag : Nat]

EmptyQueue == [events |-> << >>, pending |-> 0, lag |-> 0]

DeltaEvent(from, to, ops) ==
  [type |-> "delta", seq |-> to, from |-> from, to |-> to, ops |-> ops, rows |-> NoRows]

SnapshotEvent(version, rows) ==
  [type |-> "snapshot", seq |-> 0, from |-> version, to |-> version,
   ops |-> << >>, rows |-> rows]

StatusEvent(version) ==
  [type |-> "status", seq |-> 0, from |-> version, to |-> version,
   ops |-> << >>, rows |-> NoRows]

Span(event) == IF event.type = "delta" THEN event.to - event.from ELSE 0

QueuedLag(events) ==
  LET lag[n \in 0 .. Len(events)] == IF n = 0 THEN 0 ELSE lag[n - 1] + Span(events[n])
  IN  lag[Len(events)]

WouldExceedQueueLimit(depth) ==
  IF MaxQueueDepth <= 0 THEN depth >= 0 ELSE depth >= MaxQueueDepth

Refused(q) == [offered |-> FALSE, queue |-> q]

Accepted(events, pending, lag) ==
  [offered |-> TRUE, queue |-> [events |-> events, pending |-> pending, lag |-> lag]]

-----------------------------------------------------------------------------
(* An empty queue means that the pending delta was taken. *)
ForgetTaken(q) == IF q.events = << >> THEN EmptyQueue ELSE q

(* Mutate the pending event in place, if it is still queued. *)
MergeInto(events, pending, event) ==
  [i \in DOMAIN events |->
     IF events[i].seq = pending
       THEN [events[i] EXCEPT !.ops = @ \o event.ops, !.to = event.to]
       ELSE events[i]]

(* Seeded faults of OfferDelta: the pending reference outlives its event,  *)
(* the coalesced lag is not bounded.                                       *)
OfferDeltaKeepsTaken(q, event) ==
  IF DeltaCoalescing /\ q.pending # 0
    THEN Accepted(MergeInto(q.events, q.pending, event), q.pending, q.lag + Span(event))
    ELSE IF WouldExceedQueueLimit(Len(q.events))
      THEN Refused(q)
      ELSE Accepted(Append(q.events, event),
                    IF DeltaCoalescing THEN event.seq ELSE q.pending, Span(event))

OfferDeltaUnboundedLag(q, event) ==
  LET held == ForgetTaken(q)
  IN  IF held.pending # 0
        THEN Accepted(MergeInto(held.events, held.pending, event), held.pending,
                      held.lag + Span(event))
        ELSE Accepted(Append(held.events, event), event.seq, Span(event))

(* Offer a delta: coalesce it into the pending one when there is one, else *)
(* append it, unless a limit is hit.                                       *)
OfferDelta(q, event) ==
  LET held == ForgetTaken(q)
      nextLag == held.lag + Span(event)
  IN  IF ~DeltaCoalescing
        THEN IF WouldExceedQueueLimit(Len(q.events))
               THEN Refused(q)
               ELSE Accepted(Append(q.events, event), q.pending, q.lag)
      ELSE IF held.pending # 0
        THEN IF MaxQueueDepth > 0 /\ nextLag > MaxQueueDepth
               THEN Refused(held)
               ELSE Accepted(MergeInto(held.events, held.pending, event), held.pending, nextLag)
      ELSE IF \/ WouldExceedQueueLimit(Len(held.events))
              \/ MaxQueueDepth > 0 /\ Span(event) > MaxQueueDepth
        THEN Refused(held)
        ELSE Accepted(Append(held.events, event), event.seq, Span(event))

WithoutStatus(events) ==
  LET kept[n \in 0 .. Len(events)] ==
        IF n = 0 THEN << >>
        ELSE IF events[n].type = "status" THEN kept[n - 1] ELSE Append(kept[n - 1], events[n])
  IN  kept[Len(events)]

(* Offer a status or a snapshot event (offerStatus, offerSnapshot): drain  *)
(* the queue, drop the status events it held, put everything back with the *)
(* new event at the end.  When that is too long the drained events go back *)
(* as they were.                                                           *)
OfferFull(q, event) ==
  LET next == Append(WithoutStatus(q.events), event)
  IN  IF Len(next) > MaxQueueDepth THEN Refused(q) ELSE Accepted(next, 0, QueuedLag(next))

-----------------------------------------------------------------------------
(* What the reader at the far end makes of the events, in order: the rows  *)
(* it shows, and whether it shows them as stale.                           *)

ApplyOps(rows, ops) ==
  LET has[n \in 0 .. Len(ops)] ==
        IF n = 0 THEN rows
        ELSE IF has[n - 1] = ops[n].base THEN ops[n].rows ELSE NoRows
  IN  has[Len(ops)]

RowsTaken(rows, event) ==
  IF event.type = "snapshot" THEN event.rows ELSE ApplyOps(rows, event.ops)

RowsShown(rows, events) ==
  LET shown[n \in 0 .. Len(events)] ==
        IF n = 0 THEN rows ELSE RowsTaken(shown[n - 1], events[n])
  IN  shown[Len(events)]

StaleShown(stale, events) ==
  IF events = << >> THEN stale ELSE Last(events).type = "status"
=============================================================================
