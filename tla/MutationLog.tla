---------------------------- MODULE MutationLog ----------------------------
(***************************************************************************)
(* The bounded replay log of a topic worker: a ring buffer of the last     *)
(* LogCapacity mutations, as operators on a record                         *)
(*                                                                         *)
(*   [entries |-> physical slot -> entry, start |-> slot, size |-> Nat].   *)
(*                                                                         *)
(* An entry is a record whose field `version` is the topic version the     *)
(* mutation produced; the other fields are the caller's.                   *)
(***************************************************************************)
EXTENDS Integers, Sequences

CONSTANTS
  LogCapacity,  (* worker.mutationLogSize: number of slots, 0 keeps no log *)
  NoEntry       (* what an empty slot holds (undefined in the code)        *)

ASSUME LogCapacityIsNat == LogCapacity \in Nat

Slots == 0 .. (LogCapacity - 1)

EmptyLog == [entries |-> [slot \in Slots |-> NoEntry], start |-> 0, size |-> 0]

PhysicalIndex(log, i) == (log.start + i) % LogCapacity

EntryAt(log, i) ==
  IF i \in 0 .. (log.size - 1) /\ LogCapacity > 0
    THEN log.entries[PhysicalIndex(log, i)]
    ELSE NoEntry

-----------------------------------------------------------------------------

AppendEntryKeepsStart(log, entry) ==
  IF log.size < LogCapacity
    THEN [log EXCEPT !.entries[PhysicalIndex(log, log.size)] = entry,
                     !.size = @ + 1]
    ELSE [log EXCEPT !.entries[log.start] = entry]

(* The oldest entry gives way once the ring is full. *)
AppendEntry(log, entry) ==
  IF LogCapacity = 0 THEN log
  ELSE IF log.size < LogCapacity
    THEN [entries |-> [log.entries EXCEPT ![PhysicalIndex(log, log.size)] = entry],
          start   |-> log.start,
          size    |-> log.size + 1]
    ELSE [entries |-> [log.entries EXCEPT ![log.start] = entry],
          start   |-> (log.start + 1) % LogCapacity,
          size    |-> log.size]

(* Seeded faults of CoversExclusive: off by one at the old end, in each    *)
(* direction.                                                              *)
CoversOneTooMany(log, from, to) ==
  \/ from >= to
  \/ /\ EntryAt(log, 0) # NoEntry
     /\ EntryAt(log, 0).version <= from + 2
     /\ EntryAt(log, log.size - 1).version >= to

CoversOneTooFew(log, from, to) ==
  \/ from >= to
  \/ /\ EntryAt(log, 0) # NoEntry
     /\ EntryAt(log, 0).version <= from
     /\ EntryAt(log, log.size - 1).version >= to

(* Does the log hold every version in (from, to]? *)
CoversExclusive(log, from, to) ==
  \/ from >= to
  \/ /\ EntryAt(log, 0) # NoEntry
     /\ EntryAt(log, log.size - 1) # NoEntry
     /\ EntryAt(log, 0).version <= from + 1
     /\ EntryAt(log, log.size - 1).version >= to

(* The held entries of (from, to], oldest first. *)
EntriesExclusive(log, from, to) ==
  LET Wanted(entry) == entry # NoEntry /\ entry.version > from /\ entry.version <= to
      held[n \in 0 .. log.size] ==
        IF n = 0 THEN << >>
        ELSE IF Wanted(EntryAt(log, n - 1)) THEN Append(held[n - 1], EntryAt(log, n - 1))
        ELSE held[n - 1]
  IN  held[log.size]
=============================================================================
