--------------------------- MODULE MutationStore ---------------------------
(***************************************************************************)
(* The authoritative memory of one topic worker: the row array, the index  *)
(* from id to array position, the version counter and the mutation log.    *)
(* Two readers depend on replaying the log onto an older copy of the rows: *)
(* an active-plan build, which copied the array when it began, and the     *)
(* snapshot backend, which returns the rows it has in an order of its own. *)
(* `copy` is such a copy.                                                  *)
(*                                                                         *)
(* Rows are [id, val]; the fields of a row other than its id are one       *)
(* abstract value.  Array positions count from 1 and position 0 stands for *)
(* an id the index does not hold.                                          *)
(***************************************************************************)
EXTENDS MutationLog, FiniteSets, SequencesExt

CONSTANTS
  Ids, Vals, NoVal,
  InitialRows,   (* the row arrays loadInitialRows may be given     *)
  MaxVersion     (* bound of the model on the number of mutations   *)

Row == [id : Ids, val : Vals]

DistinctIds(rows) ==
  \A i, j \in 1 .. Len(rows) : rows[i].id = rows[j].id => i = j

ASSUME StoreConstants ==
  /\ NoVal \notin Vals
  /\ MaxVersion \in Nat
  /\ \A rows \in InitialRows : rows \in Seq(Row) /\ DistinctIds(rows)

VARIABLES
  table,    (* [rows, index]: #rows and #idIndex               *)
  version,  (* #version                                        *)
  log,      (* #mutationLog                                    *)
  copy      (* [rows, version, ordered]: a copy taken earlier  *)

vars == <<table, version, log, copy>>

-----------------------------------------------------------------------------
(* The row array with its index.  The same three helpers serve the live    *)
(* table and a replay.                                                     *)

IndexOf(rows) ==
  [id \in Ids |-> CHOOSE i \in 0 .. Len(rows) :
                    /\ i = 0 => \A j \in 1 .. Len(rows) : rows[j].id # id
                    /\ i > 0 => /\ rows[i].id = id
                                /\ \A j \in (i + 1) .. Len(rows) : rows[j].id # id]

Tabulate(rows) == [rows |-> rows, index |-> IndexOf(rows)]

(* Push a new row or overwrite the indexed one in place. *)
PutRow(t, row) ==
  IF t.index[row.id] = 0
    THEN [rows  |-> Append(t.rows, row),
          index |-> [t.index EXCEPT ![row.id] = Len(t.rows) + 1]]
    ELSE [t EXCEPT !.rows[t.index[row.id]] = row]

(* Seeded fault of SwapRemove: the row swapped into the hole keeps its old     *)
(* index position.                                                         *)
SwapRemoveLosesMoved(t, id) ==
  LET hole == t.index[id]
      last == Len(t.rows)
  IN  IF hole = 0 THEN t
      ELSE [rows  |-> SubSeq([t.rows EXCEPT ![hole] = t.rows[last]], 1, last - 1),
            index |-> [t.index EXCEPT ![id] = 0]]

(* Swap-remove: the last row fills the hole, so only its index moves. *)
SwapRemove(t, id) ==
  LET hole == t.index[id]
      last == Len(t.rows)
      moved == t.rows[last]
  IN  IF hole = 0 THEN t
      ELSE [rows  |-> SubSeq([t.rows EXCEPT ![hole] = moved], 1, last - 1),
            index |-> IF hole = last
                        THEN [t.index EXCEPT ![id] = 0]
                        ELSE [t.index EXCEPT ![id] = 0, ![moved.id] = hole]]

RowOf(t, id) == t.rows[t.index[id]]

(* A log entry is replayed by what the mutation did. *)
ReplayEntry(t, entry) ==
  IF entry.kind = "delete" THEN SwapRemove(t, entry.id)
  ELSE PutRow(t, [id |-> entry.id, val |-> entry.val])

(* Replay log entries onto a copy of the rows, one after the other. *)
Replay(rows, entries) ==
  LET replayed[n \in 0 .. Len(entries)] ==
        IF n = 0 THEN Tabulate(rows) ELSE ReplayEntry(replayed[n - 1], entries[n])
  IN  replayed[Len(entries)]

-----------------------------------------------------------------------------
Init ==
  /\ \E rows \in InitialRows : /\ table = Tabulate(rows)
                               /\ copy = [rows |-> rows, version |-> 0, ordered |-> TRUE]
  /\ version = 0
  /\ log = EmptyLog

(* Every mutation bumps the version and logs itself under the new one. *)
AppendMutation(kind, id, val) ==
  /\ version' = version + 1
  /\ log' = AppendEntry(log, [version |-> version + 1, kind |-> kind,
                              id |-> id, val |-> val])

Publish(id, val) ==
  /\ version < MaxVersion
  /\ table' = PutRow(table, [id |-> id, val |-> val])
  /\ AppendMutation(IF table.index[id] = 0 THEN "insert" ELSE "update", id, val)
  /\ UNCHANGED copy

(* deltaPublish: a patch of an id the table does not hold changes nothing. *)
UpdateExisting(id, val) ==
  /\ version < MaxVersion
  /\ table.index[id] # 0
  /\ table' = PutRow(table, [id |-> id, val |-> val])
  /\ AppendMutation("update", id, val)
  /\ UNCHANGED copy

(* Seeded fault of DeleteById: an absent id is deleted all the same. *)
DeleteUnguarded(id) ==
  /\ version < MaxVersion
  /\ table' = SwapRemove(table, id)
  /\ AppendMutation("delete", id, NoVal)
  /\ UNCHANGED copy

DeleteById(id) ==
  /\ version < MaxVersion
  /\ table.index[id] # 0
  /\ table' = SwapRemove(table, id)
  /\ AppendMutation("delete", id, NoVal)
  /\ UNCHANGED copy

(* An active-plan build copies the array as it is. *)
CopyForBuild ==
  /\ copy' = [rows |-> table.rows, version |-> version, ordered |-> TRUE]
  /\ UNCHANGED <<table, version, log>>

(* The snapshot backend returns the same rows in its own order. *)
CopyForBackend ==
  /\ \E rows \in SetToSeqs(ToSet(table.rows)) :
       copy' = [rows |-> rows, version |-> version, ordered |-> FALSE]
  /\ UNCHANGED <<table, version, log>>

Next ==
  \/ \E id \in Ids, val \in Vals : Publish(id, val) \/ UpdateExisting(id, val)
  \/ \E id \in Ids : DeleteById(id)
  \/ CopyForBuild
  \/ CopyForBackend

Spec == Init /\ [][Next]_vars

-----------------------------------------------------------------------------
(* Properties *)

Table == [rows : Seq(Row), index : [Ids -> Nat]]

Entry == [version : Nat, kind : {"insert", "update", "delete"},
          id : Ids, val : Vals \cup {NoVal}]

ASSUME EmptySlotIsNoEntry == NoEntry \notin Entry

(* Types of the store's state; the ring never outgrows its capacity. *)
TypeOK ==
  /\ table \in Table
  /\ version \in Nat
  /\ log \in [entries : [Slots -> Entry \cup {NoEntry}], start : Nat, size : Nat]
  /\ log.size <= LogCapacity
  /\ log.start \in Slots \cup {0}
  /\ copy \in [rows : Seq(Row), version : Nat, ordered : BOOLEAN]

TableExact(t) ==
  /\ \A id \in Ids : /\ t.index[id] \in 0 .. Len(t.rows)
                     /\ t.index[id] # 0 => RowOf(t, id).id = id
  /\ \A i \in 1 .. Len(t.rows) : t.index[t.rows[i].id] = i

(* The index is exact after any history of pushes, overwrites and          *)
(* swap-removes: it holds an id just when the array has a row for it, at   *)
(* that row's position, and no id has two rows.  rowById and every         *)
(* overwrite and delete go through it.                                     *)
IndexExact == TableExact(table)

(* The store's data are well typed and its index exact. *)
StoreSound == TypeOK /\ IndexExact

NewestRun(l, v) ==
  /\ l.size = IF v < LogCapacity THEN v ELSE LogCapacity
  /\ \A i \in 0 .. (l.size - 1) : /\ EntryAt(l, i) # NoEntry
                                  /\ EntryAt(l, i).version = v - l.size + 1 + i

(* The log is the contiguous run of versions that ends at the store's      *)
(* version, whatever the ring's rotation.                                  *)
LogIsNewestRun == NewestRun(log, version)

(* A copy that canReplay accepts catches up exactly: replaying the log     *)
(* onto it yields the current rows, for a build's copy in the current      *)
(* array order (plan catch-up and memory agree), for a backend's copy as   *)
(* a set (no deleted row survives, none is missing or doubled).            *)
ReplayCatchesUp ==
  CoversExclusive(log, copy.version, version) =>
    LET replayed == Replay(copy.rows, EntriesExclusive(log, copy.version, version))
    IN  /\ copy.ordered => replayed = table
        /\ ToSet(replayed.rows) = ToSet(table.rows)
        /\ Len(replayed.rows) = Len(table.rows)

(* canReplay turns a reader away only when the log really lost a version   *)
(* it needs.                                                               *)
ReplayOfferedWhenHeld ==
  version - copy.version <= LogCapacity => CoversExclusive(log, copy.version, version)

ValAt(t, id) == IF t.index[id] = 0 THEN NoVal ELSE RowOf(t, id).val

Contents == [id \in Ids |-> ValAt(table, id)]

Abstract == INSTANCE VersionedTable WITH contents <- Contents

(* The array, the index and the swap-remove implement a versioned table. *)
ImplementsTable == Abstract!TableSpec
=============================================================================
