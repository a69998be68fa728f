----------------------------- MODULE VisibleRows -----------------------------
(***************************************************************************)
(* A subscription's visible rows on both sides: the difference the worker  *)
(* sends (diffVisibleRows in worker/query-engine.ts) and its application   *)
(* by the client (client/visible-rows.ts), by splicing a list or, for many *)
(* operations on many rows, through a treap with an index of its nodes.    *)
(* Pure operators; rowKey gives a row's key.                               *)
(***************************************************************************)
EXTENDS RowQuery
LOCAL INSTANCE SequencesExt

CONSTANTS
    TreeRows, TreeOps,  \* rows and operations from which the client uses the tree
    Priority            \* priorityForIndex: a hash, any function will do

RemoveRow(key) == [type |-> "remove", key |-> key]
UpsertRow(key, row, index) == [type |-> "upsert", key |-> key, row |-> row, index |-> index]

RowKey(row, q) == IF IsGrouped(q) THEN [i \in DOMAIN q.groupBy |-> row[q.groupBy[i]]] ELSE row[IdField]

FirstAt(rows, q, key) ==
    LET at == {i \in DOMAIN rows : RowKey(rows[i], q) = key}
    IN  IF at = {} THEN 0 ELSE CHOOSE i \in at : \A j \in at : i <= j

\* Removals first, then, from the front, every row that is new, moved or changed.
DiffVisibleRows(previous, next, q) ==
    LET gone == SelectSeq(previous, LAMBDA r : FirstAt(next, q, RowKey(r, q)) = 0)
        changed == SelectSeq([i \in DOMAIN next |-> i], LAMBDA i :
                      LET p == FirstAt(previous, q, RowKey(next[i], q)) IN
                      p # i \/ ~ProjectedRowsEqual(previous[p], next[i]))
    IN  [i \in DOMAIN gone |-> RemoveRow(RowKey(gone[i], q))]
        \o [i \in DOMAIN changed |-> UpsertRow(RowKey(next[changed[i]], q), next[changed[i]], changed[i] - 1)]

NormalizeIndex(index, length) == IF index > length THEN length ELSE index

\* applyDeltaOperationWithIndex: out of its place, if it has one, and in at its index.
ApplyOperation(rows, op, q) ==
    LET at == FirstAt(rows, q, op.key)
        without == IF at = 0 THEN rows ELSE RemoveAt(rows, at)
    IN  IF op.type = "remove" THEN without
        ELSE InsertAt(without, NormalizeIndex(op.index, Len(without)) + 1, op.row)

ApplySequentially(rows, ops, q) == FoldLeft(LAMBDA acc, op : ApplyOperation(acc, op, q), rows, ops)

----------------------------------------------------------------------------
(* The treap: a node keeps its row, its priority and the size of its       *)
(* subtree; the left one has the smaller priority on top.                  *)

Leaf == <<>>
TreeSize(t) == IF t = Leaf THEN 0 ELSE t.size
Node(row, priority, left, right) ==
    [row |-> row, priority |-> priority, left |-> left, right |-> right, size |-> TreeSize(left) + TreeSize(right) + 1]

RECURSIVE MergeTrees(_, _)
MergeTrees(l, r) ==
    IF l = Leaf THEN r ELSE IF r = Leaf THEN l
    ELSE IF l.priority <= r.priority THEN Node(l.row, l.priority, l.left, MergeTrees(l.right, r))
    ELSE Node(r.row, r.priority, MergeTrees(l, r.left), r.right)

RECURSIVE SplitTree(_, _)
SplitTree(t, count) ==
    IF t = Leaf THEN <<Leaf, Leaf>>
    ELSE IF TreeSize(t.left) >= count
    THEN LET s == SplitTree(t.left, count) IN <<s[1], Node(t.row, t.priority, s[2], t.right)>>
    ELSE LET s == SplitTree(t.right, count - TreeSize(t.left) - 1) IN <<Node(t.row, t.priority, t.left, s[1]), s[2]>>

RECURSIVE FlattenTree(_)
FlattenTree(t) == IF t = Leaf THEN <<>> ELSE FlattenTree(t.left) \o <<t>> \o FlattenTree(t.right)

TreeRowsOf(t) == LET nodes == FlattenTree(t) IN [i \in DOMAIN nodes |-> nodes[i].row]

BuildDeltaTree(rows) ==
    FoldLeft(LAMBDA t, i : MergeTrees(t, Node(rows[i], Priority[i], Leaf, Leaf)), Leaf, [i \in DOMAIN rows |-> i])

TreeWithout(t, rank) ==
    LET s == SplitTree(t, rank) IN MergeTrees(s[1], SplitTree(s[2], 1)[2])
TreeWith(t, index, row, priority) ==
    LET s == SplitTree(t, index) IN MergeTrees(MergeTrees(s[1], Node(row, priority, Leaf, Leaf)), s[2])

\* s.next counts the priorities given out; a node that moves keeps its own.
ApplyToTree(s, op, q) ==
    LET at == FirstAt(TreeRowsOf(s.tree), q, op.key)
        without == IF at = 0 THEN s.tree ELSE TreeWithout(s.tree, at - 1)
        priority == IF at = 0 THEN Priority[s.next] ELSE FlattenTree(s.tree)[at].priority
    IN  IF op.type = "remove" THEN [s EXCEPT !.tree = without]
        ELSE [tree |-> TreeWith(without, NormalizeIndex(op.index, TreeSize(without)), op.row, priority),
              next |-> IF at = 0 THEN s.next + 1 ELSE s.next]

ApplyWithTree(rows, ops, q) ==
    TreeRowsOf(FoldLeft(LAMBDA s, op : ApplyToTree(s, op, q),
                        [tree |-> BuildDeltaTree(rows), next |-> Len(rows) + 2], ops).tree)

ApplyDeltaOperations(rows, ops, q) ==
    IF Len(rows) >= TreeRows /\ Len(ops) >= TreeOps
    THEN ApplyWithTree(rows, ops, q) ELSE ApplySequentially(rows, ops, q)
=============================================================================
