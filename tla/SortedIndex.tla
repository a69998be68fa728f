----------------------------- MODULE SortedIndex -----------------------------
(***************************************************************************)
(* The block-sorted index of an active plan (worker/active-sorted-index.ts,*)
(* kind "blocks"): a sequence of blocks, each a sorted sequence of row ids,*)
(* split when too long and merged with a neighbour when too short.  Ids    *)
(* are compared through the rows they stand for.  Pure operators.          *)
(***************************************************************************)
EXTENDS RowQuery
LOCAL INSTANCE SequencesExt

CONSTANT
    BlockSize           \* targetBlockSize; the code takes at least 32

MinBlockSize == BlockSize \div 2
MaxBlockSize == BlockSize * 2

CompareIds(rowsById, orderBy, l, r) == CompareRowsForOrder(rowsById[l], rowsById[r], orderBy)

IndexIds(blocks) == FlattenSeq(blocks)
IndexSize(blocks) == Len(IndexIds(blocks))

RECURSIVE Chunks(_, _)
Chunks(ids, size) ==
    IF Len(ids) <= size THEN IF ids = <<>> THEN <<>> ELSE <<ids>>
    ELSE <<SubSeq(ids, 1, size)>> \o Chunks(SubSeq(ids, size + 1, Len(ids)), size)

(* The cooperative build sorts chunks of the ids and merges them pairwise. *)
RECURSIVE MergeSortedIds(_, _, _, _)
MergeSortedIds(l, r, rowsById, orderBy) ==
    IF l = <<>> THEN r ELSE IF r = <<>> THEN l
    ELSE IF CompareIds(rowsById, orderBy, Head(l), Head(r)) <= 0
    THEN <<Head(l)>> \o MergeSortedIds(Tail(l), r, rowsById, orderBy)
    ELSE <<Head(r)>> \o MergeSortedIds(l, Tail(r), rowsById, orderBy)

RECURSIVE MergeChunks(_, _, _)
MergeChunks(chunks, rowsById, orderBy) ==
    IF Len(chunks) <= 1 THEN FlattenSeq(chunks)
    ELSE MergeChunks([i \in 1..((Len(chunks) + 1) \div 2) |->
             IF 2 * i > Len(chunks) THEN chunks[2 * i - 1]
             ELSE MergeSortedIds(chunks[2 * i - 1], chunks[2 * i], rowsById, orderBy)], rowsById, orderBy)

\* Array.prototype.sort is stable: ids that compare equal stay in their order.
SortIds(ids, rowsById, orderBy) ==
    LET s == SortEntries([i \in DOMAIN ids |-> [row |-> rowsById[ids[i]], index |-> i]], orderBy)
    IN  [i \in DOMAIN s |-> ids[s[i].index]]

CooperativeSortIds(ids, chunkSize, rowsById, orderBy) ==
    LET chunks == Chunks(ids, chunkSize)
    IN  MergeChunks([i \in DOMAIN chunks |-> SortIds(chunks[i], rowsById, orderBy)], rowsById, orderBy)

IndexFromSortedIds(ids) == Chunks(ids, BlockSize)

----------------------------------------------------------------------------
RECURSIVE SearchFirst(_, _, _)
SearchFirst(below, low, high) ==   \* the binary search for the first position that is not below
    IF low >= high THEN low
    ELSE LET middle == (low + high) \div 2 IN
         IF below[middle] THEN SearchFirst(below, middle + 1, high) ELSE SearchFirst(below, low, middle)

FirstNotBelow(below) == SearchFirst(below, 1, Len(below) + 1)

SplitIfNeeded(blocks, b) ==
    IF Len(blocks[b]) <= MaxBlockSize THEN blocks
    ELSE LET middle == Len(blocks[b]) \div 2 IN
         SubSeq(blocks, 1, b - 1)
         \o <<SubSeq(blocks[b], 1, middle), SubSeq(blocks[b], middle + 1, Len(blocks[b]))>>
         \o SubSeq(blocks, b + 1, Len(blocks))

\* BlockSortedIndex.insert: the block whose last id is greater, or the last block.
IndexInsert(blocks, rowsById, orderBy, id) ==
    IF blocks = <<>> THEN <<<<id>>>>
    ELSE LET first == FirstNotBelow([i \in DOMAIN blocks |->
                          CompareIds(rowsById, orderBy, Last(blocks[i]), id) <= 0])
             b == IF first > Len(blocks) THEN Len(blocks) ELSE first
             at == FirstNotBelow([i \in DOMAIN blocks[b] |->
                       CompareIds(rowsById, orderBy, blocks[b][i], id) <= 0])
         IN  SplitIfNeeded([blocks EXCEPT ![b] = InsertAt(blocks[b], at, id)], b)

CompactIfNeeded(blocks, b) ==
    LET n == Len(blocks)
        joined(l) == SubSeq(blocks, 1, l - 1) \o <<blocks[l] \o blocks[l + 1]>> \o SubSeq(blocks, l + 2, n)
        fits(l) == l >= 1 /\ l + 1 <= n /\ Len(blocks[l]) + Len(blocks[l + 1]) <= MaxBlockSize
    IN  IF blocks[b] = <<>> THEN RemoveAt(blocks, b)
        ELSE IF Len(blocks[b]) >= MinBlockSize THEN blocks
        ELSE IF fits(b) THEN joined(b)
        ELSE IF fits(b - 1) THEN joined(b - 1)
        ELSE blocks

\* locationOf: from the first block whose last id is not smaller, through the
\* blocks whose first id is not greater, to the one that holds this very id.
LocationOf(blocks, rowsById, orderBy, id) ==
    LET C(x) == CompareIds(rowsById, orderBy, x, id)
        from == FirstNotBelow([i \in DOMAIN blocks |-> C(Last(blocks[i])) < 0])
        reach == {b \in from..Len(blocks) : \A j \in from..b : C(blocks[j][1]) <= 0}
    IN  UNION {{<<b, i>> : i \in {j \in DOMAIN blocks[b] : C(blocks[b][j]) = 0 /\ blocks[b][j] = id}} : b \in reach}

IndexRemove(blocks, rowsById, orderBy, id) ==
    LET held == LocationOf(blocks, rowsById, orderBy, id) IN
    IF held = {} THEN blocks
    ELSE LET at == CHOOSE p \in held : \A o \in held : p[1] < o[1] \/ (p[1] = o[1] /\ p[2] <= o[2])
         IN  CompactIfNeeded([blocks EXCEPT ![at[1]] = RemoveAt(blocks[at[1]], at[2])], at[1])

\* BlockSortedIndex.slice walks the blocks, skipping whole ones.
RECURSIVE SliceFrom(_, _, _)
SliceFrom(blocks, skipped, limit) ==
    IF blocks = <<>> \/ limit <= 0 THEN <<>>
    ELSE IF skipped >= Len(Head(blocks)) THEN SliceFrom(Tail(blocks), skipped - Len(Head(blocks)), limit)
    ELSE LET stop == IF skipped + limit < Len(Head(blocks)) THEN skipped + limit ELSE Len(Head(blocks))
             part == SubSeq(Head(blocks), skipped + 1, stop)
         IN  part \o SliceFrom(Tail(blocks), 0, limit - Len(part))

IndexSlice(blocks, offset, limit) ==
    IF limit <= 0 \/ offset >= IndexSize(blocks) THEN <<>> ELSE SliceFrom(blocks, offset, limit)
=============================================================================
