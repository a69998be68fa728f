------------------------------ MODULE RowQuery ------------------------------
(***************************************************************************)
(* The query contract of the server (protocol/query-semantics.ts) and its  *)
(* evaluation over rows in memory (worker/query-engine.ts,                 *)
(* worker/projection.ts).  Pure operators, no state.                       *)
(*                                                                         *)
(* A row is a record; one of its fields is IdField.  Values are numbers of *)
(* which Fold gives the lower-case form: strings that differ in case only  *)
(* share it, everything else is its own.  Null is the JavaScript null,     *)
(* Missing an absent field or argument.                                    *)
(***************************************************************************)
EXTENDS Integers, Sequences, FiniteSets, TLC
LOCAL INSTANCE SequencesExt

CONSTANTS
    Null, Missing,      \* null, and a field or an argument that is not there
    IdField,            \* the topic's id field
    Fold,               \* value -> its lower-case form, which sorts and filters compare
    Text,               \* {<<"contains", needle, v>>, <<"starts_with", needle, v>>, ...} that hold
    LiteralFields,      \* fields whose schema is a literal string: compared with case
    DefaultLimit,       \* DEFAULT_QUERY_LIMIT, also the largest limit
    SpliceLimit,        \* RAW_QUERY_WINDOW_SPLICE_LIMIT
    HeapLimit           \* RAW_QUERY_WINDOW_OPTIMIZATION_LIMIT

Nullish(v) == v \in {Null, Missing}
MaterializeQueryValue(v) == IF v = Missing THEN Null ELSE v

ValuesEqual(l, r, strict) ==
    \/ Nullish(l) /\ Nullish(r)
    \/ /\ ~Nullish(l) /\ ~Nullish(r)
       /\ IF strict THEN l = r ELSE Fold[l] = Fold[r]

CompareNonNull(l, r) ==
    IF Fold[l] = Fold[r] THEN 0 ELSE IF Fold[l] < Fold[r] THEN -1 ELSE 1

CompareValues(l, r) ==
    CASE Nullish(l) /\ Nullish(r) -> 0
      [] Nullish(l) /\ ~Nullish(r) -> -1
      [] ~Nullish(l) /\ Nullish(r) -> 1
      [] OTHER -> CompareNonNull(l, r)

\* The first order-by entry that tells the rows apart decides.
RECURSIVE CompareRowsForOrder(_, _, _)
CompareRowsForOrder(l, r, orderBy) ==
    IF orderBy = <<>> THEN 0
    ELSE LET c == CompareValues(l[Head(orderBy).field], r[Head(orderBy).field])
         IN  IF c # 0 THEN IF Head(orderBy).direction = "asc" THEN c ELSE -c
             ELSE CompareRowsForOrder(l, r, Tail(orderBy))

IsGrouped(q) == "groupBy" \in DOMAIN q
Ascending(f) == [field |-> f, direction |-> "asc"]
Orders(orderBy, f) == \E i \in DOMAIN orderBy : orderBy[i].field = f

RawQueryOrderBy(q) ==
    q.orderBy \o IF Orders(q.orderBy, IdField) THEN <<>> ELSE <<Ascending(IdField)>>

GroupedQueryOrderBy(q) ==
    LET rest == SelectSeq(q.groupBy, LAMBDA f : ~Orders(q.orderBy, f))
    IN  q.orderBy \o [i \in DOMAIN rest |-> Ascending(rest[i])]

NormalizeLimit(limit) ==
    IF limit = Missing THEN DefaultLimit
    ELSE IF limit < 0 THEN 0 ELSE IF limit > DefaultLimit THEN DefaultLimit ELSE limit
NormalizeOffset(offset) == IF offset = Missing \/ offset < 0 THEN 0 ELSE offset

----------------------------------------------------------------------------
(* Filters: a leaf [field, comparator, value] or [op, conditions]. *)

CompareFilter(v, comparator, value) ==
    /\ ~Nullish(v) /\ ~Nullish(value)
    /\ LET c == CompareNonNull(v, value) IN
       CASE comparator = "greater_than" -> c > 0
         [] comparator = "greater_than_or_equal" -> c >= 0
         [] comparator = "less_than" -> c < 0
         [] comparator = "less_than_or_equal" -> c <= 0

MatchesLeaf(row, f) ==
    LET v == row[f.field]
        strict == f.field \in LiteralFields IN
    CASE f.comparator = "equals" -> ValuesEqual(v, f.value, strict)
      [] f.comparator = "not_equals" -> ~ValuesEqual(v, f.value, strict)
      [] f.comparator \in {"contains", "starts_with"} -> <<f.comparator, f.value, v>> \in Text
      [] f.comparator = "one_of" -> \E x \in f.value : ValuesEqual(v, x, strict)
      [] OTHER -> CompareFilter(v, f.comparator, f.value)

RECURSIVE Matches(_, _)
Matches(row, f) ==
    CASE f = Missing -> TRUE
      [] f # Missing /\ "op" \notin DOMAIN f -> MatchesLeaf(row, f)
      [] f # Missing /\ "op" \in DOMAIN f /\ f.op = "and" ->
            \A i \in DOMAIN f.conditions : Matches(row, f.conditions[i])
      [] OTHER -> \E i \in DOMAIN f.conditions : Matches(row, f.conditions[i])

RECURSIVE FilterFields(_)
FilterFields(f) ==
    IF f = Missing THEN {}
    ELSE IF "op" \in DOMAIN f THEN UNION {FilterFields(f.conditions[i]) : i \in DOMAIN f.conditions}
    ELSE {f.field}

CollectDependencyFields(q) ==
    {IdField} \cup FilterFields(q.where) \cup {q.orderBy[i].field : i \in DOMAIN q.orderBy}
    \cup IF IsGrouped(q)
         THEN {q.groupBy[i] : i \in DOMAIN q.groupBy}
              \cup {q.aggregates[a].field : a \in DOMAIN q.aggregates}
         ELSE q.fields

\* Fields whose value is another one (Object.is).
ChangedFields(before, after) == {f \in DOMAIN after : before[f] # after[f]}

----------------------------------------------------------------------------
(* Projection. *)

ProjectRow(row, fields) ==
    [f \in fields \cup {IdField} |-> IF f \in fields THEN MaterializeQueryValue(row[f]) ELSE row[f]]

ProjectedRowsEqual(l, r) ==
    /\ DOMAIN l = DOMAIN r
    /\ \A f \in DOMAIN l : ValuesEqual(l[f], r[f], TRUE)

ProjectedFieldsMayHaveChanged(fields, changed) == (fields \cup {IdField}) \cap changed # {}

----------------------------------------------------------------------------
(* The window of the sorted matching rows, three ways: a sorted list of    *)
(* the best so far, a heap with the worst of them on top, a full sort.     *)

CompareSortEntries(l, r, orderBy) ==
    LET c == CompareRowsForOrder(l.row, r.row, orderBy)
    IN  IF c # 0 THEN c ELSE l.index - r.index

RECURSIVE SortEntryInsertionIndex(_, _, _, _, _)
SortEntryInsertionIndex(entries, e, orderBy, low, high) ==
    IF low >= high THEN low
    ELSE LET middle == (low + high) \div 2 IN
         IF CompareSortEntries(e, entries[middle + 1], orderBy) < 0
         THEN SortEntryInsertionIndex(entries, e, orderBy, low, middle)
         ELSE SortEntryInsertionIndex(entries, e, orderBy, middle + 1, high)

InsertTopSortEntry(entries, e, orderBy, limit) ==
    IF Len(entries) >= limit /\ CompareSortEntries(e, entries[Len(entries)], orderBy) >= 0
    THEN entries
    ELSE LET at == SortEntryInsertionIndex(entries, e, orderBy, 0, Len(entries))
             longer == InsertAt(entries, at + 1, e)
         IN  IF Len(longer) > limit THEN Front(longer) ELSE longer

Swap(s, i, j) == [s EXCEPT ![i] = s[j], ![j] = s[i]]

RECURSIVE SiftUp(_, _, _)
SiftUp(heap, i, orderBy) ==
    LET parent == i \div 2 IN
    IF i <= 1 \/ CompareSortEntries(heap[parent], heap[i], orderBy) >= 0 THEN heap
    ELSE SiftUp(Swap(heap, parent, i), parent, orderBy)

RECURSIVE SiftDown(_, _, _)
SiftDown(heap, i, orderBy) ==
    LET left == 2 * i
        worse(a, b) == CompareSortEntries(heap[a], heap[b], orderBy) > 0
        first == IF left <= Len(heap) /\ worse(left, i) THEN left ELSE i
        worst == IF left + 1 <= Len(heap) /\ worse(left + 1, first) THEN left + 1 ELSE first
    IN  IF worst = i THEN heap ELSE SiftDown(Swap(heap, i, worst), worst, orderBy)

OfferTopSortEntry(heap, e, orderBy, limit) ==
    IF Len(heap) < limit THEN SiftUp(Append(heap, e), Len(heap) + 1, orderBy)
    ELSE IF CompareSortEntries(e, heap[1], orderBy) >= 0 THEN heap
    ELSE SiftDown([heap EXCEPT ![1] = e], 1, orderBy)

Entries(rows) == [i \in DOMAIN rows |-> [row |-> rows[i], index |-> i]]
SortEntries(entries, orderBy) ==
    SortSeq(entries, LAMBDA l, r : CompareSortEntries(l, r, orderBy) < 0)
Window(entries, offset, limit) ==
    LET cut == SubSeq(entries, offset + 1, IF offset + limit < Len(entries) THEN offset + limit ELSE Len(entries))
    IN  [i \in DOMAIN cut |-> cut[i].row]

RECURSIVE TopEntries(_, _, _)
TopEntries(entries, orderBy, limit) ==
    IF entries = <<>> THEN <<>>
    ELSE InsertTopSortEntry(TopEntries(Front(entries), orderBy, limit), Last(entries), orderBy, limit)
RECURSIVE TopHeap(_, _, _)
TopHeap(entries, orderBy, limit) ==
    IF entries = <<>> THEN <<>>
    ELSE OfferTopSortEntry(TopHeap(Front(entries), orderBy, limit), Last(entries), orderBy, limit)

WindowBySplice(rows, orderBy, offset, limit) ==
    IF offset + limit = 0 THEN <<>>
    ELSE Window(TopEntries(Entries(rows), orderBy, offset + limit), offset, limit)
WindowByHeap(rows, orderBy, offset, limit) ==
    IF offset + limit = 0 THEN <<>>
    ELSE Window(SortEntries(TopHeap(Entries(rows), orderBy, offset + limit), orderBy), offset, limit)
WindowBySort(rows, orderBy, offset, limit) == Window(SortEntries(Entries(rows), orderBy), offset, limit)

SelectWindowRows(rows, orderBy, offset, limit) ==
    CASE offset + limit <= SpliceLimit -> WindowBySplice(rows, orderBy, offset, limit)
      [] offset + limit > SpliceLimit /\ offset + limit <= HeapLimit ->
            WindowByHeap(rows, orderBy, offset, limit)
      [] OTHER -> WindowBySort(rows, orderBy, offset, limit)

MatchingRows(rows, q) == SelectSeq(rows, LAMBDA row : Matches(row, q.where))

ExecuteRawQuery(rows, q) ==
    LET matching == MatchingRows(rows, q)
        window == SelectWindowRows(matching, RawQueryOrderBy(q),
                                   NormalizeOffset(q.offset), NormalizeLimit(q.limit))
    IN  [rows |-> [i \in DOMAIN window |-> ProjectRow(window[i], q.fields)], totalRows |-> Len(matching)]
=============================================================================
