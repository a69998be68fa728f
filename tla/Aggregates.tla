----------------------------- MODULE Aggregates -----------------------------
(***************************************************************************)
(* Grouped queries: the evaluation over all rows (worker/query-engine.ts,  *)
(* aggregateRows in worker/aggregate-functions.ts) and the accumulator     *)
(* that follows mutations (worker/grouped-accumulator.ts).  Pure operators;*)
(* numbers add exactly, an average is kept as <<sum, count>>, a            *)
(* concatenation as the sequence of its parts.                             *)
(***************************************************************************)
EXTENDS RowQuery
LOCAL INSTANCE SequencesExt
LOCAL INSTANCE FiniteSetsExt

PresentValues(rows, field) ==
    LET all == [i \in DOMAIN rows |-> rows[i][field]] IN SelectSeq(all, LAMBDA v : ~Nullish(v))
SumOf(values) == FoldLeft(LAMBDA a, v : a + v, 0, values)
IsBetter(func, l, r) == IF func = "min" THEN CompareNonNull(l, r) < 0 ELSE CompareNonNull(l, r) > 0
BestOf(func, values) ==
    FoldLeft(LAMBDA a, v : IF a = Null \/ IsBetter(func, v, a) THEN v ELSE a, Null, values)

\* sort() by lower case is stable; "desc" reverses the ascending order.
SortedStrings(values, sort) ==
    LET s == SortSeq([i \in DOMAIN values |-> <<values[i], i>>],
                     LAMBDA l, r : LET c == CompareNonNull(l[1], r[1]) IN c < 0 \/ (c = 0 /\ l[2] < r[2]))
        up == [i \in DOMAIN s |-> s[i][1]]
    IN  CASE sort = Missing -> values [] sort = "asc" -> up [] OTHER -> Reverse(up)

DistinctValues(values) == FoldLeft(LAMBDA a, v : IF Contains(a, v) THEN a ELSE Append(a, v), <<>>, values)

AggregateRows(rows, aggregate) ==
    LET f == aggregate.aggFunc
        values == PresentValues(rows, aggregate.field) IN
    CASE f = "count" -> Len(rows)
      [] f = "count_distinct" -> Len(DistinctValues(values))
      [] f = "sum" -> IF values = <<>> THEN Null ELSE SumOf(values)
      [] f = "avg" -> IF values = <<>> THEN Null ELSE <<SumOf(values), Len(values)>>
      [] f \in {"min", "max"} -> BestOf(f, values)
      [] f = "string_concat" -> SortedStrings(values, aggregate.sort)
      [] f = "string_concat_distinct" ->
            SortedStrings(DistinctValues(values), IF aggregate.sort = Missing THEN "asc" ELSE aggregate.sort)

GroupKey(row, groupBy) == [i \in DOMAIN groupBy |-> MaterializeQueryValue(row[groupBy[i]])]

\* The keys in the order in which the rows first show them, as a Map keeps them.
GroupKeys(rows, groupBy) == DistinctValues([i \in DOMAIN rows |-> GroupKey(rows[i], groupBy)])

GroupRow(key, q, values) ==
    [f \in {q.groupBy[i] : i \in DOMAIN q.groupBy} \cup DOMAIN q.aggregates |->
        IF f \in DOMAIN q.aggregates THEN values[f]
        ELSE key[CHOOSE i \in DOMAIN q.groupBy : q.groupBy[i] = f]]

BuildGroups(rows, q) ==
    LET keys == GroupKeys(rows, q.groupBy)
        group(k) == SelectSeq(rows, LAMBDA r : GroupKey(r, q.groupBy) = k)
    IN  [i \in DOMAIN keys |-> GroupRow(keys[i], q, [a \in DOMAIN q.aggregates |-> AggregateRows(group(keys[i]), q.aggregates[a])])]

GroupedWindow(groups, q) ==
    [rows |-> SelectWindowRows(groups, GroupedQueryOrderBy(q), NormalizeOffset(q.offset), NormalizeLimit(q.limit)),
     totalRows |-> Len(groups)]

ExecuteGroupedQuery(rows, q) == GroupedWindow(BuildGroups(MatchingRows(rows, q), q), q)

ExecuteMemoryQuery(rows, q) == IF IsGrouped(q) THEN ExecuteGroupedQuery(rows, q) ELSE ExecuteRawQuery(rows, q)

----------------------------------------------------------------------------
(* The incremental states: a number, a sum with the count of its values,   *)
(* or the values seen (a Map in insertion order, with their counts) and    *)
(* the best of them.                                                       *)

IncrementalFunctions == {"count", "sum", "min", "max"}
IsIncrementalGroupedAccumulatorSupported(q) ==
    \A a \in DOMAIN q.aggregates : q.aggregates[a].aggFunc \in IncrementalFunctions

MakeAggregateState(aggregate) ==
    CASE aggregate.aggFunc = "count" -> [count |-> 0]
      [] aggregate.aggFunc = "sum" -> [count |-> 0, sum |-> 0]
      [] OTHER -> [values |-> <<>>, current |-> Null]

Counted(values, v) == CHOOSE i \in DOMAIN values : values[i].value = v
Sees(values, v) == \E i \in DOMAIN values : values[i].value = v

ExtremaAdd(func, s, v) ==
    [values |-> IF Sees(s.values, v)
                THEN [s.values EXCEPT ![Counted(s.values, v)].count = @ + 1]
                ELSE Append(s.values, [value |-> v, count |-> 1]),
     current |-> IF s.current = Null \/ IsBetter(func, v, s.current) THEN v ELSE s.current]

ExtremaRemove(func, s, v) ==
    IF ~Sees(s.values, v) THEN s
    ELSE LET i == Counted(s.values, v)
             left == IF s.values[i].count <= 1 THEN RemoveAt(s.values, i)
                     ELSE [s.values EXCEPT ![i].count = @ - 1]
         IN  [values |-> left,
              current |-> IF s.values[i].count <= 1 /\ s.current = v
                          THEN BestOf(func, [j \in DOMAIN left |-> left[j].value])
                          ELSE s.current]

AggregateAdd(aggregate, s, row) ==
    LET v == row[aggregate.field] f == aggregate.aggFunc IN
    CASE f = "count" -> [count |-> s.count + 1]
      [] f = "sum" -> IF Nullish(v) THEN s ELSE [count |-> s.count + 1, sum |-> s.sum + v]
      [] OTHER -> IF Nullish(v) THEN s ELSE ExtremaAdd(f, s, v)

AggregateRemove(aggregate, s, row) ==
    LET v == row[aggregate.field] f == aggregate.aggFunc
        less == IF s.count > 0 THEN s.count - 1 ELSE 0 IN
    CASE f = "count" -> [count |-> less]
      [] f = "sum" -> IF Nullish(v) THEN s ELSE [count |-> less, sum |-> s.sum - v]
      [] OTHER -> IF Nullish(v) THEN s ELSE ExtremaRemove(f, s, v)

AggregateValue(aggregate, s) ==
    CASE aggregate.aggFunc = "count" -> s.count
      [] aggregate.aggFunc = "sum" -> IF s.count = 0 THEN Null ELSE s.sum
      [] OTHER -> s.current

(* The accumulator: its groups in Map order, each with its key, the ids of *)
(* its rows and a state per aggregate.                                     *)
EmptyAccumulator == <<>>

AccumulatorAdd(acc, q, row, id) ==
    LET key == GroupKey(row, q.groupBy)
        fresh == [key |-> key, ids |-> {}, states |-> [a \in DOMAIN q.aggregates |-> MakeAggregateState(q.aggregates[a])]]
        groups == IF \E i \in DOMAIN acc : acc[i].key = key THEN acc ELSE Append(acc, fresh)
        i == CHOOSE j \in DOMAIN groups : groups[j].key = key
    IN  [groups EXCEPT ![i] =
            [@ EXCEPT !.ids = @ \cup {id},
                      !.states = [a \in DOMAIN @ |-> AggregateAdd(q.aggregates[a], @[a], row)]]]

\* rowGroupKeys: the group that holds the id, or the one its row names.
AccumulatorRemove(acc, q, row, id) ==
    LET holders == {i \in DOMAIN acc : id \in acc[i].ids}
        named == {i \in DOMAIN acc : acc[i].key = GroupKey(row, q.groupBy)}
        from == IF holders # {} THEN holders ELSE named
    IN  IF from = {} THEN acc
        ELSE LET i == CHOOSE j \in from : TRUE
                 left == [acc[i] EXCEPT !.ids = @ \ {id},
                              !.states = [a \in DOMAIN @ |-> AggregateRemove(q.aggregates[a], @[a], row)]]
             IN  IF left.ids = {} THEN RemoveAt(acc, i) ELSE [acc EXCEPT ![i] = left]

AccumulatorApply(acc, q, kind, id, before, after) ==
    LET without == IF kind = "insert" THEN acc ELSE AccumulatorRemove(acc, q, before, id)
    IN  IF kind = "delete" THEN without ELSE AccumulatorAdd(without, q, after, id)

GroupedRows(acc, q) ==
    [i \in DOMAIN acc |-> GroupRow(acc[i].key, q, [a \in DOMAIN q.aggregates |-> AggregateValue(q.aggregates[a], acc[i].states[a])])]

MakeAccumulator(rows, q) ==
    FoldLeft(LAMBDA acc, row : AccumulatorAdd(acc, q, row, row[IdField]), EmptyAccumulator, MatchingRows(rows, q))
=============================================================================
