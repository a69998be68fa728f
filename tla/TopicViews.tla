----------------------------- MODULE TopicViews -----------------------------
(***************************************************************************)
(* One topic under every way the server answers a query: the store's rows, *)
(* an active plan that follows them (worker/active-view.ts), a grouped     *)
(* accumulator that follows them (worker/grouped-accumulator-fanout.ts),   *)
(* the chDB mirror, and subscriptions whose visible rows the worker sends  *)
(* as operations and the client applies.  Gate, versions, queues and       *)
(* failures are the business of LiveQuery, ActivePlan, GroupedRefresh and  *)
(* SnapshotFence; here each mutation runs to its end, and what is checked  *)
(* is that the incremental ways come to what a fresh evaluation says.      *)
(***************************************************************************)
EXTENDS SortedIndex, VisibleRows, SqlMirror
LOCAL INSTANCE SequencesExt

CONSTANTS
    Ids,
    RowValues,          \* id -> the rows a publish or a patch may bring it, without the id
    PlanSubs, MemorySubs, GroupSubs,  \* subscriptions by what serves them
    PlanQuery,          \* the query whose filter and order the plan is built for
    Query,              \* subscription -> its query; PlanSubs share PlanQuery's filter and order
    BuildChunk,         \* buildChunkSize of the cooperative build
    AutoBuildMaxRows,   \* activePlanAutoBuildMaxRows
    MaxActivePlans,
    GroupedAccumulatorMaxRows

VARIABLES
    rows,       \* mutation store: the rows in their array
    plan,       \* NoPlan or [rowsById, blocks]: IncrementalRawPlan
    subs,       \* subscription -> NoSub or what the worker keeps of it (the rows it was
                \* sent, its accumulator, its view's ids and total), with its client's rows
    mirror      \* ChdbSqlMirror

vars == <<rows, plan, subs, mirror>>

Subs == PlanSubs \cup MemorySubs \cup GroupSubs
NoPlan == [rowsById |-> <<>>, blocks |-> <<>>, built |-> FALSE]
NoSub == <<>>
Opened == {s \in Subs : subs[s] # NoSub}

IdsOf(rs) == {rs[i][IdField] : i \in DOMAIN rs}
RowOf(rs, id) == rs[CHOOSE i \in DOMAIN rs : rs[i][IdField] = id]
WithId(value, id) == [f \in DOMAIN value \cup {IdField} |-> IF f = IdField THEN id ELSE value[f]]

----------------------------------------------------------------------------
(* The active plan. *)

PlanOrder == RawQueryOrderBy(PlanQuery)
PlanMatches(row) == Matches(row, PlanQuery.where)

BuildPlan(rs) ==
    LET matching == SelectSeq(rs, PlanMatches)
        rowsById == [id \in IdsOf(matching) |-> RowOf(matching, id)]
        ids == [i \in DOMAIN matching |-> matching[i][IdField]]
    IN  [rowsById |-> rowsById, built |-> TRUE,
         blocks |-> IndexFromSortedIds(CooperativeSortIds(ids, BuildChunk, rowsById, PlanOrder))]

Holds(p, id) == id \in DOMAIN p.rowsById
Put(f, id, row) == [x \in DOMAIN f \cup {id} |-> IF x = id THEN row ELSE f[x]]
Drop(f, id) == [x \in DOMAIN f \ {id} |-> f[x]]

PlanAdd(p, row) ==
    IF ~PlanMatches(row) THEN p
    ELSE LET rowsById == Put(p.rowsById, row[IdField], row)
         IN  [p EXCEPT !.rowsById = rowsById,
                       !.blocks = IndexInsert(@, rowsById, PlanOrder, row[IdField])]
PlanRemove(p, id) ==
    IF ~Holds(p, id) THEN p
    ELSE [p EXCEPT !.blocks = IndexRemove(@, p.rowsById, PlanOrder, id), !.rowsById = Drop(@, id)]

\* a seeded fault: a row whose order key changed keeps its place
PlanUpdateInPlace(p, mutation) ==
    IF ~Holds(p, mutation.id) THEN PlanAdd(p, mutation.after)
    ELSE IF ~PlanMatches(mutation.after) THEN PlanRemove(p, mutation.id)
    ELSE [p EXCEPT !.rowsById[mutation.id] = mutation.after]

\* updateMutation: in place only when the order does not tell the rows apart.
PlanUpdate(p, mutation) ==
    IF ~Holds(p, mutation.id) THEN PlanAdd(p, mutation.after)
    ELSE IF ~PlanMatches(mutation.after) THEN PlanRemove(p, mutation.id)
    ELSE IF CompareRowsForOrder(p.rowsById[mutation.id], mutation.after, PlanOrder) = 0
    THEN [p EXCEPT !.rowsById[mutation.id] = mutation.after]
    ELSE PlanAdd(PlanRemove(p, mutation.id), mutation.after)

PlanApply(p, mutation) ==
    IF ~p.built THEN p
    ELSE CASE mutation.kind = "insert" -> PlanAdd(p, mutation.after)
           [] mutation.kind = "update" -> PlanUpdate(p, mutation)
           [] mutation.kind = "delete" -> PlanRemove(p, mutation.id)

VisibleIds(p, q) == IndexSlice(p.blocks, NormalizeOffset(q.offset), NormalizeLimit(q.limit))
PlanSnapshot(p, q) ==
    LET ids == VisibleIds(p, q)
    IN  [rows |-> [i \in DOMAIN ids |-> ProjectRow(p.rowsById[ids[i]], q.fields)],
         totalRows |-> IndexSize(p.blocks)]

----------------------------------------------------------------------------
(* A subscription's next rows: Unchanged, or what it shows from now on.    *)
Unchanged == [rows |-> Missing, totalRows |-> Missing]

\* a seeded fault: any visible update of a field that is not projected counts as none
VisibleProjectionChangedNever(q, mutation, visible) == FALSE

VisibleProjectionChanged(q, mutation, visible) ==
    /\ mutation.kind = "update"
    /\ ProjectedFieldsMayHaveChanged(q.fields, mutation.changed)
    /\ \E i \in DOMAIN visible : visible[i] = mutation.id
    /\ ~ProjectedRowsEqual(ProjectRow(mutation.before, q.fields), ProjectRow(mutation.after, q.fields))

\* PlanBackedActiveRawView.applyMutation over the plan p that already has the mutation.
ViewChange(p, q, sub, mutation) ==
    LET visible == VisibleIds(p, q)
        total == IndexSize(p.blocks) IN
    IF visible # sub.visibleIds \/ VisibleProjectionChanged(q, mutation, visible)
    THEN PlanSnapshot(p, q)
    ELSE IF total # sub.totalRows THEN [rows |-> Missing, totalRows |-> total] ELSE Unchanged

\* materializeGroupedAccumulatorChange: the accumulator sees the mutation as the filter does.
AccumulatorNext(a, q, mutation) ==
    LET before == mutation.kind # "insert" /\ Matches(mutation.before, q.where)
        after == mutation.kind # "delete" /\ Matches(mutation.after, q.where)
        kind == CASE before /\ after -> mutation.kind [] before /\ ~after -> "delete" [] OTHER -> "insert"
    IN  IF ~before /\ ~after THEN a
        ELSE AccumulatorApply(a, q, kind, mutation.id, mutation.before, mutation.after)

DependencyFields == [s \in Subs |-> CollectDependencyFields(Query[s])]
Skips(s, mutation) == mutation.kind = "update" /\ DependencyFields[s] \cap mutation.changed = {}

\* The rows and total a raw subscription shows after the mutation: the store has the
\* rows rs, the plan is p.
NextResult(s, rs, p, mutation) ==
    IF s \in PlanSubs THEN ViewChange(p, Query[s], subs[s], mutation) ELSE ExecuteMemoryQuery(rs, Query[s])

\* a seeded fault: a row that leaves the filter is still counted
PendingTotalRowsGrows(previous, q, mutation) ==
    LET before == mutation.before # Missing /\ Matches(mutation.before, q.where)
        after == mutation.after # Missing /\ Matches(mutation.after, q.where)
    IN  IF after /\ ~before THEN previous + 1 ELSE previous

\* pendingActivePlanTotalRows: the total a stale status carries is counted on, not queried.
PendingTotalRows(previous, q, mutation) ==
    LET before == mutation.before # Missing /\ Matches(mutation.before, q.where)
        after == mutation.after # Missing /\ Matches(mutation.after, q.where)
    IN  CASE before = after -> previous [] after /\ ~before -> previous + 1 [] OTHER -> previous - 1

\* applyDelta on both sides: the delta goes from the rows shown to those of the result.
Moved(sub, q, result) ==
    LET shown == IF result.rows = Missing THEN sub.lastRows ELSE result.rows
        total == IF result.totalRows = Missing THEN sub.lastTotal ELSE result.totalRows
        ops == DiffVisibleRows(sub.lastRows, shown, q)
    IN  [sub EXCEPT !.lastRows = shown, !.lastTotal = total,
                    !.client = [rows |-> ApplyDeltaOperations(sub.client.rows, ops, q), totalRows |-> total]]

\* fanoutGroupedAccumulatorSubscription: the accumulator follows, its window is sent.
GroupedFanout(s, mutation) ==
    LET a == AccumulatorNext(subs[s].acc, Query[s], mutation)
    IN  [Moved(subs[s], Query[s], GroupedWindow(GroupedRows(a, Query[s]), Query[s])) EXCEPT !.acc = a]

\* The fan-out to a raw subscription: its view, if any, notes the ids it shows.
RawFanout(s, rs, p, mutation) ==
    [Moved(subs[s], Query[s], NextResult(s, rs, p, mutation)) EXCEPT
        !.pendingTotal = PendingTotalRows(@, Query[s], mutation),
        !.visibleIds = IF s \in PlanSubs THEN VisibleIds(p, Query[s]) ELSE <<>>,
        !.totalRows = IF s \in PlanSubs THEN IndexSize(p.blocks) ELSE 0]

AfterMutation(s, rs, p, mutation) ==
    IF subs[s] = NoSub \/ Skips(s, mutation) THEN subs[s]
    ELSE IF s \in GroupSubs THEN GroupedFanout(s, mutation)
    ELSE RawFanout(s, rs, p, mutation)

\* planQuery for a subscription to a topic of rowCount rows, with a backend that can
\* refresh grouped queries.
Strategy(q, rowCount) ==
    CASE IsGrouped(q) /\ rowCount <= GroupedAccumulatorMaxRows /\ GroupedAccumulatorMaxRows > 0
              /\ IsIncrementalGroupedAccumulatorSupported(q) -> "grouped_incremental_accumulator_eligible"
      [] ~IsGrouped(q) /\ rowCount <= AutoBuildMaxRows /\ MaxActivePlans # 0 -> "raw_active_plan_eligible"
      [] ~IsGrouped(q) /\ (rowCount > AutoBuildMaxRows \/ MaxActivePlans = 0) -> "raw_active_plan_skipped"
      [] OTHER -> "grouped_chdb_refresh"

----------------------------------------------------------------------------
Init ==
    /\ rows = <<>>
    /\ plan = NoPlan
    /\ subs = [s \in Subs |-> NoSub]
    /\ mirror = EmptyMirror

\* prepareGroupedAccumulator: of the rows that the filter lets through.
PreparedAccumulator(s) ==
    IF s \in GroupSubs /\ Strategy(Query[s], Len(rows)) = "grouped_incremental_accumulator_eligible"
    THEN MakeAccumulator(rows, Query[s]) ELSE EmptyAccumulator

\* subscribe: the first snapshot comes from memory; the plan is built when its first
\* subscription opens, the accumulator with its subscription.  What the planner sends
\* to a refresh is the business of GroupedRefresh, and a skipped plan of ActivePlan.
Open(s) ==
    LET result == ExecuteMemoryQuery(rows, Query[s])
        p == IF s \in PlanSubs /\ ~plan.built THEN BuildPlan(rows) ELSE plan
    IN  /\ s \in GroupSubs => Strategy(Query[s], Len(rows)) = "grouped_incremental_accumulator_eligible"
        /\ s \in PlanSubs /\ ~plan.built => Strategy(Query[s], Len(rows)) = "raw_active_plan_eligible"
        /\ plan' = p
        /\ subs' = [subs EXCEPT ![s] =
                [lastRows |-> result.rows, lastTotal |-> result.totalRows,
                 acc |-> PreparedAccumulator(s), pendingTotal |-> IF s \in GroupSubs THEN 0 ELSE result.totalRows,
                 visibleIds |-> IF s \in PlanSubs THEN VisibleIds(p, Query[s]) ELSE <<>>,
                 totalRows |-> IF s \in PlanSubs THEN IndexSize(p.blocks) ELSE 0,
                 client |-> result]]
        /\ UNCHANGED <<rows, mirror>>

\* The plan goes with its last subscription.
Close(s) ==
    /\ subs' = [subs EXCEPT ![s] = NoSub]
    /\ plan' = IF \E x \in PlanSubs \ {s} : subs[x] # NoSub THEN plan ELSE NoPlan
    /\ UNCHANGED <<rows, mirror>>

Entry(kind, id, before, after) ==
    [kind |-> kind, id |-> id, before |-> before, after |-> after,
     changed |-> IF kind = "update" THEN ChangedFields(before, after) ELSE {}]

\* What an operation makes of the store: its rows, and the mutation that is logged.
Publish(id, value) ==
    LET row == WithId(value, id)
        at == CHOOSE i \in DOMAIN rows : rows[i][IdField] = id IN
    IF id \in IdsOf(rows)
    THEN [rows |-> [rows EXCEPT ![at] = row], mutation |-> Entry("update", id, rows[at], row)]
    ELSE [rows |-> Append(rows, row), mutation |-> Entry("insert", id, Missing, row)]

\* deleteById moves the last row into the place of the deleted one.
Delete(id) ==
    LET at == CHOOSE i \in DOMAIN rows : rows[i][IdField] = id IN
    [rows |-> [i \in 1..(Len(rows) - 1) |-> IF i = at THEN rows[Len(rows)] ELSE rows[i]],
     mutation |-> Entry("delete", id, rows[at], Missing)]

Changes ==
    UNION {{Publish(id, value) : value \in RowValues[id]} : id \in Ids} \cup {Delete(id) : id \in IdsOf(rows)}

\* One operation to its end: the store has its rows, the plan takes the mutation, then
\* every open subscription whose query depends on it, and the mirror.
Mutate ==
    \E change \in Changes :
        LET p == PlanApply(plan, change.mutation) IN
        /\ rows' = change.rows
        /\ plan' = p
        /\ subs' = [s \in Subs |-> AfterMutation(s, change.rows, p, change.mutation)]
        /\ mirror' = MirrorApply(mirror, change.mutation)

\* A restart hands the child the rows the store holds now.
RestartMirror ==
    /\ mirror' = MirrorInit(rows)
    /\ UNCHANGED <<rows, plan, subs>>

Next ==
    \/ \E s \in Subs \ Opened : Open(s)
    \/ \E s \in Opened : Close(s)
    \/ Mutate
    \/ RestartMirror

Spec == Init /\ [][Next]_vars

----------------------------------------------------------------------------
(* Rows, plan, accumulators and mirror are well formed and the index of    *)
(* the plan holds as many ids as its map, each block within its limits.    *)
TypeOK ==
    /\ \A i, j \in DOMAIN rows : rows[i][IdField] = rows[j][IdField] => i = j
    /\ \A i \in DOMAIN rows : rows[i][IdField] \in Ids
    /\ plan.built <=> PlanSubs \cap Opened # {}
    /\ IndexSize(plan.blocks) = Cardinality(DOMAIN plan.rowsById)
    /\ \A b \in DOMAIN plan.blocks : Len(plan.blocks[b]) \in 1..MaxBlockSize
    /\ DOMAIN mirror.live \subseteq Ids
    /\ \A s \in Opened : Len(subs[s].client.rows) <= DefaultLimit

(* The plan, however it came about, answers every window as a fresh        *)
(* evaluation over the store does (IncrementalRawPlan.snapshot against     *)
(* executeRawQuery).                                                       *)
ViewsMatchEngine ==
    plan.built => \A s \in PlanSubs : PlanSnapshot(plan, Query[s]) = ExecuteRawQuery(rows, Query[s])

(* What a client shows after any number of deltas is what its query gives  *)
(* now: no skipped mutation, no view that took a change for none and no    *)
(* operation applied out of place (fanoutUntraced, diffVisibleRows and     *)
(* applyDeltaOperations together).                                         *)
ClientsCurrent == \A s \in Opened : subs[s].client = ExecuteMemoryQuery(rows, Query[s])

(* The worker's record of what a subscription shows is what its client     *)
(* shows: the next delta starts from the rows it will be applied to.       *)
SidesAgree == \A s \in Opened : subs[s].client = [rows |-> subs[s].lastRows, totalRows |-> subs[s].lastTotal]

(* The total that a stale status would carry, counted from the first       *)
(* snapshot on over the mutations that concern the query, is the number of *)
(* rows that match by now.                                                 *)
PendingTotalsExact ==
    \A s \in Opened \ GroupSubs : subs[s].pendingTotal = Len(MatchingRows(rows, Query[s]))

(* The next four say something of the rows and the mirror alone, which take *)
(* the same values with subscriptions open or not: they are evaluated where*)
(* none is.                                                                *)
Idle == Opened = {}

(* The windowing algorithms choose the same rows in the same order: a list *)
(* of the best, a heap, a full sort.                                       *)
WindowsAgree ==
    Idle => \A s \in PlanSubs \cup MemorySubs : \A offset, limit \in 0..2 :
        LET matching == MatchingRows(rows, Query[s])
            orderBy == RawQueryOrderBy(Query[s])
            sorted == WindowBySort(matching, orderBy, offset, limit)
        IN  /\ WindowBySplice(matching, orderBy, offset, limit) = sorted
            /\ WindowByHeap(matching, orderBy, offset, limit) = sorted

(* The client's two ways of applying a difference come to the new rows, for*)
(* any rows shown before: the list of operations and the treap.            *)
ApplyWaysAgree ==
    Idle => \A s \in MemorySubs : \A before \in {SubSeq(Reverse(rows), i, j) : i, j \in 1..Len(rows)} :
        LET shown == [i \in DOMAIN before |-> ProjectRow(before[i], Query[s].fields)]
            next == ExecuteRawQuery(rows, Query[s]).rows
            ops == DiffVisibleRows(shown, next, Query[s])
        IN  ApplySequentially(shown, ops, Query[s]) = next /\ ApplyWithTree(shown, ops, Query[s]) = next

(* Whichever way the code takes, it comes to the same. *)
PathsAgree == TypeOK /\ SidesAgree /\ PendingTotalsExact /\ WindowsAgree /\ ApplyWaysAgree

(* chDB answers a raw query as memory does, whatever rows went through the *)
(* mirror and whenever it was restarted.                                   *)
RawParity ==
    Idle => \A s \in PlanSubs \cup MemorySubs :
        \A answer \in SqlRawAnswers(mirror, Query[s]) : answer = ExecuteRawQuery(rows, Query[s])

(* Before their window, chDB's groups are memory's groups. *)
GroupParity ==
    Idle /\ mirror.ready => \A s \in GroupSubs :
        LET groups == BuildGroups(MatchingRows(rows, Query[s]), Query[s])
        IN  SqlGroups(mirror, Query[s]) = {groups[i] : i \in DOMAIN groups}

(* The rows and the groups of chDB are those of memory. *)
SqlAgrees == RawParity /\ GroupParity

(* QUERY_SEMANTICS_CONTRACT: grouped queries append their groupBy fields as*)
(* ascending tiebreaks, so memory and chDB show the same window.           *)
GroupedWindowParity ==
    \A s \in GroupSubs :
        \A answer \in SqlGroupedAnswers(mirror, Query[s]) : answer = ExecuteGroupedQuery(rows, Query[s])
=============================================================================
