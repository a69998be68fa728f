------------------------------ MODULE SqlMirror ------------------------------
(***************************************************************************)
(* The table the chDB child keeps (snapshot/chdb-sql-mirror.ts) and the SQL*)
(* a query becomes (snapshot/chdb-sql-compiler.ts).  The database itself is*)
(* external: EvalSql and the order of SqlOrdered say what ClickHouse does  *)
(* with the text the compiler writes, kept here as a tree.                 *)
(***************************************************************************)
EXTENDS Aggregates
LOCAL INSTANCE FiniteSetsExt
LOCAL INSTANCE SequencesExt

CONSTANTS
    ColumnType,         \* field -> the column type its values have
    DefaultValue        \* column type -> what a non-nullable column holds for no value

(* A mirror's columns: name -> nullable.  A field that a row has no key for*)
(* says nothing of its column.                                             *)
HasKey(row, f) == row[f] # Missing

InferColumns(rows) ==
    LET seen(f) == {i \in DOMAIN rows : HasKey(rows[i], f)}
        names == {f \in DOMAIN ColumnType : \E i \in DOMAIN rows : HasKey(rows[i], f)}
    IN  [f \in names |-> \/ Cardinality(seen(f)) < Len(rows)
                         \/ \E i \in seen(f) : rows[i][f] = Null]

MergeColumns(existing, incoming) ==
    [f \in DOMAIN existing \cup DOMAIN incoming |->
        \/ f \in DOMAIN existing /\ existing[f]
        \/ f \in DOMAIN incoming /\ incoming[f]]

\* projectSerializableRow: a non-nullable column takes its type's default for no value.
SerializedRow(row, columns) ==
    [f \in DOMAIN columns |->
        IF ~Nullish(row[f]) THEN row[f]
        ELSE IF columns[f] THEN Null ELSE DefaultValue[ColumnType[f]]]

(* The table holds an event for each change; it is kept here as what       *)
(* latestRowsSql reads of it: the newest event of each id, unless that one *)
(* is a tombstone.  live is a function from those ids to their rows.       *)
EmptyMirror == [columns |-> <<>>, live |-> <<>>, ready |-> FALSE]

MirrorInit(rows) ==
    LET columns == InferColumns(rows)
        row(id) == rows[CHOOSE i \in DOMAIN rows : rows[i][IdField] = id]
    IN  IF rows = <<>> THEN EmptyMirror
        ELSE [columns |-> columns, ready |-> TRUE,
              live |-> [id \in {rows[i][IdField] : i \in DOMAIN rows} |-> SerializedRow(row(id), columns)]]

\* Columns a mutation brings to an existing table are nullable ones; in a column added
\* later the earlier events hold null.
ColumnsWith(m, row) ==
    LET inferred == InferColumns(<<row>>)
    IN  MergeColumns(m.columns, IF m.ready THEN [f \in DOMAIN inferred |-> TRUE] ELSE inferred)

MirrorApply(m, mutation) ==
    LET row == IF mutation.kind = "delete" THEN mutation.before ELSE mutation.after
        columns == ColumnsWith(m, row)
        ids == IF mutation.kind = "delete" THEN DOMAIN m.live \ {mutation.id} ELSE DOMAIN m.live \cup {mutation.id}
    IN  [columns |-> columns, ready |-> TRUE,
         live |-> [id \in ids |->
                      IF id = mutation.id THEN SerializedRow(row, columns)
                      ELSE [f \in DOMAIN columns |-> IF f \in DOMAIN m.columns THEN m.live[id][f] ELSE Null]]]

LatestRows(m) == {m.live[id] : id \in DOMAIN m.live}

----------------------------------------------------------------------------
(* compileFilter, to a tree.  A filter value is a string where its column's *)
(* type is String.                                                         *)
Const(b) == [sql |-> "const", value |-> b]
IsNull(f) == [sql |-> "isNull", field |-> f]
Not(e) == [sql |-> "not", arg |-> e]
AllOf(es) == [sql |-> "and", args |-> es]
AnyOf(es) == [sql |-> "or", args |-> es]
Test(op, f, v, lower) == [sql |-> op, field |-> f, value |-> v, lower |-> lower]

NotNullAnd(nullable, f, e) == IF nullable THEN AllOf({Not(IsNull(f)), e}) ELSE e
NullOr(nullable, f, e) == IF nullable THEN AnyOf({IsNull(f), e}) ELSE e

\* a seeded fault: rows whose field is null do not count as not equal
CompileLeafPlain(f, nullable) ==
    LET string == ColumnType[f.field] = "String"
        lower == string /\ f.field \notin LiteralFields IN
    CASE f.comparator = "one_of" ->
            AnyOf({IF Nullish(x) THEN IsNull(f.field) ELSE Test("equals", f.field, x, lower) : x \in f.value})
      [] f.comparator # "one_of" /\ Nullish(f.value) ->
            IF f.comparator = "equals" THEN IsNull(f.field)
            ELSE IF f.comparator = "not_equals" THEN Not(IsNull(f.field)) ELSE Const(FALSE)
      [] OTHER -> Test(f.comparator, f.field, f.value, lower)

CompileLeaf(f, nullable) ==
    LET string == ColumnType[f.field] = "String"
        lower == string /\ f.field \notin LiteralFields
        plain == Test(f.comparator, f.field, f.value, lower) IN
    CASE f.comparator = "one_of" ->
            AnyOf({IF Nullish(x) THEN IsNull(f.field)
                   ELSE NotNullAnd(nullable /\ lower, f.field, Test("equals", f.field, x, lower)) : x \in f.value})
      [] f.comparator # "one_of" /\ Nullish(f.value) ->
            IF f.comparator = "equals" THEN IsNull(f.field)
            ELSE IF f.comparator = "not_equals" THEN Not(IsNull(f.field)) ELSE Const(FALSE)
      [] f.comparator = "not_equals" /\ ~Nullish(f.value) -> NullOr(nullable, f.field, plain)
      [] f.comparator \in {"equals", "contains", "starts_with"} /\ ~Nullish(f.value) /\ string /\ lower ->
            NotNullAnd(nullable, f.field, plain)
      [] OTHER -> plain

RECURSIVE CompileFilter(_, _)
CompileFilter(f, columns) ==
    IF f = Missing THEN Const(TRUE)
    ELSE IF "op" \notin DOMAIN f THEN CompileLeaf(f, columns[f.field])
    ELSE LET parts == {CompileFilter(f.conditions[i], columns) : i \in DOMAIN f.conditions}
         IN  IF f.op = "and" THEN AllOf(parts) ELSE AnyOf(parts)

\* The database, with the three values of SQL: a comparison with null is null, and
\* null keeps no row.
SqlTest(e, v) ==
    CASE e.sql = "equals" -> IF e.lower THEN Fold[v] = Fold[e.value] ELSE v = e.value
      [] e.sql = "not_equals" -> IF e.lower THEN Fold[v] # Fold[e.value] ELSE v # e.value
      [] e.sql \in {"contains", "starts_with"} -> <<e.sql, e.value, v>> \in Text
      [] OTHER -> CompareFilter(v, e.sql, e.value)

RECURSIVE EvalSql(_, _)
EvalSql(e, row) ==
    CASE e.sql = "const" -> e.value
      [] e.sql = "isNull" -> row[e.field] = Null
      [] e.sql = "not" -> LET a == EvalSql(e.arg, row) IN IF a = Null THEN Null ELSE ~a
      [] e.sql \in {"and", "or"} ->
            LET stop == e.sql = "or"
                results == {EvalSql(a, row) : a \in e.args}
            IN  IF stop \in results THEN stop ELSE IF Null \in results THEN Null ELSE ~stop
      [] OTHER -> IF row[e.field] = Null THEN Null ELSE SqlTest(e, row[e.field])

SqlMatching(m, q) ==
    LET where == CompileFilter(q.where, m.columns) IN {row \in LatestRows(m) : EvalSql(where, row) = TRUE}

(* compileOrderBy: a nullable column is ordered by isNull first, a string  *)
(* column by its lower case; rows the order does not tell apart come in    *)
(* any order.  compileLimit is the window.                                 *)
SqlNotAfter(l, r, orderBy, columns) ==
    LET C(i) == LET f == orderBy[i].field
                    way == IF orderBy[i].direction = "asc" THEN 1 ELSE -1
                    nulls == f \in DOMAIN columns /\ columns[f] /\ (l[f] = Null) # (r[f] = Null)
                IN  IF nulls THEN IF l[f] = Null THEN -way ELSE way
                    ELSE way * CompareValues(l[f], r[f])
        first == {i \in DOMAIN orderBy : C(i) # 0 /\ \A j \in 1..(i - 1) : C(j) = 0}
    IN  first = {} \/ C(CHOOSE i \in first : TRUE) < 0

SqlOrdered(rows, orderBy, columns) ==
    {s \in SetToSeqs(rows) : \A i, j \in DOMAIN s : i < j => SqlNotAfter(s[i], s[j], orderBy, columns)}

SqlWindow(s, q) ==
    LET offset == NormalizeOffset(q.offset)
        limit == NormalizeLimit(q.limit)
    IN  SubSeq(s, offset + 1, IF offset + limit < Len(s) THEN offset + limit ELSE Len(s))

\* The answers the database may give to a raw query; it refuses one that names a
\* column its table has not.
SqlRawAnswers(m, q) ==
    IF ~m.ready THEN {[rows |-> <<>>, totalRows |-> 0]}
    ELSE IF ~(CollectDependencyFields(q) \subseteq DOMAIN m.columns) THEN {}
    ELSE LET matching == SqlMatching(m, q)
             answer(s) == LET w == SqlWindow(s, q) IN
                          [rows |-> [i \in DOMAIN w |-> [f \in q.fields \cup {IdField} |-> w[i][f]]],
                           totalRows |-> Cardinality(matching)]
         IN  {answer(s) : s \in SqlOrdered(matching, RawQueryOrderBy(q), m.columns)}

\* GROUP BY: aggregates skip nulls; a group's rows come in no order, so the answers
\* that depend on one are not compared.
SqlGroups(m, q) == {BuildGroups(s, q)[1] : s \in
    {SetToSeq({row \in SqlMatching(m, q) : GroupKey(row, q.groupBy) = key}) :
        key \in {GroupKey(row, q.groupBy) : row \in SqlMatching(m, q)}}}

\* Its rows are ordered by the query's own order only (compileQuerySql).
SqlGroupedAnswers(m, q) ==
    IF ~m.ready THEN {[rows |-> <<>>, totalRows |-> 0]}
    ELSE IF ~(CollectDependencyFields(q) \ DOMAIN q.aggregates \subseteq DOMAIN m.columns) THEN {}
    ELSE LET groups == SqlGroups(m, q)
             nullable == [f \in {a \in DOMAIN q.aggregates : q.aggregates[a].aggFunc \in {"sum", "avg", "min", "max"}}
                            \cup DOMAIN m.columns |-> f \notin DOMAIN m.columns \/ m.columns[f]]
         IN  {[rows |-> SqlWindow(s, q), totalRows |-> Cardinality(groups)] :
                 s \in SqlOrdered(groups, q.orderBy, nullable)}
=============================================================================
