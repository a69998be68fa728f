---------------------------- MODULE MCTopicViews ----------------------------
(* A small topic for TopicViews: strings 10 ("A"), 11 ("a") and 12 ("b"),   *)
(* of which the first two differ in case only, numbers 0, 1 and 2.          *)
EXTENDS TopicViews

MCFold == [v \in {0, 1, 2, 10, 11, 12} \cup (1..9) |-> IF v = 10 THEN 11 ELSE v]
MCText == {<<"contains", 11, 10>>, <<"contains", 11, 11>>, <<"starts_with", 12, 12>>}
MCColumnType == [f \in {"id", "k", "g", "v"} |-> IF f = "k" THEN "String" ELSE "Float64"]
MCDefaultValue == [t \in {"String", "Float64"} |-> IF t = "String" THEN 12 ELSE 0]
MCPriority == [i \in 1..20 |-> (i * 7) % 5]
MCIds == {1, 2, 3}

Row(k, g, v) == [k |-> k, g |-> g, v |-> v]
\* Every kind of change on the first id, fewer on the others.
MCRowValues == <<{Row(10, 1, 1), Row(11, 1, 2), Row(12, 2, 1), Row(12, 1, Null)},
                 {Row(10, 1, 1), Row(11, 2, 1), Row(12, 1, Null)},
                 {Row(11, 1, 2), Row(11, 2, 2)}>>
MCRowValuesMissing == <<{Row(11, 1, 1), Row(12, 1, Missing)}, {Row(11, 1, 1)}, {Row(11, 1, 1)}>>

Leaf1(f, c, v) == [field |-> f, comparator |-> c, value |-> v]
ByK == [field |-> "k", direction |-> "desc"]
ByV == [field |-> "v", direction |-> "asc"]
\* not equal to 2, or containing "a"
PlanWhere == [op |-> "or", conditions |-> <<Leaf1("v", "not_equals", 2), Leaf1("k", "contains", 11)>>]

Raw(where, orderBy, fields, offset, limit) ==
    [where |-> where, orderBy |-> orderBy, fields |-> fields, offset |-> offset, limit |-> limit]
MCPlanQuery == Raw(PlanWhere, <<ByV, ByK>>, {"k"}, 0, 2)

Agg(f, field) == [aggFunc |-> f, field |-> field, sort |-> Missing]
MCQuery == [s \in {"p1", "p2", "m1", "g1"} |->
    CASE s = "p1" -> MCPlanQuery
      [] s = "p2" -> Raw(PlanWhere, <<ByV, ByK>>, {"g"}, 1, 1)
      [] s = "m1" -> Raw([op |-> "and", conditions |-> <<Leaf1("k", "one_of", {11, 12}), Leaf1("g", "equals", 1)>>],
                         <<ByK>>, {"v"}, Missing, Missing)
      [] s = "g1" -> [where |-> Leaf1("v", "less_than", 3), groupBy |-> <<"g">>,
                      aggregates |-> [n |-> Agg("count", "k"), s |-> Agg("sum", "v"), top |-> Agg("max", "v")],
                      orderBy |-> <<[field |-> "n", direction |-> "desc"]>>, offset |-> 0, limit |-> 1]]
=============================================================================
