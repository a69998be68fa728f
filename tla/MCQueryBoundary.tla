--------------------------- MODULE MCQueryBoundary ---------------------------
(* One user topic whose fields are required, optional, nullable, literal    *)
(* and untyped, the health topic, and queries on both sides of each limit.  *)
EXTENDS QueryBoundary

String == [tag |-> "String"]
Union(types) == [tag |-> "Union", types |-> types]
Optional(ast) == Union(<<ast, [tag |-> "Undefined"]>>)
Literal(s) == [tag |-> "Literal", value |-> Str(s)]
OrderSchema ==
    "id" :> String @@ "price" :> Optional([tag |-> "Declaration", decimal |-> TRUE])
    @@ "qty" :> Union(<<[tag |-> "BigInt"], [tag |-> "Null"]>>)
    @@ "side" :> Optional(Union(<<Literal("buy"), Literal("sell")>>))
    @@ "extra" :> Optional([tag |-> "Unknown"]) @@ "type" :> Optional(String) @@ "patch" :> Optional(String)
MCHealthSchema ==
    "id" :> String @@ "topic" :> Optional(String) @@ "rows" :> [tag |-> "Number"]

Limit(n) == [Absent EXCEPT !.given = TRUE, !.n = n]
Half == [Limit(1) EXCEPT !.whole = FALSE]
Infinite == [Half EXCEPT !.finite = FALSE]
OneOverride == [l \in LimitNames |-> IF l = "maxFilterDepth" THEN Limit(2) ELSE Absent]
MCUserTopics == "orders" :> [id |-> "id", schema |-> OrderSchema, limits |-> OneOverride]
MCUserLimits == [l \in LimitNames |-> IF l \in {"maxPageSize", "maxAggregateCount"} THEN Limit(2) ELSE Absent]
MCAllowsQuery(topic, q) == q.offset.n < 2
MCAllowsPublish(topic) == TRUE
MCReservedTopics == {HealthTopic, "__other"}

NoFilter == [op |-> "none"]
Leaf(x) == [op |-> "leaf", field |-> "price", comparator |-> "equals", value |-> x]
Node(op, conditions) == [op |-> op, conditions |-> conditions]
Raw(fields, where, limit) ==
    [fields |-> fields, where |-> where, orderBy |-> <<>>, offset |-> Absent, limit |-> limit]
Grouped(aggregates) ==
    [groupBy |-> <<"side">>, aggregates |-> aggregates, where |-> NoFilter, orderBy |-> <<>>,
     offset |-> Absent, limit |-> Absent]
Of(func, field) == [aggFunc |-> func, field |-> field]
On(topic, q) == [topic |-> topic, query |-> q]
Whole == Raw({"price", "qty", "side", "extra"}, NoFilter, Limit(2))
MCAsks ==
    {On("orders", q) : q \in {
        Whole, Raw({"qty"}, Leaf(Dec("1")), Absent),
        Raw({"price"}, Node("and", <<Leaf(Arr(<<Dec("1"), Big("1")>>)), Leaf(Null)>>), Limit(1)),
        Raw({"price"}, Node("or", <<Node("and", <<Leaf(Big("1"))>>)>>), Limit(1)),
        Raw({"price"}, NoFilter, Limit(3)), Raw({"price"}, NoFilter, Half), Raw({"price"}, NoFilter, Infinite),
        [Raw({"price"}, NoFilter, Limit(1)) EXCEPT !.offset = Limit(2)], Raw({"none"}, NoFilter, Absent),
        Grouped("total" :> Of("sum", "price") @@ "n" :> Of("count", "id")),
        Grouped("low" :> Of("min", "price") @@ "high" :> Of("max", "qty")),
        Grouped("mean" :> Of("avg", "qty") @@ "kinds" :> Of("count_distinct", "qty")),
        Grouped("all" :> Of("string_concat", "side")), Grouped("sums" :> Of("sum", "none")),
        Grouped("a" :> Of("count", "id") @@ "b" :> Of("count", "id") @@ "c" :> Of("count", "id"))}}
    \cup {On(HealthTopic, Raw({"topic", "rows"}, NoFilter, Absent)), On("__other", Whole), On("gone", Whole)}
MCWatches == {On("orders", Whole)}
MCHealthWatches == {On(HealthTopic, Raw({"topic", "rows"}, NoFilter, Absent))}

Full(id) == "id" :> Str(id) @@ "price" :> Dec("1") @@ "qty" :> Big("1") @@ "side" :> Str("buy")
Sparse(id) ==
    "id" :> Str(id) @@ "price" :> Undefined @@ "qty" :> Null
    @@ "extra" :> Arr(<<Big("2"), Obj("in" :> Dec("3") @@ "no" :> Null)>>) @@ "more" :> Num(1)
Publish(row) == [type |-> "publish", row |-> row]
Patch(id, field, x) == [type |-> "delta-publish", patch |-> "id" :> Str(id) @@ field :> x]
Delete(id) == [type |-> "delete", id |-> Str(id)]
By(from, batch, m) == [topic |-> "orders", from |-> from, batch |-> batch, m |-> m]
Health(from) ==
    [topic |-> HealthTopic, from |-> from, batch |-> TRUE,
     m |-> Publish("id" :> Str("server") @@ "topic" :> Undefined @@ "rows" :> Num(1))]
MCWrites ==
    {By("rpc", FALSE, m) : m \in {Publish(Full("a")), Publish(Sparse("b")), Patch("a", "price", Null),
                                 Patch("a", "qty", Null), Patch("a", "side", Undefined), Delete("b")}}
    \cup {By("internal", batch, m) : batch \in BOOLEAN,
                                     m \in {Publish(Sparse("a")), Patch("a", "price", Undefined), Delete("a")}}
    \cup {Health("internal"), Health("rpc")}
Record(x) == [topic |-> "orders", value |-> x]
MCKafkaRecords ==
    {Record(x) : x \in {
        "id" :> Str("b") @@ "qty" :> Null, "id" :> Str("b"),
        "type" :> Str("publish") @@ "row" :> Obj("id" :> Str("c") @@ "qty" :> Null @@ "side" :> Str("sell")),
        "type" :> Str("delta-publish") @@ "patch" :> Obj("id" :> Str("a") @@ "extra" :> Num(2)),
        "type" :> Str("delta-publish") @@ "patch" :> Arr(<<Num(1)>>),
        "type" :> Str("delete") @@ "id" :> Str("a"),
        "id" :> Str("c") @@ "qty" :> Null @@ "type" :> Str("note"),
        "id" :> Str("b") @@ "qty" :> Null @@ "type" :> Str("delta-publish") @@ "patch" :> Str("text")}}
    \cup {[topic |-> "orders", value |-> Garbage]}
MCGarbage == "garbage" :> Undefined
=============================================================================
