----------------------------- MODULE ClientCodec -----------------------------
(***************************************************************************)
(* What the client lets through in either direction (client/               *)
(* rpc-boundary.ts): the shape of a query, rows and patches it publishes,  *)
(* and the rows and delta operations it gets, which it checks against the  *)
(* schema of the topic and the query.  The client has the user's own       *)
(* configuration, without the health topic the server adds to it.          *)
(***************************************************************************)
EXTENDS TopicSchema

CONSTANTS
    UserTopics,     \* topic -> [id, schema, limits], as the user configured them
    HealthTopic,    \* the name of the server's own topic
    HealthSchema    \* ViewServerHealthRowSchema

Absent == [given |-> FALSE, n |-> 0, whole |-> TRUE, finite |-> TRUE]

RECURSIVE IsRuntimeFilterNode(_)
IsRuntimeFilterNode(f) ==
    CASE f.op = "none" -> TRUE
      [] f.op = "leaf" -> IsRpcWireValue(f.value)
      [] OTHER -> \A i \in DOMAIN f.conditions : IsRuntimeFilterNode(f.conditions[i])

IsOptionalFiniteNumber(n) == n.given => n.finite

\* toRpcQuery throws for every other query.
IsRpcQuery(q) ==
    /\ IsRuntimeFilterNode(q.where)
    /\ IsOptionalFiniteNumber(q.offset) /\ IsOptionalFiniteNumber(q.limit)

----------------------------------------------------------------------------
(* Fields and their validators. *)

FieldsForReadableTopic(topic) ==
    IF topic = HealthTopic THEN HealthSchema ELSE UserTopics[topic].schema
IdFieldForTopic(topic) == IF topic = HealthTopic THEN "id" ELSE UserTopics[topic].id

\* a seeded fault: the null the server sends for an absent value is refused
ValidatesStrictly(fields, f, x) == f \in DOMAIN fields => SchemaIs(fields[f], x)

Validates(fields, f, x) ==
    f \in DOMAIN fields => SchemaIs(fields[f], x) \/ (x = Null /\ AllowsUndefined(fields[f]))
RequiredForField(fields, f) == f \in DOMAIN fields => ~AllowsUndefined(fields[f])

AllowsDecimals(fields, f) == f \in DOMAIN fields /\ Validates(fields, f, Dec("0"))
ValidatesAggregate(fields, aggregate, x) ==
    LET func == aggregate.aggFunc IN
    CASE func \in {"count", "count_distinct"} -> x.t = "number"
      [] func \in {"sum", "avg"} ->
            x = Null \/ x.t = IF AllowsDecimals(fields, aggregate.field) THEN "bigdecimal" ELSE "number"
      [] func \in {"min", "max"} -> x = Null \/ Validates(fields, aggregate.field, x)
      [] OTHER -> x.t = "string"

ResultFieldsForQuery(topic, q) ==
    IF IsGrouped(q) THEN GroupFields(q) \cup DOMAIN q.aggregates
    ELSE {IdFieldForTopic(topic)} \cup q.fields

ValidateResultFieldValue(topic, q, f, x) ==
    LET fields == FieldsForReadableTopic(topic) IN
    CASE f \notin ResultFieldsForQuery(topic, q) -> TRUE
      [] f \in ResultFieldsForQuery(topic, q) /\ IsGrouped(q) /\ f \notin GroupFields(q) ->
            ValidatesAggregate(fields, q.aggregates[f], x)
      [] OTHER -> Validates(fields, f, x)

ResultFieldRequired(topic, q, f) ==
    \/ IsGrouped(q) /\ f \notin GroupFields(q)
    \/ RequiredForField(FieldsForReadableTopic(topic), f)

IsResultRow(topic, q, row) ==
    \A f \in ResultFieldsForQuery(topic, q) :
        IF f \in DOMAIN row THEN ValidateResultFieldValue(topic, q, f, row[f])
        ELSE ~ResultFieldRequired(topic, q, f)

----------------------------------------------------------------------------
(* In: rows and delta operations; [ok, ...] where the code succeeds or     *)
(* fails with SchemaDecodeFailed.                                          *)

RpcQueryRows(topic, q, rows) == \A i \in DOMAIN rows : IsResultRow(topic, q, rows[i])

IsResultPatch(topic, q, changes) ==
    \A f \in DOMAIN changes : ValidateResultFieldValue(topic, q, f, changes[f])

\* rowKeyFromTopicConfig reads the id of a topic the user's configuration must have.
KeysTopic(topic) == topic \in DOMAIN UserTopics
DecodesDeltaOperation(topic, q, op) ==
    /\ KeysTopic(topic)
    /\ CASE op.type = "remove" -> IsStableKey(op.key)
         [] op.type = "patch" -> IsStableKey(op.key) /\ IsResultPatch(topic, q, op.changes)
         [] op.type = "upsert" -> RpcQueryRows(topic, q, <<op.row>>) /\ IsStableKey(op.key)

RpcSubscriptionEvent(topic, q, event) ==
    CASE event.type = "snapshot" -> RpcQueryRows(topic, q, event.rows)
      [] event.type = "status" -> TRUE
      [] event.type = "delta" -> \A i \in DOMAIN event.ops : DecodesDeltaOperation(topic, q, event.ops[i])

----------------------------------------------------------------------------
(* Out: what the server gets of a row or a patch, and whether it is sent.  *)

RpcPublishes(topic, row) == RowDecodes(UserTopics[topic].schema, row)
RpcPublishPayload(topic, row) == ToWireRow(DecodedRow(UserTopics[topic].schema, row))

IsTopicPatch(topic, patch) ==
    /\ UserTopics[topic].id \in DOMAIN patch
    /\ \A f \in DOMAIN patch : Validates(UserTopics[topic].schema, f, patch[f])
RpcDeltaPublishPayload(patch) == ToWireRow(patch)
=============================================================================
