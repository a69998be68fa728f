---------------------------- MODULE QueryBoundary ----------------------------
(***************************************************************************)
(* A row's way through the server and back: it is published by a client,   *)
(* from inside the server or from Kafka, stored by its topic's worker in   *)
(* this thread or another, mirrored in the chDB child, and read by a query *)
(* or a subscription that the client checks again when the answer comes.   *)
(* Which rows and which window a query selects is TopicViews' question:    *)
(* here the worker answers with any of its rows the limit allows.          *)
(***************************************************************************)
EXTENDS QueryGate
LOCAL INSTANCE SequencesExt
LOCAL INSTANCE FiniteSetsExt

CONSTANTS
    Asks,           \* the queries clients may send: [topic, query]
    Watches,        \* the subscriptions: [topic, query], queries over all rows
    Writes,         \* mutations: [topic, from, batch, m], m as in WireValues
    KafkaRecords,   \* [topic, value]: what JSON.parse makes of a record, or Garbage
    Garbage,        \* a record without a value, or one that is no JSON
    MaxCalls,       \* queries asked; a bound of the instance
    MaxMutations    \* mutations accepted; a bound of the instance

VARIABLES
    placement,  \* the workers run in this thread ("core") or in threads of their own
    store,      \* topic -> id -> row, in the worker
    mirror,     \* the same as the chDB child decodes it
    rejected,   \* QueryLimitPolicy.rejectedByTopic
    call,       \* a client's query on its way
    live,       \* a client's subscription
    calls, mutations

vars == <<placement, store, mirror, rejected, call, live, calls, mutations>>
Idle == [stage |-> "idle"]
NotLive == [stage |-> "none"]
Topics == DOMAIN NormalizedTopics
Named == Topics \cup {ask.topic : ask \in Asks}
IdOf(topic) == NormalizedTopics[topic].id

----------------------------------------------------------------------------
(* The worker. *)

NullIfMissing(row, f) == IF f \in DOMAIN row /\ row[f] # Undefined THEN row[f] ELSE Null
Projected(topic, q, row) ==
    [f \in q.fields \cup {IdOf(topic)} |-> IF f \in q.fields THEN NullIfMissing(row, f) ELSE row[f]]

\* Sums of several values and joined texts are kept as one token of their kind.
AggregateOf(aggregate, rows) ==
    LET values == {NullIfMissing(row, aggregate.field) : row \in rows} \ {Null}
        func == aggregate.aggFunc IN
    CASE func \in {"count", "count_distinct"} -> Num(IF func = "count" THEN Cardinality(rows) ELSE Cardinality(values))
      [] func \in {"sum", "avg"} ->
            IF values = {} THEN Null
            ELSE IF \E v \in values : v.t = "bigdecimal" THEN Dec("sum") ELSE Num(Cardinality(values))
      [] func \in {"min", "max"} -> IF values = {} THEN Null ELSE CHOOSE v \in values : TRUE
      [] OTHER -> Str("joined")

GroupedRow(q, rows) ==
    LET row == CHOOSE r \in rows : TRUE IN
    [f \in GroupFields(q) \cup DOMAIN q.aggregates |->
        IF f \in GroupFields(q) THEN NullIfMissing(row, f) ELSE AggregateOf(q.aggregates[f], rows)]

\* What the worker may answer with rows of its table.
AnswersFrom(table, topic, q) ==
    LET rows == {table[id] : id \in DOMAIN table} IN
    IF IsGrouped(q)
    THEN {<<>>} \cup {<<GroupedRow(q, group)>> :
                      group \in {g \in SUBSET rows : g # {} /\ \A r, s \in g : \A f \in GroupFields(q) :
                                                        NullIfMissing(r, f) = NullIfMissing(s, f)}}
    ELSE {[i \in DOMAIN ids |-> Projected(topic, q, table[ids[i]])] :
          ids \in {SetToSeq(chosen) : chosen \in {c \in SUBSET DOMAIN table : Cardinality(c) <= q.limit.n}}}

\* mutationInputChange: the row stored, or "fails".
Stored(topic, m) ==
    LET schema == NormalizedTopics[topic].schema
        id == IdOf(topic)
        fails == [ok |-> FALSE, id |-> Null, row |-> NoRow] IN
    CASE m.type = "publish" ->
            IF RowDecodes(schema, m.row) /\ IsStableKey(m.row[id])
            THEN [ok |-> TRUE, id |-> m.row[id], row |-> DecodedRow(schema, m.row)] ELSE fails
      [] m.type = "delta-publish" ->
            IF id \notin DOMAIN m.patch \/ ~IsStableKey(m.patch[id]) \/ m.patch[id] \notin DOMAIN store[topic]
            THEN fails
            ELSE LET merged == m.patch @@ store[topic][m.patch[id]]
                 IN  IF RowDecodes(schema, merged)
                     THEN [ok |-> TRUE, id |-> m.patch[id], row |-> DecodedRow(schema, merged)] ELSE fails
      [] m.type = "delete" -> [ok |-> TRUE, id |-> m.id, row |-> NoRow]

Without(table, id) == [k \in DOMAIN table \ {id} |-> table[k]]
With(table, id, row) == IF row = NoRow THEN Without(table, id) ELSE (id :> row) @@ table

\* The delta a subscription of the topic is sent; nothing for a row that was not there.
DeltaFor(topic, q, id, row) ==
    IF row # NoRow THEN <<[type |-> "upsert", row |-> Projected(topic, q, row), key |-> id]>>
    ELSE IF id \in DOMAIN store[topic] THEN <<[type |-> "remove", key |-> id]>> ELSE <<>>

----------------------------------------------------------------------------
(* Borders on the way out. *)

\* Only the health topic of a runtime without worker threads has no chDB child.
HasChild(topic) == topic # HealthTopic \/ placement = "thread"

OverWire(rows) == OverRpcRows(WireQueryRows(rows))
FromWorker(rows) == IF placement = "thread" THEN OverWire(rows) ELSE rows
OperationOverWire(op) == OperationOverRpc(WireOperation(op))
FromWorkerOperation(op) == IF placement = "thread" THEN OperationOverWire(op) ELSE op

RECURSIVE FilterOverRpc(_)
FilterOverRpc(f) ==
    CASE f.op = "leaf" -> [f EXCEPT !.value = RpcDecode(RpcEncode(@))]
      [] f.op \in {"and", "or"} -> [f EXCEPT !.conditions = [i \in DOMAIN @ |-> FilterOverRpc(@[i])]]
      [] OTHER -> f
QueryOverRpc(q) == [q EXCEPT !.where = FilterOverRpc(@)]
QueryToChdb(q) == DecodeRuntimeQuery(EncodeRuntimeQuery(q))
FromChdb(rows) == DecodeSnapshotBackendResult(EncodeSnapshotBackendResult(rows))

----------------------------------------------------------------------------
Init ==
    /\ ConfigAccepted
    /\ placement \in {"core", "thread"}
    /\ store = [topic \in Topics |-> <<>>]
    /\ mirror = [topic \in Topics |-> <<>>]
    /\ rejected = [topic \in Named |-> 0]
    /\ call = Idle /\ live = NotLive
    /\ calls = 0 /\ mutations = 0

(* A client's query: toRpcQuery throws for a shape that is none. *)
Ask ==
    /\ call = Idle /\ calls < MaxCalls
    /\ \E ask \in Asks :
        /\ IsRpcQuery(ask.query)
        /\ call' = [stage |-> "sent", topic |-> ask.topic, asked |-> ask.query, query |-> QueryOverRpc(ask.query)]
    /\ calls' = calls + 1
    /\ UNCHANGED <<placement, store, mirror, rejected, live, mutations>>

Admit ==
    /\ call.stage = "sent"
    /\ LET g == Guarded(call.topic, call.query) IN
       /\ call' = IF g.verdict = "admitted" THEN [call EXCEPT !.stage = "admitted", !.query = g.query] ELSE Idle
       /\ rejected' = IF g.verdict = "rejected" THEN [rejected EXCEPT ![call.topic] = @ + 1] ELSE rejected
    /\ UNCHANGED <<placement, store, mirror, live, calls, mutations>>

(* The worker answers from memory or from the chDB child.  meant is what   *)
(* its table holds.                                                        *)
Answer ==
    /\ call.stage = "admitted"
    /\ LET q == IF placement = "thread" THEN QueryOverRpc(call.query) ELSE call.query IN
       \/ \E rows \in AnswersFrom(store[call.topic], call.topic, q) :
            call' = [stage |-> "answered", topic |-> call.topic, asked |-> call.asked, ran |-> q,
                     meant |-> rows, rows |-> OverWire(FromWorker(rows))]
       \/ /\ HasChild(call.topic)
          /\ \E rows \in AnswersFrom(mirror[call.topic], call.topic, QueryToChdb(q)) :
                call' = [stage |-> "answered", topic |-> call.topic, asked |-> call.asked, ran |-> QueryToChdb(q),
                         meant |-> rows, rows |-> OverWire(FromWorker(FromChdb(rows)))]
    /\ UNCHANGED <<placement, store, mirror, rejected, live, calls, mutations>>

Receive ==
    /\ call.stage = "answered"
    /\ call' = Idle
    /\ UNCHANGED <<placement, store, mirror, rejected, live, calls, mutations>>

Subscribe ==
    /\ live = NotLive
    /\ \E watch \in Watches :
        LET g == Guarded(watch.topic, QueryOverRpc(watch.query)) IN
        /\ g.verdict = "admitted"
        /\ live' = [stage |-> "open", topic |-> watch.topic, query |-> watch.query,
                    events |-> <<[type |-> "snapshot",
                                  rows |-> OverWire(FromWorker(SetToSeq({Projected(watch.topic, watch.query, store[watch.topic][id]) :
                                                                         id \in DOMAIN store[watch.topic]})))]>>,
                    shown |-> <<>>]
    /\ UNCHANGED <<placement, store, mirror, rejected, call, calls, mutations>>

(* The next event: its rows replace or change those shown, or its decoding *)
(* fails and the subscription is over.                                     *)
Keyed(topic, rows) == [id \in {rows[i][IdOf(topic)] : i \in DOMAIN rows} |->
                        rows[CHOOSE i \in DOMAIN rows : rows[i][IdOf(topic)] = id]]
AfterOperation(shown, op) ==
    IF op.type = "remove" THEN Without(shown, op.key) ELSE With(shown, op.key, op.row)

TakeEvent ==
    /\ live.stage = "open" /\ live.events # <<>>
    /\ LET event == Head(live.events) IN
       live' = IF ~RpcSubscriptionEvent(live.topic, live.query, event) THEN [live EXCEPT !.stage = "failed"]
               ELSE [live EXCEPT !.events = Tail(@),
                                 !.shown = IF event.type = "snapshot" THEN Keyed(live.topic, event.rows)
                                           ELSE FoldLeft(AfterOperation, @, event.ops)]
    /\ UNCHANGED <<placement, store, mirror, rejected, call, calls, mutations>>

Leave ==
    /\ live.stage = "open"
    /\ live' = NotLive
    /\ UNCHANGED <<placement, store, mirror, rejected, call, calls, mutations>>

(* The worker applies a mutation, logs it to the mirror, tells subscribers. *)
Apply(topic, m) ==
    LET s == Stored(topic, m)
        before == IF s.id \in DOMAIN store[topic] THEN store[topic][s.id] ELSE NoRow
        entry == DecodeMutationLogEntry(EncodeMutationLogEntry([before |-> before, after |-> s.row]))
        ops == DeltaFor(topic, live.query, s.id, s.row) IN
    /\ s.ok
    /\ store' = [store EXCEPT ![topic] = With(@, s.id, s.row)]
    /\ mirror' = [mirror EXCEPT ![topic] = With(@, s.id, entry.after)]
    /\ live' = IF live.stage = "open" /\ live.topic = topic /\ ops # <<>>
               THEN [live EXCEPT !.events = Append(@, [type |-> "delta",
                        ops |-> [i \in DOMAIN ops |-> OperationOverWire(FromWorkerOperation(ops[i]))]])]
               ELSE live
    /\ mutations' = mutations + 1
    /\ UNCHANGED <<placement, rejected, call, calls>>

AtWorker(topic, m, batch) ==
    IF placement = "thread" THEN HostEncodes(m, batch) /\ Apply(topic, ThroughHost(m)) ELSE Apply(topic, m)

\* The client's mutations, as its codec lets them out and the wire brings them.
FromClient(topic, m) ==
    CASE m.type = "publish" -> [m EXCEPT !.row = OverRpc(RpcPublishPayload(topic, @))]
      [] m.type = "delta-publish" -> [m EXCEPT !.patch = OverRpc(RpcDeltaPublishPayload(@))]
      [] OTHER -> m
ClientSends(topic, m) ==
    CASE m.type = "publish" -> RpcPublishes(topic, m.row)
      [] m.type = "delta-publish" -> IsTopicPatch(topic, m.patch)
      [] OTHER -> TRUE

Write ==
    /\ mutations < MaxMutations
    /\ \E w \in Writes :
        /\ CanPublishTopic(w.topic, w.from)
        /\ \/ /\ w.from = "rpc" /\ w.topic \in DOMAIN UserTopics
              /\ ClientSends(w.topic, w.m)
              /\ AtWorker(w.topic, FromClient(w.topic, w.m), FALSE)
           \/ /\ w.from = "internal"
              /\ AtWorker(w.topic, w.m, w.batch)

(* Kafka: the record is a row or a mutation in an envelope.  What decodes is *)
(* a mutation [m], or a row [row] that is looked at once more.               *)
IsMutationEnvelope(x) ==
    /\ "type" \in DOMAIN x
    /\ \/ x["type"] = Str("publish") /\ "row" \in DOMAIN x
       \/ x["type"] = Str("delta-publish") /\ "patch" \in DOMAIN x /\ x["patch"].t \in {"object", "array"}
       \/ x["type"] = Str("delete") /\ "id" \in DOMAIN x /\ IsStableKey(x["id"])

\* What an object or anything else has as fields.
FieldsOf(x) == IF x.t = "object" THEN x.entries ELSE NoRow

DecodeEnvelope(schema, x) ==
    CASE x["type"] = Str("delete") -> {[m |-> [type |-> "delete", id |-> x["id"]]]}
      [] x["type"] = Str("delta-publish") -> {[m |-> [type |-> "delta-publish", patch |-> FieldsOf(x["patch"])]]}
      [] OTHER -> IF x["row"].t = "object" /\ RowDecodes(schema, x["row"].entries)
                  THEN {[m |-> [type |-> "publish", row |-> DecodedRow(schema, x["row"].entries)]]} ELSE {}

\* The message of a record, if it decodes.
DecodeJsonRecord(topic, value) ==
    LET schema == UserTopics[topic].schema IN
    CASE value = Garbage -> {}
      [] value # Garbage /\ IsMutationEnvelope(value) -> DecodeEnvelope(schema, value)
      [] OTHER -> IF RowDecodes(schema, value) THEN {[row |-> DecodedRow(schema, value)]} ELSE {}

\* A decoded row that looks like an envelope is taken for one, whatever it carries.
LooksLike(row, type, field) == {"type", field} \subseteq DOMAIN row /\ row["type"] = Str(type)

KafkaSourceMutation(topic, message) ==
    IF "m" \in DOMAIN message THEN {message.m}
    ELSE LET row == message.row IN
         CASE LooksLike(row, "publish", "row") -> {[type |-> "publish", row |-> FieldsOf(row["row"])]}
           [] LooksLike(row, "delta-publish", "patch") -> {[type |-> "delta-publish", patch |-> FieldsOf(row["patch"])]}
           [] LooksLike(row, "delete", "id") -> {[type |-> "delete", id |-> row["id"]]}
           [] OTHER -> IF IdOf(topic) \in DOMAIN row THEN {[type |-> "publish", row |-> row]} ELSE {}

Ingest ==
    /\ mutations < MaxMutations
    /\ \E record \in KafkaRecords : \E message \in DecodeJsonRecord(record.topic, record.value) :
        \E m \in KafkaSourceMutation(record.topic, message) : AtWorker(record.topic, m, TRUE)

Next == Ask \/ Admit \/ Answer \/ Receive \/ Subscribe \/ TakeEvent \/ Leave \/ Write \/ Ingest
Spec == Init /\ [][Next]_vars

----------------------------------------------------------------------------
(* Whatever the gate admits and the worker answers, the client can decode: *)
(* the validators it derives from the schema and the query accept what     *)
(* projection, grouping and each border make of the rows, absent optional  *)
(* fields and empty aggregates included; and no event ends a subscription. *)
AnswersDecode ==
    /\ call.stage = "answered" => RpcQueryRows(call.topic, call.asked, call.rows)
    /\ live.stage # "failed"

(* No border changes a value: the answer the client holds is the one the   *)
(* worker gave, the worker ran the filter the client wrote, the mirror     *)
(* holds the worker's rows, and a subscription that has taken its events   *)
(* shows the rows of the table.                                            *)
ValuesSurvive ==
    /\ call.stage = "answered" => call.rows = call.meant /\ call.ran.where = call.asked.where
    /\ mirror = store
    /\ live.stage = "open" /\ live.events = <<>> =>
        live.shown = [id \in DOMAIN store[live.topic] |-> Projected(live.topic, live.query, store[live.topic][id])]
=============================================================================
