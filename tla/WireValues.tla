----------------------------- MODULE WireValues -----------------------------
(***************************************************************************)
(* The values rows and filters are made of and what becomes of them on     *)
(* each border: the RPC wire (rpc/wire.ts, rpc/rpcs.ts), which the worker  *)
(* threads use too, and the chDB child's messages (snapshot/               *)
(* row-wire-codec.ts, snapshot/chdb-worker-protocol.ts).                   *)
(*                                                                         *)
(* A value is a record whose field t is its JavaScript type.  A row is a   *)
(* function from its keys to values; a key may hold undefined.             *)
(***************************************************************************)
EXTENDS Integers, Sequences, TLC

Undefined == [t |-> "undefined"]
Null == [t |-> "null"]
Str(s) == [t |-> "string", v |-> s]
Num(n) == [t |-> "number", v |-> n]
Big(n) == [t |-> "bigint", v |-> n]
Dec(n) == [t |-> "bigdecimal", v |-> n]
Arr(items) == [t |-> "array", items |-> items]
Obj(entries) == [t |-> "object", entries |-> entries]

Plain == {"null", "string", "number", "boolean", "bigint"}
IsStableKey(x) == x.t \in {"string", "number"}

Defined(row) == {k \in DOMAIN row : row[k] # Undefined}

(* toWireValue: undefined keys and items vanish. *)
RECURSIVE ToWireValue(_)
ToWireValue(x) ==
    CASE x.t = "array" ->
            LET kept == SelectSeq(x.items, LAMBDA i : i # Undefined)
            IN  Arr([i \in DOMAIN kept |-> ToWireValue(kept[i])])
      [] x.t = "object" -> Obj([k \in Defined(x.entries) |-> ToWireValue(x.entries[k])])
      [] OTHER -> x
ToWireRow(row) == [k \in Defined(row) |-> ToWireValue(row[k])]

(* The schema RpcWireValue: bigints and decimals travel as tagged objects,  *)
(* and the tagged objects are tried before plain records.                   *)
Tagged(tag, v) == Obj("__viewServerType" :> Str(tag) @@ "value" :> Str(v))
HasTag(x, tag) ==
    /\ x.t = "object" /\ {"__viewServerType", "value"} \subseteq DOMAIN x.entries
    /\ x.entries["__viewServerType"] = Str(tag)
    /\ x.entries["value"].t = "string"

RECURSIVE RpcEncode(_)
RpcEncode(x) ==
    CASE x.t \in {"bigint", "bigdecimal"} -> Tagged(x.t, x.v)
      [] x.t = "array" -> Arr([i \in DOMAIN x.items |-> RpcEncode(x.items[i])])
      [] x.t = "object" -> Obj([k \in DOMAIN x.entries |-> RpcEncode(x.entries[k])])
      [] OTHER -> x

\* a seeded fault: a decimal comes back as the text it travelled as
RpcDecodeKeepsText(x) ==
    CASE HasTag(x, "bigint") -> Big(x.entries["value"].v)
      [] HasTag(x, "bigdecimal") -> x.entries["value"]
      [] OTHER -> x

RECURSIVE RpcDecode(_)
RpcDecode(x) ==
    CASE HasTag(x, "bigint") -> Big(x.entries["value"].v)
      [] HasTag(x, "bigdecimal") -> Dec(x.entries["value"].v)
      [] x.t = "array" -> Arr([i \in DOMAIN x.items |-> RpcDecode(x.items[i])])
      [] x.t = "object" /\ ~HasTag(x, "bigint") /\ ~HasTag(x, "bigdecimal") ->
            Obj([k \in DOMAIN x.entries |-> RpcDecode(x.entries[k])])
      [] OTHER -> x

\* What the other side of an RPC has of a row; undefined cannot be encoded.
RpcRowEncodes(row) == \A k \in DOMAIN row : row[k] # Undefined
OverRpc(row) == [k \in DOMAIN row |-> RpcDecode(RpcEncode(row[k]))]
OverRpcRows(rows) == [i \in DOMAIN rows |-> OverRpc(rows[i])]

(* isRpcWireValue: what a client may put into a filter. *)
RECURSIVE IsRpcWireValue(_)
IsRpcWireValue(x) ==
    CASE x.t = "array" -> \A i \in DOMAIN x.items : IsRpcWireValue(x.items[i])
      [] x.t = "object" -> \A k \in DOMAIN x.entries : IsRpcWireValue(x.entries[k])
      [] OTHER -> x.t \in Plain \cup {"bigdecimal"}

WireQueryRows(rows) == [i \in DOMAIN rows |-> ToWireRow(rows[i])]

(* Delta operations. *)
WireOperation(op) ==
    CASE op.type = "remove" -> op
      [] op.type = "patch" -> [op EXCEPT !.changes = ToWireRow(@)]
      [] op.type = "upsert" -> [op EXCEPT !.row = ToWireRow(@)]
OperationOverRpc(op) ==
    CASE op.type = "remove" -> op
      [] op.type = "patch" -> [op EXCEPT !.changes = OverRpc(@)]
      [] op.type = "upsert" -> [op EXCEPT !.row = OverRpc(@)]

----------------------------------------------------------------------------
(* Worker threads: the host's mutations (topic-worker-node-host.ts) and     *)
(* their decoding in the thread.                                            *)
ToRpcMutation(m) ==
    CASE m.type = "publish" -> [m EXCEPT !.row = ToWireRow(@)]
      [] m.type = "delta-publish" -> [m EXCEPT !.patch = ToWireRow(@)]
      [] m.type = "delete" -> m
DecodeTopicWorkerMutation(m) ==
    CASE m.type = "publish" -> [m EXCEPT !.row = OverRpc(@)]
      [] m.type = "delta-publish" -> [m EXCEPT !.patch = OverRpc(@)]
      [] m.type = "delete" -> m

\* The host's deltaPublish hands over the patch as it is, mutateBatch does not.
HostEncodes(m, batch) ==
    CASE m.type = "delta-publish" -> batch \/ RpcRowEncodes(m.patch)
      [] OTHER -> TRUE
ThroughHost(m) == DecodeTopicWorkerMutation(ToRpcMutation(m))

----------------------------------------------------------------------------
(* The chDB child: structured clones, in which only decimals are tagged and *)
(* undefined survives.                                                      *)
RECURSIVE EncodeWireValue(_)
EncodeWireValue(x) ==
    CASE x.t = "bigdecimal" -> Obj("_tag" :> Str("ViewServerBigDecimal") @@ "value" :> Str(x.v))
      [] x.t = "array" -> Arr([i \in DOMAIN x.items |-> EncodeWireValue(x.items[i])])
      [] x.t = "object" -> Obj([k \in DOMAIN x.entries |-> EncodeWireValue(x.entries[k])])
      [] OTHER -> x

IsWireBigDecimal(x) ==
    /\ x.t = "object" /\ {"_tag", "value"} \subseteq DOMAIN x.entries
    /\ x.entries["_tag"] = Str("ViewServerBigDecimal")

RECURSIVE DecodeWireValue(_)
DecodeWireValue(x) ==
    CASE IsWireBigDecimal(x) -> Dec(x.entries["value"].v)
      [] x.t = "array" -> Arr([i \in DOMAIN x.items |-> DecodeWireValue(x.items[i])])
      [] x.t = "object" /\ ~IsWireBigDecimal(x) ->
            Obj([k \in DOMAIN x.entries |-> DecodeWireValue(x.entries[k])])
      [] OTHER -> x

EncodeRuntimeRow(row) == [k \in DOMAIN row |-> EncodeWireValue(row[k])]
DecodeRuntimeRow(row) == [k \in DOMAIN row |-> DecodeWireValue(row[k])]

NoRow == <<>>                   \* an entry's before or after that is absent
EncodeMutationLogEntry(e) ==
    [e EXCEPT !.before = EncodeRuntimeRow(@), !.after = EncodeRuntimeRow(@)]
DecodeMutationLogEntry(e) ==
    [e EXCEPT !.before = DecodeRuntimeRow(@), !.after = DecodeRuntimeRow(@)]

\* A filter: [op |-> "none"], a leaf, or "and" / "or" over conditions.
RECURSIVE EncodeFilterNode(_)
EncodeFilterNode(f) ==
    CASE f.op = "leaf" -> [f EXCEPT !.value = EncodeWireValue(@)]
      [] f.op \in {"and", "or"} ->
            [f EXCEPT !.conditions = [i \in DOMAIN @ |-> EncodeFilterNode(@[i])]]
      [] OTHER -> f
RECURSIVE DecodeFilterNode(_)
DecodeFilterNode(f) ==
    CASE f.op = "leaf" -> [f EXCEPT !.value = DecodeWireValue(@)]
      [] f.op \in {"and", "or"} ->
            [f EXCEPT !.conditions = [i \in DOMAIN @ |-> DecodeFilterNode(@[i])]]
      [] OTHER -> f
EncodeRuntimeQuery(q) == [q EXCEPT !.where = EncodeFilterNode(@)]
DecodeRuntimeQuery(q) == [q EXCEPT !.where = DecodeFilterNode(@)]

EncodeSnapshotBackendResult(rows) == [i \in DOMAIN rows |-> EncodeRuntimeRow(rows[i])]
DecodeSnapshotBackendResult(rows) == [i \in DOMAIN rows |-> DecodeRuntimeRow(rows[i])]
=============================================================================
