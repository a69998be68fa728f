---------------------------- MODULE TopicSchema ----------------------------
(***************************************************************************)
(* What the server reads off a topic's schema: the kind of each field      *)
(* (config/schema-introspection.ts), the catalog of its columns (config/   *)
(* column-catalog.ts), and the decoding of a row (topic-worker-core.ts     *)
(* decodeRow, Effect's Schema being external).                             *)
(*                                                                         *)
(* A schema is a function from field names to syntax trees:                *)
(*   [tag |-> "String" | "Number" | "BigInt" | "Boolean" | "Null" |        *)
(*            "Undefined" | "Unknown"], [tag |-> "Literal", value],        *)
(*   [tag |-> "Declaration", decimal], [tag |-> "Union", types].           *)
(* An optional field is a Union with Undefined, as Schema.optional makes.  *)
(***************************************************************************)
EXTENDS WireValues, FiniteSets
LOCAL INSTANCE SequencesExt

TypesOf(ast) == {ast.types[i] : i \in DOMAIN ast.types}
IsUndefinedAst(ast) == ast.tag = "Undefined"

RECURSIVE AllowsUndefined(_)
AllowsUndefined(ast) ==
    \/ IsUndefinedAst(ast)
    \/ ast.tag = "Union" /\ \E type \in TypesOf(ast) : AllowsUndefined(type)

RECURSIVE AllowsNullish(_)
AllowsNullish(ast) ==
    \/ ast.tag \in {"Undefined", "Null"}
    \/ ast.tag = "Union" /\ \E type \in TypesOf(ast) : AllowsNullish(type)

RECURSIVE IsStringLiteralOnly(_)
IsStringLiteralOnly(ast) ==
    CASE ast.tag = "Literal" -> ast.value.t = "string"
      [] ast.tag = "Union" ->
            LET types == {type \in TypesOf(ast) : ~IsUndefinedAst(type)}
            IN  types # {} /\ \A type \in types : IsStringLiteralOnly(type)
      [] OTHER -> FALSE

RECURSIVE SchemaFieldKind(_)
SchemaFieldKind(ast) ==
    CASE ast.tag = "Union" ->
            LET kinds == {SchemaFieldKind(type) : type \in {x \in TypesOf(ast) : ~AllowsNullish(x)}}
            IN  IF Cardinality(kinds) = 1 THEN CHOOSE k \in kinds : TRUE ELSE "unknown"
      [] ast.tag = "Literal" -> IF ast.value.t \in Plain THEN ast.value.t ELSE "unknown"
      [] ast.tag = "String" -> "string"
      [] ast.tag = "Number" -> "number"
      [] ast.tag = "BigInt" -> "bigint"
      [] ast.tag = "Boolean" -> "boolean"
      [] ast.tag = "Declaration" -> IF ast.decimal THEN "bigdecimal" ELSE "unknown"
      [] OTHER -> "unknown"

ColumnTypeForKind(kind) ==
    CASE kind = "string" -> "String"
      [] kind = "number" -> "Float64"
      [] kind = "bigint" -> "Int64"
      [] kind = "boolean" -> "UInt8"
      [] kind = "bigdecimal" -> "Decimal(76, 38)"
      [] OTHER -> "none"

CatalogField(ast) ==
    [kind |-> SchemaFieldKind(ast), nullable |-> AllowsNullish(ast),
     literalString |-> IsStringLiteralOnly(ast),
     sqlType |-> ColumnTypeForKind(SchemaFieldKind(ast)),
     filterable |-> SchemaFieldKind(ast) # "unknown", sortable |-> SchemaFieldKind(ast) # "unknown"]
ColumnCatalog(schema) == [f \in DOMAIN schema |-> CatalogField(schema[f])]

(* Schema.is and Schema.decodeUnknown for the schemas above. *)
RECURSIVE SchemaIs(_, _)
SchemaIs(ast, x) ==
    CASE ast.tag = "Union" -> \E type \in TypesOf(ast) : SchemaIs(type, x)
      [] ast.tag = "Literal" -> x = ast.value
      [] ast.tag = "Unknown" -> TRUE
      [] ast.tag = "Declaration" -> x.t = "bigdecimal"
      [] OTHER -> x.t = CASE ast.tag = "String" -> "string" [] ast.tag = "Number" -> "number"
                          [] ast.tag = "BigInt" -> "bigint" [] ast.tag = "Boolean" -> "boolean"
                          [] ast.tag = "Null" -> "null" [] ast.tag = "Undefined" -> "undefined"

RowDecodes(schema, row) ==
    \A f \in DOMAIN schema : IF f \in DOMAIN row THEN SchemaIs(schema[f], row[f]) ELSE AllowsUndefined(schema[f])
DecodedRow(schema, row) == [f \in DOMAIN schema \cap DOMAIN row |-> row[f]]

----------------------------------------------------------------------------
(* Queries: [fields, ...] or [groupBy, aggregates, ...], each with where,   *)
(* orderBy, offset and limit.                                               *)
IsGrouped(q) == "groupBy" \in DOMAIN q
GroupFields(q) == {q.groupBy[i] : i \in DOMAIN q.groupBy}
OrderFields(q) == {q.orderBy[i].field : i \in DOMAIN q.orderBy}

RECURSIVE FilterFields(_)
FilterFields(f) ==
    CASE f.op = "leaf" -> {f.field}
      [] f.op \in {"and", "or"} -> UNION {FilterFields(f.conditions[i]) : i \in DOMAIN f.conditions}
      [] OTHER -> {}

\* validateQuery: the first unknown name fails the query; which one is only in the message.
QueryFieldsExist(catalog, q) ==
    LET names == DOMAIN catalog IN
    /\ FilterFields(q.where) \subseteq names
    /\ IF IsGrouped(q)
       THEN /\ GroupFields(q) \subseteq names
            /\ \A a \in DOMAIN q.aggregates : q.aggregates[a].field \in names
            /\ OrderFields(q) \subseteq GroupFields(q) \cup DOMAIN q.aggregates
       ELSE q.fields \cup OrderFields(q) \subseteq names
=============================================================================
