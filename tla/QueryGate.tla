------------------------------ MODULE QueryGate ------------------------------
(***************************************************************************)
(* What stands before a topic's worker: the normalised configuration       *)
(* (config/define-config.ts), the query limits (server/                    *)
(* query-limit-policy.ts), the catalog's check and the authorization       *)
(* (server/auth-policy.ts), in the order runtime-operations.ts calls them. *)
(* A limit is a number that may not be given: Absent, or a record with its *)
(* value n.                                                                *)
(***************************************************************************)
EXTENDS ClientCodec
LOCAL INSTANCE SequencesExt
LOCAL INSTANCE FiniteSetsExt

CONSTANTS
    UserLimits,         \* the configuration's limits: name -> number
    AllowsQuery(_, _),  \* authorizeQuery: topic, the query or Absent
    AllowsPublish(_),   \* authorizePublish: topic
    ReservedTopics      \* the names with the reserved prefix, the server's own topic among them

LimitNames == {"maxPageSize", "maxAggregateCount", "maxGroupByFields", "maxFilterDepth", "maxFilterConditions"}
DefaultLimits == "maxPageSize" :> 50 @@ "maxAggregateCount" :> 32 @@ "maxGroupByFields" :> 8
                 @@ "maxFilterDepth" :> 8 @@ "maxFilterConditions" :> 64
PositiveInt(n) == n.whole /\ n.n > 0

NormalizeQueryLimits(limits) == [l \in LimitNames |-> IF limits[l].given THEN limits[l].n ELSE DefaultLimits[l]]
OverridesValid(limits) == \A l \in LimitNames : limits[l].given => PositiveInt(limits[l])

IsReservedTopic(topic) == topic \in ReservedTopics

\* normalizeConfig throws where this does not hold.
ConfigAccepted ==
    /\ OverridesValid(UserLimits)
    /\ \A topic \in DOMAIN UserTopics :
        /\ ~IsReservedTopic(topic)
        /\ UserTopics[topic].id \in DOMAIN UserTopics[topic].schema
        /\ OverridesValid(UserTopics[topic].limits)

NoOverrides == [l \in LimitNames |-> Absent]
NormalizedTopics ==
    UserTopics @@ (HealthTopic :> [id |-> "id", schema |-> HealthSchema, limits |-> NoOverrides])

LimitsForTopic(topic) ==
    [l \in LimitNames |->
        LET override == NormalizedTopics[topic].limits[l] IN
        IF override.given THEN override.n ELSE NormalizeQueryLimits(UserLimits)[l]]

RECURSIVE FilterDepth(_)
FilterDepth(f) ==
    CASE f.op = "none" -> 0
      [] f.op = "leaf" -> 1
      [] OTHER -> 1 + Max({0} \cup {FilterDepth(f.conditions[i]) : i \in DOMAIN f.conditions})
RECURSIVE FilterConditions(_)
FilterConditions(f) ==
    CASE f.op = "none" -> 0
      [] f.op = "leaf" -> 1
      [] OTHER -> FoldLeft(LAMBDA a, c : a + c, 0, [i \in DOMAIN f.conditions |-> FilterConditions(f.conditions[i])])

GroupedWithinLimits(q, limits) ==
    /\ Len(q.groupBy) <= limits["maxGroupByFields"]
    /\ Cardinality(DOMAIN q.aggregates) <= limits["maxAggregateCount"]

\* a query without a limit gets the largest page
LimitedQuery(q, limits) ==
    IF q.limit.given THEN q ELSE [q EXCEPT !.limit = [Absent EXCEPT !.given = TRUE, !.n = limits["maxPageSize"]]]

\* The checks whose failures are counted as rejections of the topic.
WithinLimits(q, limits) ==
    /\ q.offset.given => q.offset.whole /\ q.offset.n >= 0
    /\ q.limit.given => PositiveInt(q.limit)
    /\ LimitedQuery(q, limits).limit.n <= limits["maxPageSize"]
    /\ IsGrouped(q) => GroupedWithinLimits(q, limits)
    /\ FilterDepth(q.where) <= limits["maxFilterDepth"]
    /\ FilterConditions(q.where) <= limits["maxFilterConditions"]

\* canReadTopic: only the call with a payload asks the configuration's policy.
CanReadTopic(topic, q) == IsReservedTopic(topic) => topic = HealthTopic
CanReadPayload(topic, q) == CanReadTopic(topic, q) /\ AllowsQuery(topic, q)
CanPublishTopic(topic, transport) ==
    /\ IsReservedTopic(topic) => transport = "internal"
    /\ AllowsPublish(topic)

\* query and subscribe up to the worker's call: the verdict and the guarded query.
Guarded(topic, q) ==
    LET known == topic \in DOMAIN NormalizedTopics
        limits == IF known THEN LimitsForTopic(topic) ELSE NormalizeQueryLimits(UserLimits)
        limited == LimitedQuery(q, limits)
        verdict == CASE ~CanReadTopic(topic, q) -> "unauthorized"
                     [] CanReadTopic(topic, q) /\ ~WithinLimits(q, limits) -> "rejected"
                     [] OTHER -> IF known /\ ~QueryFieldsExist(ColumnCatalog(NormalizedTopics[topic].schema), limited)
                                 THEN "invalid"
                                 ELSE IF ~CanReadPayload(topic, limited) THEN "unauthorized"
                                 ELSE IF known THEN "admitted" ELSE "missing"
    IN  [verdict |-> verdict, query |-> limited]
=============================================================================
