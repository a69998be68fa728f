\* Every query, three mutations, both placements of the workers.
CONSTANTS
    HealthTopic = "__view_server_health"
    UserTopics <- MCUserTopics
    HealthSchema <- MCHealthSchema
    UserLimits <- MCUserLimits
    AllowsQuery <- MCAllowsQuery
    AllowsPublish <- MCAllowsPublish
    ReservedTopics <- MCReservedTopics
    Asks <- MCAsks
    Watches <- MCWatches
    Writes <- MCWrites
    KafkaRecords <- MCKafkaRecords
    Garbage <- MCGarbage
    MaxCalls = 1
    MaxMutations = 3
SPECIFICATION Spec
INVARIANTS AnswersDecode ValuesSurvive
CHECK_DEADLOCK FALSE
