SPECIFICATION Spec
CONSTANTS
  Records = 3
  BatchSize = 2
  KafkaTopic = "orders"
  ClientTopic = "quotes"
  Scenarios <- MCScenarios
  ChdbStatuses <- MCChdbStatuses
INVARIANTS
  LogFollowed
  NoRequestForgotten
  HealthTellsTheWorst
PROPERTIES
  FailureIsShown
  CloseEnds
CHECK_DEADLOCK FALSE
