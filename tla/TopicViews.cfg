SPECIFICATION Spec
CONSTANTS
  Null = Null
  Missing = Missing
  IdField = "id"
  Fold <- MCFold
  Text <- MCText
  LiteralFields = {}
  DefaultLimit = 3
  SpliceLimit = 2
  HeapLimit = 3
  BlockSize = 1
  TreeRows = 2
  TreeOps = 2
  Priority <- MCPriority
  ColumnType <- MCColumnType
  DefaultValue <- MCDefaultValue
  RowValues <- MCRowValues
  Ids <- MCIds
  PlanSubs = {"p1", "p2"}
  MemorySubs = {"m1"}
  GroupSubs = {"g1"}
  PlanQuery <- MCPlanQuery
  Query <- MCQuery
  BuildChunk = 1
  AutoBuildMaxRows = 3
  MaxActivePlans = 1
  GroupedAccumulatorMaxRows = 2
INVARIANTS
  ViewsMatchEngine
  ClientsCurrent
  PathsAgree
  SqlAgrees
CHECK_DEADLOCK FALSE
