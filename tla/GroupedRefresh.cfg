SPECIFICATION FairSpec
CONSTANTS
  r1 = r1  r2 = r2  r3 = r3  qa = qa  qb = qb
  Requests = {r1, r2}
  Queries = {qa}
  NoSub = NoSub
  NoRows <- Nothing
  ReuseRequestIds = FALSE
  MaxQueueDepth = 2
  DeltaCoalescing = TRUE
  MaxVersion = 3
  MaxSubscribes = 2
CHECK_DEADLOCK FALSE
INVARIANTS ClientsTold NoOneForgotten
PROPERTY StaleEnds
