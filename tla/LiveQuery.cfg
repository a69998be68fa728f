CONSTANTS
  s1 = s1
  s2 = s2
  r1 = r1
  r2 = r2
  Streams = {s1, s2}
  Requests = {r1, r2}
  NoStream = NoStream
  MaxVersion = 3
  MaxBatch = 2
  NoRows <- Garbage
  MaxQueueDepth = 2
  DeltaCoalescing = TRUE
SPECIFICATION Spec
INVARIANTS
  QueuesSound
  NothingLost
  NoOrphan
PROPERTIES
  OnlyForward
SYMMETRY MCSymmetry
CHECK_DEADLOCK FALSE
