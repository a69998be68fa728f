SPECIFICATION Spec
CONSTANTS
  q1 = q1  g1 = g1
  NumRows = 2
  Queries = {q1}
  Refreshes = {g1}
  Nobody = Nobody
  RestartOnExit = TRUE
  ChunkedInit = FALSE
  InitMayFail = FALSE
  MaxVersion = 2
  MaxCrashes = 1
CHECK_DEADLOCK FALSE
INVARIANTS FenceSound NoMutationLost
