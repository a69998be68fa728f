SPECIFICATION FairSpec
CONSTANTS
  q1 = q1  g1 = g1
  NumRows = 1
  Queries = {q1}
  Refreshes = {}
  Nobody = Nobody
  RestartOnExit = TRUE
  ChunkedInit = TRUE
  InitMayFail = TRUE
  MaxVersion = 1
  MaxCrashes = 2
CHECK_DEADLOCK FALSE
PROPERTY AnswersCome
