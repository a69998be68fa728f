SPECIFICATION Spec
CONSTANTS
  MaxRequests = 2
  MaxVersion = 2
  PipeLimit = 2
  MaxLosses = 1
INVARIANTS
  
  ReaderSound
PROPERTIES
  Released
  Recovers
CHECK_DEADLOCK FALSE
