CONSTANTS
  a = a
  b = b
  c = c
  x = x
  y = y
  Ids = {a, b, c}
  Vals = {x, y}
  NoVal = NoVal
  NoEntry = NoEntry
  LogCapacity = 2
  MaxVersion = 4
  InitialRows <- MCInitialRows
SPECIFICATION Spec
INVARIANTS
  StoreSound
  LogIsNewestRun
  ReplayCatchesUp
  ReplayOfferedWhenHeld
PROPERTY ImplementsTable
