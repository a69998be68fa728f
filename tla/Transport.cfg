SPECIFICATION TransportSpec
CONSTANTS
  Client <- MCClient
  AllCalls <- MCAllCalls
  Demands <- MCDemands
INVARIANTS DeliveredInOrder ClientsSound
CHECK_DEADLOCK FALSE
PROPERTIES DisconnectDrains QueuedIsWritten AsksEnd
