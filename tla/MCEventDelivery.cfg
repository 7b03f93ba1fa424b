SPECIFICATION FairSpec
CONSTANTS
  NoMessage = NoMessage
  Events <- MCEvents
  Parts <- MCParts
  Capacity = 2
  MaxRetries = 1
INVARIANTS
  StreamInOrder
  NothingVanishes
PROPERTY
  AllSettle
