SPECIFICATION FairSpec
CONSTANTS
  BufferSize = 20
  HeaderSize = 2
  Block = 4
  BeatSize = 10
  LogLimit = 1
  DisconnectLimit = 2
  Sizes = {10, 14, 17, 19}
  OtherClients = 2
  MaxBytes = 21
INVARIANTS
  StallsOnlyWornOut
PROPERTIES
  BytesInOrder
  QueuedLeaves
CHECK_DEADLOCK FALSE
