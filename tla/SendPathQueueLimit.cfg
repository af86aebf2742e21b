SPECIFICATION LazyPeerSpec
CONSTANTS
  BufferSize = 20
  HeaderSize = 2
  Block = 4
  BeatSize = 10
  LogLimit = 1
  DisconnectLimit = 2
  Sizes = {10}
  OtherClients = 0
  MaxBytes = 30
PROPERTIES
  LongQueueDisconnects
CHECK_DEADLOCK FALSE
