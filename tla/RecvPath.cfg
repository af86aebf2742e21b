SPECIFICATION FairSpec
CONSTANTS
  BufferSize = 6
  HeaderSize = 2
  MinSize = 3
  Wrap = 16
  Lengths = {2, 3, 5, 6, 7, 16, 17}
  MaxPackets = 3
PROPERTIES
  InOrder
  NothingAfterBadFrame
  EveryPacketHandled
