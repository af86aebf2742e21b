SPECIFICATION FairSpec
CONSTANTS
  p1 = p1
  p2 = p2
  p3 = p3
  k1 = k1
  k2 = k2
  ClientLimit = 2
  Peers = {p1, p2}
  Keys = {k1}
  NulKeys = {}
  BeatOutcomes = {"due", "never"}
  Kinds = {"heartbeat","invalid"}
  NoPeer = NoPeer
  NoKey = NoKey
  NoMsg = NoMsg
  MaxInFlight = 1
  MaxQueue = 1
PROPERTIES
  DoomedIsClosed
  PacketsAreRead
  GoneIsFreed
