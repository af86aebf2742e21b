SPECIFICATION Spec
CONSTANTS
  p1 = p1
  p2 = p2
  p3 = p3
  k1 = k1
  k2 = k2
  ClientLimit = 2
  Peers = {p1, p2, p3}
  Keys = {k1}
  NulKeys = {}
  BeatOutcomes = {"due"}
  Kinds = {"handshake", "heartbeat", "request", "update", "broadcast", "invalid"}
  NoPeer = NoPeer
  NoKey = NoKey
  NoMsg = NoMsg
  MaxInFlight = 1
  MaxQueue = 1
SYMMETRY PeerSymmetry
INVARIANTS
  RegistryExact
  SocketsApart
  FreeSlotClean
  RepliesReachTheirPeer
  OneConnectionPerKey
PROPERTIES
  ServesAsTable
  OnlyOffendersDisconnected

