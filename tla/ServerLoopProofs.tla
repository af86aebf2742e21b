--------------------------- MODULE ServerLoopProofs ---------------------------
(* Theorems about ServerLoop, for every number of slots, peers and keys.   *)
EXTENDS ServerLoop, FiniteSetTheorems, SequenceTheorems, TLAPS

\* The registry of connections and the types of the rest hold each other up:
\* nconn stays a natural number because the list has no repeated index.
RegistryInv == TypeOK /\ RegistryExact

LEMMA InitRegistry == Init => RegistryInv
<1> SUFFICES ASSUME Init PROVE RegistryInv
  OBVIOUS
<1> USE ConstantsOK
<1>1. TypeOK
  BY DEF Init, TypeOK, Slots
<1>2. Occupied = {}
  BY DEF Init, Occupied
<1>3. RegistryExact
  BY <1>2, FS_EmptySet DEF Init, RegistryExact
<1> QED
  BY <1>1, <1>3 DEF RegistryInv

\* The slots are a finite set, and so are the occupied ones.
LEMMA OccupiedFinite == IsFiniteSet(Slots) /\ IsFiniteSet(Occupied)
<1>1. IsFiniteSet(Slots)
  BY ConstantsOK, FS_Interval DEF Slots
<1>2. Occupied \subseteq Slots
  BY DEF Occupied
<1> QED
  BY <1>1, <1>2, FS_Subset

\* A step that leaves the table of sockets alone leaves the registry exact.
LEMMA SameTable ==
  ASSUME RegistryExact, UNCHANGED <<sock, connIndex, listed, nconn>>
  PROVE  RegistryExact'
BY DEF RegistryExact, Occupied

-------------------------------------------------------------------------------
(* The environment.                                                        *)

LEMMA EnvironmentType == TypeOK /\ Environment => TypeOK'
<1> SUFFICES ASSUME TypeOK, Environment PROVE TypeOK'
  OBVIOUS
<1> USE DEF TypeOK, vars, netVars, connVars, sendVars, loopVars
<1>1. CASE \E p \in Peers : Connect(p)
  BY <1>1 DEF Connect
<1>2. CASE \E p \in Peers : PeerClose(p)
  BY <1>2 DEF PeerClose
<1>3. CASE \E p \in Peers : PeerReset(p)
  BY <1>3 DEF PeerReset
<1>4. CASE \E p \in Peers, pkt \in Packets : PeerSend(p, pkt)
  BY <1>4 DEF PeerSend
<1>5. CASE \E s \in Slots : Expire(s)
  BY <1>5 DEF Expire
<1> QED
  BY <1>1, <1>2, <1>3, <1>4, <1>5 DEF Environment

-------------------------------------------------------------------------------
(* The thread, but for the two steps that change the table.                *)

\* The loop's position stays in the table.
LEMMA PositionType ==
  ASSUME TypeOK, NextSlot \/ StartPass \/ \E stage \in {"send", "recv", "finish"} : GoTo(stage)
  PROVE  pc' \in {"accept", "send", "recv", "finish"} /\ cur' \in Slots /\ wfds' \subseteq Slots
<1>1. CASE NextSlot
  <2>1. cur \in Slots /\ ClientLimit \in Nat \ {0}
    BY ConstantsOK DEF TypeOK
  <2>2. cur' \in Slots
    BY <1>1, <2>1 DEF NextSlot, Slots
  <2> QED
    BY <1>1, <2>2 DEF NextSlot, TypeOK
<1>2. CASE StartPass
  BY <1>2, ConstantsOK DEF StartPass, Slots, Occupied
<1>3. CASE \E stage \in {"send", "recv", "finish"} : GoTo(stage)
  BY <1>3 DEF GoTo, TypeOK
<1> QED
  BY <1>1, <1>2, <1>3

LEMMA AcceptType == TypeOK /\ (PassWithoutAccept \/ AcceptWhenFull) => TypeOK'
<1> SUFFICES ASSUME TypeOK, PassWithoutAccept \/ AcceptWhenFull PROVE TypeOK'
  OBVIOUS
<1> USE DEF TypeOK, netVars, connVars, sendVars
<1>1. StartPass
  BY DEF PassWithoutAccept, AcceptWhenFull
<1>2. CASE PassWithoutAccept
  BY <1>1, <1>2, PositionType DEF PassWithoutAccept
<1>3. CASE AcceptWhenFull
  <2>1. {backlog[i] : i \in 1 .. Len(backlog)} \subseteq Peers
    BY ElementOfSeq
  <2> QED
    BY <1>1, <1>3, <2>1, PositionType DEF AcceptWhenFull
<1> QED
  BY <1>2, <1>3

LEMMA SendType == ASSUME NEW s \in Slots, TypeOK, SendStep(s) PROVE TypeOK'
<1> USE DEF TypeOK, netVars, connVars, sendVars
<1>1. GoTo("recv")
  BY DEF SendStep, SendNothing, Deliver, SendError
<1>2. CASE SendNothing(s)
  BY <1>1, <1>2, PositionType DEF SendNothing
<1>3. CASE Deliver(s)
  <2>1. sock[s] \in Peers /\ sendq[s] \in Seq(Messages) /\ sendq[s] # <<>>
    BY <1>3 DEF Deliver, At
  <2>2. Tail(sendq[s]) \in Seq(Messages)
    BY <2>1
  <2>3. sendq' \in [Slots -> Seq(Messages)]
    BY <1>3, <2>2 DEF Deliver
  <2>4. /\ peer' \in [Peers -> {"off", "open", "closed", "reset"}]
        /\ inbox' \in [Peers -> Seq(Packets)]
    <3>1. <<>> \in Seq(Packets)
      OBVIOUS
    <3>2. CASE peer[sock[s]] = "closed"
      <4>1. peer' = [peer EXCEPT ![sock[s]] = "reset"] /\ inbox' = [inbox EXCEPT ![sock[s]] = <<>>]
        BY <1>3, <3>2 DEF Deliver
      <4> QED
        BY <2>1, <3>1, <4>1
    <3>3. CASE peer[sock[s]] # "closed"
      BY <1>3, <3>3 DEF Deliver
    <3> QED
      BY <3>2, <3>3
  <2> QED
    BY <1>1, <1>3, <2>3, <2>4, PositionType DEF Deliver
<1>4. CASE SendError(s)
  BY <1>1, <1>4, PositionType DEF SendError, Disconnect
<1> QED
  BY <1>2, <1>3, <1>4 DEF SendStep

LEMMA TakeType ==
  ASSUME NEW s \in Slots, NEW kind, TypeOK, Take(s, kind)
  PROVE  /\ GoTo("finish") /\ UNCHANGED <<backlog, peer, leaked>>
         /\ sock[s] \in Peers
         /\ Head(inbox[sock[s]]) \in Packets
         /\ inbox' \in [Peers -> Seq(Packets)]
<1>1. sock[s] \in Peers
  BY DEF Take, At, TypeOK
<1>2. inbox[sock[s]] \in Seq(Packets) /\ inbox[sock[s]] # <<>>
  BY <1>1 DEF Take, TypeOK
<1> QED
  BY <1>1, <1>2 DEF Take, TypeOK

LEMMA PostType ==
  ASSUME NEW s \in Slots, NEW m \in Messages, TypeOK, Post(s, m)
  PROVE  sendq' \in [Slots -> Seq(Messages)] /\ outbuf' \in [Slots -> Messages \cup {NoMsg}]
BY DEF Post, TypeOK
\* Every packet's handler leaves the table alone and keeps the types.
LEMMA HandleType ==
  ASSUME NEW s \in Slots, TypeOK, Handle(s)
  PROVE  TypeOK' /\ UNCHANGED <<sock, connIndex, listed, nconn>>
<1> USE DEF connVars, sendVars
<1>1. \E kind \in {"handshake", "heartbeat", "request", "update", "broadcast", "invalid"} :
        Take(s, kind)
  BY ConstantsOK DEF Handle, IgnoreDoomed, RejectPacket, HandshakeAccept, HandshakeRefuse,
     HandshakeIgnore, ClientBeat, Update, Reply, ReplyStale, ReplyTooLarge, Broadcast,
     BroadcastTooLarge
<1>2. /\ GoTo("finish") /\ UNCHANGED <<backlog, peer, leaked>>
      /\ sock[s] \in Peers
      /\ Head(inbox[sock[s]]) \in Packets
      /\ inbox' \in [Peers -> Seq(Packets)]
  BY <1>1, TakeType
<1>3. pc' \in {"accept", "send", "recv", "finish"} /\ cur' \in Slots /\ wfds' \subseteq Slots
  BY <1>2, PositionType
<1>4. \A kind \in {"auth", "reply", "broadcast"} : [kind |-> kind, about |-> sock[s]] \in Messages
  BY <1>2 DEF Messages
<1>5. UNCHANGED <<sock, connIndex, listed, nconn>>
  BY DEF Handle, IgnoreDoomed, RejectPacket, HandshakeAccept, HandshakeRefuse,
     HandshakeIgnore, ClientBeat, Update, Reply, ReplyStale, ReplyTooLarge, Broadcast,
     BroadcastTooLarge
<1>6. todc' \in [Slots -> BOOLEAN]
  BY DEF TypeOK, Handle, IgnoreDoomed, RejectPacket, HandshakeAccept, HandshakeRefuse,
     HandshakeIgnore, ClientBeat, Update, Reply, ReplyStale, ReplyTooLarge, Broadcast,
     BroadcastTooLarge, Disconnect, Occupied
<1>7. /\ isAuth' \in [Slots -> BOOLEAN]
      /\ key' \in [Slots -> Keys \cup {NoKey}]
  <2>1. CASE HandshakeAccept(s)
    <3>1. Head(inbox[sock[s]]).key \in Keys \cup {NoKey}
      BY <1>2 DEF Packets
    <3> QED
      BY <2>1, <3>1 DEF HandshakeAccept, TypeOK
  <2>2. CASE ~HandshakeAccept(s)
    BY <2>2 DEF TypeOK, Handle, IgnoreDoomed, RejectPacket, HandshakeRefuse,
       HandshakeIgnore, ClientBeat, Update, Reply, ReplyStale, ReplyTooLarge, Broadcast,
       BroadcastTooLarge
  <2> QED
    BY <2>1, <2>2
<1>8. beat' \in [Slots -> {"due", "armed", "never"}]
  BY ConstantsOK DEF TypeOK, Handle, IgnoreDoomed, RejectPacket, HandshakeAccept, HandshakeRefuse,
     HandshakeIgnore, ClientBeat, Update, Reply, ReplyStale, ReplyTooLarge, Broadcast,
     BroadcastTooLarge
<1>9. sendq' \in [Slots -> Seq(Messages)] /\ outbuf' \in [Slots -> Messages \cup {NoMsg}]
  <2>1. CASE IgnoreDoomed(s) \/ RejectPacket(s) \/ HandshakeRefuse(s) \/ HandshakeIgnore(s)
             \/ ClientBeat(s) \/ Update(s)
    BY <2>1 DEF TypeOK, IgnoreDoomed, RejectPacket, HandshakeRefuse, HandshakeIgnore,
       ClientBeat, Update
  <2>2. CASE HandshakeAccept(s)
    BY <1>4, <2>2, PostType DEF HandshakeAccept
  <2>3. CASE Reply(s)
    BY <1>4, <2>3, PostType DEF Reply
  <2>4. CASE ReplyStale(s)
    <3>1. CASE outbuf[s] = NoMsg
      BY <2>4, <3>1 DEF ReplyStale, TypeOK
    <3>2. CASE outbuf[s] # NoMsg
      <4>1. outbuf[s] \in Messages
        BY <3>2 DEF TypeOK
      <4> QED
        BY <2>4, <3>2, <4>1, PostType DEF ReplyStale
    <3> QED
      BY <3>1, <3>2
  <2>5. CASE ReplyTooLarge(s) \/ BroadcastTooLarge(s)
    <3>1. PICK m \in Messages : outbuf' = [outbuf EXCEPT ![s] = m] /\ sendq' = sendq
      BY <1>4, <2>5 DEF ReplyTooLarge, BroadcastTooLarge
    <3> QED
      BY <3>1 DEF TypeOK
  <2>6. CASE Broadcast(s)
    BY <1>4, <2>6 DEF Broadcast, TypeOK
  <2> QED
    BY <2>1, <2>2, <2>3, <2>4, <2>5, <2>6 DEF Handle
<1> QED
  BY <1>2, <1>3, <1>5, <1>6, <1>7, <1>8, <1>9 DEF TypeOK
LEMMA FinishType ==
  ASSUME NEW s \in Slots, RegistryInv, KeepSlot(s)
  PROVE  RegistryInv'
<1> USE DEF netVars, connVars, sendVars
<1>1. pc' \in {"accept", "send", "recv", "finish"} /\ cur' \in Slots /\ wfds' \subseteq Slots
  BY PositionType DEF KeepSlot, RegistryInv
<1>2. /\ beat' \in [Slots -> {"due", "armed", "never"}]
      /\ sendq' \in [Slots -> Seq(Messages)] /\ outbuf' \in [Slots -> Messages \cup {NoMsg}]
  <2>1. Beat \in Messages
    BY DEF Beat, Messages
  <2>2. CASE beat[s] = "due"
    BY <2>1, <2>2, PostType DEF KeepSlot, RegistryInv, TypeOK
  <2>3. CASE beat[s] # "due"
    BY <2>3 DEF KeepSlot, RegistryInv, TypeOK
  <2> QED
    BY <2>2, <2>3
<1>3. TypeOK'
  BY <1>1, <1>2 DEF KeepSlot, RegistryInv, TypeOK
<1> QED
  BY <1>3, SameTable DEF KeepSlot, RegistryInv

-------------------------------------------------------------------------------
(* The two steps that change the table.                                    *)

LEMMA AcceptIntoSlotRegistry ==
  ASSUME NEW s \in Slots, RegistryInv, AcceptIntoSlot(s)
  PROVE  RegistryInv'
<1>1. /\ backlog \in Seq(Peers) /\ backlog # <<>>
      /\ sock[s] = NoPeer
  BY DEF AcceptIntoSlot, FirstFree, RegistryInv, TypeOK
<1>2. Head(backlog) \in Peers /\ Tail(backlog) \in Seq(Peers)
  BY <1>1
<1>3. pc' \in {"accept", "send", "recv", "finish"} /\ cur' \in Slots /\ wfds' \subseteq Slots
  BY PositionType DEF AcceptIntoSlot, RegistryInv
<1>4. TypeOK'
  <2>1. /\ sock' \in [Slots -> Peers \cup {NoPeer}]
        /\ connIndex' \in [Slots -> Slots]
        /\ listed' \in [Slots -> Nat]
        /\ nconn' \in Nat /\ backlog' \in Seq(Peers)
    BY <1>2 DEF AcceptIntoSlot, RegistryInv, TypeOK
  <2> QED
    BY <1>3, <2>1 DEF AcceptIntoSlot, sendVars, RegistryInv, TypeOK
<1>5. Occupied' = Occupied \cup {s} /\ s \notin Occupied
  BY <1>1, <1>2, ConstantsOK DEF AcceptIntoSlot, Occupied, RegistryInv, TypeOK
<1>6. nconn' = Cardinality(Occupied')
  BY <1>5, OccupiedFinite, FS_AddElement DEF AcceptIntoSlot, RegistryInv, RegistryExact
<1>7. RegistryExact'
  BY <1>5, <1>6 DEF AcceptIntoSlot, RegistryInv, RegistryExact, TypeOK
<1> QED
  BY <1>4, <1>7 DEF RegistryInv

LEMMA CloseSlotRegistry ==
  ASSUME NEW s \in Slots, RegistryInv, CloseSlot(s)
  PROVE  RegistryInv'
<1>1. s \in Occupied /\ sock[s] \in Peers
  BY DEF CloseSlot, At, Occupied, RegistryInv, TypeOK
<1>2. connIndex[s] = s /\ listed[s] = 1
  BY <1>1 DEF RegistryInv, RegistryExact
<1>3. Occupied' = Occupied \ {s}
  BY DEF CloseSlot, Initialize, Occupied, RegistryInv, TypeOK
<1>4. nconn' = nconn - 1 /\ listed' = [listed EXCEPT ![s] = 0]
  BY <1>2 DEF CloseSlot
<1>5. nconn' = Cardinality(Occupied') /\ nconn' \in Nat
  <2>1. Cardinality(Occupied \ {s}) = Cardinality(Occupied) - 1
    BY <1>1, OccupiedFinite, FS_RemoveElement
  <2>2. IsFiniteSet(Occupied \ {s}) /\ Cardinality(Occupied \ {s}) \in Nat
    BY OccupiedFinite, FS_RemoveElement, FS_CardinalityType
  <2>3. nconn = Cardinality(Occupied)
    BY DEF RegistryInv, RegistryExact
  <2> QED
    BY <1>3, <1>4, <2>1, <2>2, <2>3
<1>6. RegistryExact'
  <2>1. \A t \in Slots : listed'[t] = IF t \in Occupied' THEN 1 ELSE 0
    BY <1>1, <1>3, <1>4 DEF RegistryInv, RegistryExact, TypeOK
  <2>2. \A t \in Occupied' : connIndex'[t] = t
    BY <1>3 DEF CloseSlot, Initialize, Occupied, RegistryInv, RegistryExact, TypeOK
  <2> QED
    BY <1>5, <2>1, <2>2 DEF RegistryExact
<1>7. pc' \in {"accept", "send", "recv", "finish"} /\ cur' \in Slots /\ wfds' \subseteq Slots
  BY PositionType DEF CloseSlot, RegistryInv
<1>8. peer' \in [Peers -> {"off", "open", "closed", "reset"}] /\ inbox' \in [Peers -> Seq(Packets)]
  <2>1. <<>> \in Seq(Packets)
    OBVIOUS
  <2> QED
    BY <2>1, <1>1 DEF CloseSlot, RegistryInv, TypeOK
<1>9. /\ sock' \in [Slots -> Peers \cup {NoPeer}]
      /\ connIndex' \in [Slots -> Slots]
      /\ todc' \in [Slots -> BOOLEAN]
      /\ isAuth' \in [Slots -> BOOLEAN]
      /\ key' \in [Slots -> Keys \cup {NoKey}]
      /\ sendq' \in [Slots -> Seq(Messages)]
  <2>1. 0 \in Slots /\ <<>> \in Seq(Messages)
    BY ConstantsOK DEF Slots
  <2> QED
    BY <2>1 DEF CloseSlot, Initialize, RegistryInv, TypeOK
<1>10. /\ beat' \in [Slots -> {"due", "armed", "never"}]
       /\ outbuf' \in [Slots -> Messages \cup {NoMsg}]
       /\ listed' \in [Slots -> Nat]
       /\ backlog' \in Seq(Peers) /\ leaked' \subseteq Peers
  <2>1. Beat \in Messages
    BY DEF Beat, Messages
  <2> QED
    BY <1>4, <2>1 DEF CloseSlot, RegistryInv, TypeOK
<1> QED
  BY <1>5, <1>6, <1>7, <1>8, <1>9, <1>10 DEF RegistryInv, TypeOK

-------------------------------------------------------------------------------
LEMMA NextRegistry == RegistryInv /\ [Next]_vars => RegistryInv'
<1> SUFFICES ASSUME RegistryInv, [Next]_vars PROVE RegistryInv'
  OBVIOUS
<1> USE DEF netVars, connVars, sendVars, loopVars
<1>1. CASE Environment
  <2>1. UNCHANGED <<sock, connIndex, listed, nconn>>
    BY <1>1 DEF Environment, Connect, PeerClose, PeerReset, PeerSend, Expire
  <2> QED
    BY <1>1, <2>1, SameTable, EnvironmentType DEF RegistryInv
<1>2. CASE PassWithoutAccept \/ AcceptWhenFull
  <2>1. UNCHANGED <<sock, connIndex, listed, nconn>>
    BY <1>2 DEF PassWithoutAccept, AcceptWhenFull
  <2> QED
    BY <1>2, <2>1, SameTable, AcceptType DEF RegistryInv
<1>3. CASE \E s \in Slots : AcceptIntoSlot(s)
  BY <1>3, AcceptIntoSlotRegistry
<1>4. CASE SkipFreeSlot
  <2>1. TypeOK'
    BY <1>4, PositionType DEF SkipFreeSlot, RegistryInv, TypeOK
  <2> QED
    BY <1>4, <2>1, SameTable DEF SkipFreeSlot, RegistryInv
<1>5. CASE \E s \in Slots : SendStep(s)
  <2>1. UNCHANGED <<sock, connIndex, listed, nconn>>
    BY <1>5 DEF SendStep, SendNothing, Deliver, SendError
  <2> QED
    BY <1>5, <2>1, SameTable, SendType DEF RegistryInv
<1>6. CASE \E s \in Slots : RecvNothing(s) \/ RecvClosed(s) \/ RecvError(s)
  <2>1. PICK s \in Slots : RecvNothing(s) \/ RecvClosed(s) \/ RecvError(s)
    BY <1>6
  <2>2. GoTo("finish") /\ UNCHANGED <<netVars, connVars, beat, sendVars>>
    BY <2>1 DEF RecvNothing, RecvClosed, RecvError
  <2>3. todc' \in [Slots -> BOOLEAN]
    BY <2>1 DEF RecvNothing, RecvClosed, RecvError, Disconnect, RegistryInv, TypeOK
  <2>4. TypeOK'
    BY <2>2, <2>3, PositionType DEF RegistryInv, TypeOK
  <2> QED
    BY <2>2, <2>4, SameTable DEF RegistryInv
<1>7. CASE \E s \in Slots : Handle(s)
  BY <1>7, HandleType, SameTable DEF RegistryInv
<1>8. CASE \E s \in Slots : CloseSlot(s)
  BY <1>8, CloseSlotRegistry
<1>9. CASE \E s \in Slots : KeepSlot(s)
  BY <1>9, FinishType
<1>10. CASE UNCHANGED vars
  BY <1>10, SameTable DEF vars, RegistryInv, TypeOK
<1> QED
  BY <1>1, <1>2, <1>3, <1>4, <1>5, <1>6, <1>7, <1>8, <1>9, <1>10
     DEF Next, Thread, Accept, RecvStep

\* The types of the state hold in every reachable state.
THEOREM TypeCorrect == Spec => []TypeOK
<1>1. RegistryInv => TypeOK
  BY DEF RegistryInv
<1> QED
  BY InitRegistry, NextRegistry, <1>1, PTL DEF Spec

\* The compacted list of connections always holds every occupied slot exactly
\* once: however connections come and go, the append of AcceptConnection never
\* leaves the array and the compaction never loses a live connection.
THEOREM RegistryIsExact == Spec => []RegistryExact
<1>1. RegistryInv => RegistryExact
  BY DEF RegistryInv
<1> QED
  BY InitRegistry, NextRegistry, <1>1, PTL DEF Spec

-------------------------------------------------------------------------------
(* What a slot holds: its socket, its key, its messages, and when it is     *)
(* disconnected.                                                           *)

\* What every packet's handler has in common.
LEMMA HandleShape ==
  ASSUME NEW s \in Slots, TypeOK, Handle(s)
  PROVE  /\ cur = s /\ s \in Occupied
         /\ sock[s] \in Peers /\ peer[sock[s]] # "reset" /\ inbox[sock[s]] # <<>>
         /\ UNCHANGED <<backlog, peer, leaked, sock>>
         /\ \A t \in Slots \ {s} :
              isAuth'[t] = isAuth[t] /\ key'[t] = key[t] /\ outbuf'[t] = outbuf[t]
<1> USE DEF connVars, sendVars
<1>1. PICK kind : Take(s, kind)
  BY DEF Handle, IgnoreDoomed, RejectPacket, HandshakeAccept, HandshakeRefuse,
     HandshakeIgnore, ClientBeat, Update, Reply, ReplyStale, ReplyTooLarge, Broadcast,
     BroadcastTooLarge
<1>2. /\ cur = s /\ s \in Occupied
      /\ sock[s] \in Peers /\ peer[sock[s]] # "reset" /\ inbox[sock[s]] # <<>>
      /\ UNCHANGED <<backlog, peer, leaked, sock>>
  BY <1>1, HandleType DEF Take, At, Occupied, TypeOK
<1>3. CASE HandshakeAccept(s)
  BY <1>2, <1>3 DEF HandshakeAccept, Post, TypeOK
<1>4. CASE ~HandshakeAccept(s)
  <2>1. UNCHANGED <<isAuth, key>>
    BY <1>4 DEF Handle, IgnoreDoomed, RejectPacket, HandshakeRefuse,
       HandshakeIgnore, ClientBeat, Update, Reply, ReplyStale, ReplyTooLarge, Broadcast,
       BroadcastTooLarge
  <2>2. \A t \in Slots \ {s} : outbuf'[t] = outbuf[t]
    BY <1>4 DEF Handle, IgnoreDoomed, RejectPacket, HandshakeRefuse,
       HandshakeIgnore, ClientBeat, Update, Reply, ReplyStale, ReplyTooLarge, Broadcast,
       BroadcastTooLarge, Post, TypeOK
  <2> QED
    BY <1>2, <2>1, <2>2
<1> QED
  BY <1>3, <1>4

-------------------------------------------------------------------------------
(* Disconnection.                                                          *)

\* Nothing revives a slot that is to be disconnected.
LEMMA DoomedStep ==
  ASSUME TypeOK, Next, NEW s \in Slots, todc[s]
  PROVE  \/ sock'[s] = NoPeer
         \/ todc'[s] /\ isAuth'[s] = isAuth[s] /\ key'[s] = key[s]
<1> USE DEF netVars, connVars, sendVars, loopVars, TypeOK
<1>1. CASE Environment \/ Accept \/ SkipFreeSlot
  BY <1>1 DEF Environment, Connect, PeerClose, PeerReset, PeerSend, Expire,
     Accept, PassWithoutAccept, AcceptWhenFull, AcceptIntoSlot, SkipFreeSlot
<1>2. CASE \E t \in Slots : SendStep(t)
  BY <1>2 DEF SendStep, SendNothing, Deliver, SendError, Disconnect
<1>3. CASE \E t \in Slots : RecvNothing(t) \/ RecvClosed(t) \/ RecvError(t)
  BY <1>3 DEF RecvNothing, RecvClosed, RecvError, Disconnect
<1>4. CASE \E t \in Slots : Handle(t)
  <2>1. PICK t \in Slots : Handle(t)
    BY <1>4
  <2>2. CASE HandshakeAccept(t)
    BY <2>2 DEF HandshakeAccept
  <2>3. CASE ~HandshakeAccept(t)
    BY <2>1, <2>3 DEF Handle, IgnoreDoomed, RejectPacket, HandshakeRefuse,
       HandshakeIgnore, ClientBeat, Update, Reply, ReplyStale, ReplyTooLarge, Broadcast,
       BroadcastTooLarge, Disconnect
  <2> QED
    BY <2>2, <2>3
<1>5. CASE \E t \in Slots : KeepSlot(t)
  BY <1>5 DEF KeepSlot
<1>6. CASE \E t \in Slots : CloseSlot(t)
  BY <1>6 DEF CloseSlot, Initialize
<1> QED
  BY <1>1, <1>2, <1>3, <1>4, <1>5, <1>6 DEF Next, Thread, RecvStep

\* Once a slot is to be disconnected it never authenticates and is never
\* spared, whatever packets of it and of others are handled meanwhile.
THEOREM DoomedSlotsStayDoomed == Spec => DoomedStaysDoomed
<1>1. TypeOK /\ [Next]_vars =>
        [\A s \in Slots :
           todc[s] => \/ sock'[s] = NoPeer
                      \/ todc'[s] /\ isAuth'[s] = isAuth[s] /\ key'[s] = key[s]]_vars
  BY DoomedStep DEF vars
<1> QED
  BY <1>1, TypeCorrect, PTL DEF Spec, DoomedStaysDoomed
\* What a step that marks the slot of a connected peer has just read.
Offended(s) ==
  /\ inbox[sock[cur]] # <<>>
  /\ LET pkt == Head(inbox[sock[cur]]) IN
     IF isAuth[cur]
       THEN \/ pkt.kind = "broadcast"
            \/ cur = s /\ pkt.kind \in {"request", "invalid"}
       ELSE cur = s /\ pkt.kind # "heartbeat"

LEMMA OffenceStep ==
  ASSUME TypeOK, Next, NEW s \in Slots, ~todc[s], todc'[s], peer[sock[s]] = "open"
  PROVE  Offended(s)
<1> USE DEF netVars, connVars, sendVars, loopVars
<1>1. todc \in [Slots -> BOOLEAN]
  BY DEF TypeOK
<1>2. ~(Environment \/ Accept \/ SkipFreeSlot)
  BY DEF Environment, Connect, PeerClose, PeerReset, PeerSend, Expire,
     Accept, PassWithoutAccept, AcceptWhenFull, AcceptIntoSlot, SkipFreeSlot
<1>3. ~\E t \in Slots : KeepSlot(t) \/ CloseSlot(t)
  BY <1>1 DEF KeepSlot, CloseSlot, Initialize
<1>4. ASSUME NEW t \in Slots, SendStep(t) \/ RecvNothing(t) \/ RecvClosed(t) \/ RecvError(t)
      PROVE  FALSE
  <2>1. \/ peer[sock[t]] # "open" /\ Disconnect(t)
        \/ UNCHANGED todc
    BY <1>4 DEF SendStep, SendNothing, Deliver, SendError, RecvNothing, RecvClosed, RecvError
  <2> QED
    BY <1>1, <2>1 DEF Disconnect
<1>5. PICK t \in Slots : Handle(t)
  BY <1>2, <1>3, <1>4 DEF Next, Thread, RecvStep
<1>6. cur = t /\ inbox[sock[t]] # <<>>
  BY <1>5, HandleShape
<1>7. s = t \/ BroadcastTooLarge(t)
  BY <1>1, <1>5 DEF Handle, IgnoreDoomed, RejectPacket, HandshakeAccept, HandshakeRefuse,
     HandshakeIgnore, ClientBeat, Update, Reply, ReplyStale, ReplyTooLarge, Broadcast, Disconnect
<1>8. CASE BroadcastTooLarge(t)
  BY <1>6, <1>8 DEF BroadcastTooLarge, Take, Offended
<1>9. CASE RejectPacket(t) /\ s = t
  BY <1>6, <1>9 DEF RejectPacket, Take, Offended
<1>10. CASE HandshakeRefuse(t) /\ s = t
  BY <1>6, <1>10 DEF HandshakeRefuse, Take, Offended
<1>11. CASE ReplyTooLarge(t) /\ s = t
  BY <1>6, <1>11 DEF ReplyTooLarge, Take, Offended
<1> QED
  BY <1>5, <1>7, <1>8, <1>9, <1>10, <1>11 DEF Handle, IgnoreDoomed, HandshakeAccept,
     HandshakeIgnore, ClientBeat, Update, Reply, ReplyStale, Broadcast

\* No interleaving of peers, timers and slots disconnects a connected peer for
\* anything but its own packet or an oversized broadcast.
THEOREM OffendersAloneDisconnected == Spec => OnlyOffendersDisconnected
<1>1. TypeOK /\ [Next]_vars =>
        [\A s \in Slots :
           ~todc[s] /\ todc'[s] /\ peer[sock[s]] = "open" =>
             /\ inbox[sock[cur]] # <<>>
             /\ LET pkt == Head(inbox[sock[cur]]) IN
                IF isAuth[cur]
                  THEN \/ pkt.kind = "broadcast"
                       \/ cur = s /\ pkt.kind \in {"request", "invalid"}
                  ELSE cur = s /\ pkt.kind # "heartbeat"]_vars
  BY OffenceStep DEF vars, Offended
<1> QED
  BY <1>1, TypeCorrect, PTL DEF Spec, OnlyOffendersDisconnected

-------------------------------------------------------------------------------
(* Sockets.                                                                *)

\* A peer that is off has no socket anywhere.
OffIsNowhere ==
  \A p \in Peers : peer[p] = "off" =>
    /\ ~Held(p) /\ p \notin leaked
    /\ \A i \in 1 .. Len(backlog) : backlog[i] # p

SocketInv == TypeOK /\ SocketsApart /\ OffIsNowhere

\* A step that moves no socket and connects no peer.
LEMMA SameSockets ==
  ASSUME SocketInv, TypeOK', UNCHANGED <<sock, backlog, leaked>>,
         \A p \in Peers : peer'[p] = "off" => peer[p] = "off"
  PROVE  SocketInv'
BY DEF SocketInv, SocketsApart, OffIsNowhere, Held, Occupied

LEMMA ConnectSockets ==
  ASSUME NEW p \in Peers, SocketInv, Connect(p), TypeOK'
  PROVE  SocketInv'
<1>1. /\ backlog \in Seq(Peers) /\ peer[p] = "off"
      /\ backlog' = Append(backlog, p) /\ UNCHANGED <<sock, leaked>>
      /\ \A q \in Peers : peer'[q] = "off" => peer[q] = "off" /\ q # p
  BY DEF Connect, connVars, SocketInv, TypeOK
<1>2. /\ Len(backlog') = Len(backlog) + 1 /\ backlog'[Len(backlog) + 1] = p
      /\ \A i \in 1 .. Len(backlog) : backlog'[i] = backlog[i]
      /\ Len(backlog) \in Nat
  BY <1>1
<1>3. \A i \in 1 .. Len(backlog') : i \in 1 .. Len(backlog) \/ i = Len(backlog) + 1
  BY <1>2
<1>4. \A q : Held(q)' <=> Held(q)
  BY <1>1 DEF Held
<1>5. ~Held(p) /\ p \notin leaked /\ \A i \in 1 .. Len(backlog) : backlog[i] # p
  BY <1>1 DEF SocketInv, OffIsNowhere
<1>6. SocketsApart'
  BY <1>1, <1>2, <1>3, <1>4, <1>5 DEF SocketInv, SocketsApart, Occupied
<1>7. OffIsNowhere'
  BY <1>1, <1>2, <1>3, <1>4 DEF SocketInv, OffIsNowhere
<1> QED
  BY <1>6, <1>7 DEF SocketInv
LEMMA AcceptSockets ==
  ASSUME NEW s \in Slots, SocketInv, AcceptIntoSlot(s), TypeOK'
  PROVE  SocketInv'
<1> DEFINE q == Head(backlog)
<1>1. /\ backlog \in Seq(Peers) /\ backlog # <<>> /\ sock[s] = NoPeer
      /\ sock' = [sock EXCEPT ![s] = q] /\ backlog' = Tail(backlog)
      /\ UNCHANGED <<peer, leaked>>
      /\ sock \in [Slots -> Peers \cup {NoPeer}]
  BY DEF AcceptIntoSlot, FirstFree, SocketInv, TypeOK
<1>2. /\ Len(backlog) \in Nat \ {0} /\ q = backlog[1] /\ Len(backlog') = Len(backlog) - 1
      /\ \A i \in 1 .. Len(backlog') : i + 1 \in 1 .. Len(backlog) /\ backlog'[i] = backlog[i + 1]
  BY <1>1
<1>3. q \in Peers /\ q # NoPeer /\ ~Held(q) /\ q \notin leaked /\ peer[q] # "off"
  <2>1. 1 \in 1 .. Len(backlog) /\ q \in Peers
    BY <1>1, <1>2
  <2> QED
    BY <1>2, <2>1, ConstantsOK DEF SocketInv, SocketsApart, OffIsNowhere
<1>4. \A p \in Peers : Held(p)' => Held(p) \/ p = q
  BY <1>1 DEF Held
<1>5. \A t \in Slots : sock'[t] = IF t = s THEN q ELSE sock[t]
  BY <1>1
<1>6. \A t, u \in Occupied' : t # u => sock'[t] # sock'[u]
  BY <1>3, <1>5 DEF SocketInv, SocketsApart, Occupied, Held
<1>7. \A i \in 1 .. Len(backlog') : backlog'[i] \in Peers /\ backlog'[i] # q
  <2> SUFFICES ASSUME NEW i \in 1 .. Len(backlog') PROVE backlog'[i] \in Peers /\ backlog'[i] # q
    OBVIOUS
  <2>1. i + 1 \in 1 .. Len(backlog) /\ 1 \in 1 .. Len(backlog) /\ i + 1 # 1
    BY <1>2
  <2>2. backlog[i + 1] # backlog[1]
    BY <2>1 DEF SocketInv, SocketsApart
  <2> QED
    BY <1>1, <1>2, <2>1, <2>2
<1>8. \A i \in 1 .. Len(backlog') :
        (\A t \in Slots : sock'[t] # backlog'[i]) /\ backlog'[i] \notin leaked'
  BY <1>1, <1>2, <1>5, <1>7 DEF SocketInv, SocketsApart, Held
<1>9. \A i, j \in 1 .. Len(backlog') : i # j => backlog'[i] # backlog'[j]
  <2> SUFFICES ASSUME NEW i \in 1 .. Len(backlog'), NEW j \in 1 .. Len(backlog'), i # j
               PROVE  backlog'[i] # backlog'[j]
    OBVIOUS
  <2>1. i + 1 \in 1 .. Len(backlog) /\ j + 1 \in 1 .. Len(backlog) /\ i + 1 # j + 1
    BY <1>2
  <2> QED
    BY <1>2, <2>1 DEF SocketInv, SocketsApart
<1>10. \A p \in leaked' : ~Held(p)'
  BY <1>1, <1>3, <1>4 DEF SocketInv, SocketsApart, TypeOK
<1>11. OffIsNowhere'
  BY <1>1, <1>2, <1>3, <1>4 DEF SocketInv, OffIsNowhere
<1> QED
  BY <1>6, <1>8, <1>9, <1>10, <1>11 DEF SocketInv, SocketsApart, Held

LEMMA LeakSockets ==
  ASSUME SocketInv, AcceptWhenFull, TypeOK'
  PROVE  SocketInv'
<1>1. /\ leaked' = leaked \cup {backlog[i] : i \in 1 .. Len(backlog)}
      /\ backlog' = <<>> /\ UNCHANGED <<sock, peer>>
  BY DEF AcceptWhenFull, connVars
<1>2. Len(backlog') = 0
  BY <1>1
<1>3. SocketsApart'
  BY <1>1, <1>2 DEF SocketInv, SocketsApart, Occupied, Held
<1>4. OffIsNowhere'
  BY <1>1, <1>2 DEF SocketInv, OffIsNowhere, Held
<1> QED
  BY <1>3, <1>4 DEF SocketInv

LEMMA CloseSockets ==
  ASSUME NEW s \in Slots, SocketInv, CloseSlot(s), TypeOK'
  PROVE  SocketInv'
<1> PICK q : q = sock[s]
  OBVIOUS
<1>1. /\ sock' = [sock EXCEPT ![s] = NoPeer] /\ UNCHANGED <<backlog, leaked>>
      /\ q \in Peers /\ q # NoPeer
      /\ peer' = [peer EXCEPT ![q] = "off"]
      /\ sock \in [Slots -> Peers \cup {NoPeer}]
      /\ peer \in [Peers -> {"off", "open", "closed", "reset"}]
  BY DEF CloseSlot, Initialize, At, SocketInv, TypeOK
<1>2. Held(q) /\ \A t \in Slots \ {s} : sock[t] # q
  BY <1>1 DEF SocketInv, SocketsApart, Occupied, Held
<1>3. ~Held(q)' /\ \A p \in Peers : Held(p)' => Held(p)
  BY <1>1, <1>2, ConstantsOK DEF Held
<1>4. backlog \in Seq(Peers) /\ \A i \in 1 .. Len(backlog) : backlog[i] \in Peers
  BY DEF SocketInv, TypeOK
<1>5. SocketsApart'
  <2>1. \A t, u \in Occupied' : t # u => sock'[t] # sock'[u]
    BY <1>1 DEF SocketInv, SocketsApart, Occupied
  <2>2. \A i \in 1 .. Len(backlog) : ~Held(backlog[i])'
    <3> SUFFICES ASSUME NEW i \in 1 .. Len(backlog)
                 PROVE  \A t \in Slots : sock'[t] # backlog[i]
      BY <1>1 DEF Held
    <3> QED
      BY <1>3, <1>4 DEF SocketInv, SocketsApart, Held
  <2>3. \A p \in leaked : ~Held(p)'
    BY <1>3 DEF SocketInv, SocketsApart, TypeOK
  <2> QED
    BY <1>1, <2>1, <2>2, <2>3 DEF SocketInv, SocketsApart, Held
<1>6. OffIsNowhere'
  <2>1. q \notin leaked /\ \A i \in 1 .. Len(backlog) : backlog[i] # q
    BY <1>2 DEF SocketInv, SocketsApart
  <2> QED
    BY <1>1, <1>3, <2>1 DEF SocketInv, OffIsNowhere
<1> QED
  BY <1>5, <1>6 DEF SocketInv

LEMMA NextSockets == SocketInv /\ TypeOK' /\ [Next]_vars => SocketInv'
<1> SUFFICES ASSUME SocketInv, TypeOK', [Next]_vars PROVE SocketInv'
  OBVIOUS
<1> USE DEF netVars, connVars, sendVars, loopVars
<1>1. peer \in [Peers -> {"off", "open", "closed", "reset"}] /\ TypeOK
  BY DEF SocketInv, TypeOK
<1>2. CASE \E p \in Peers : Connect(p)
  BY <1>2, ConnectSockets
<1>3. CASE \/ \E p \in Peers : PeerClose(p) \/ PeerReset(p)
           \/ \E p \in Peers, pkt \in Packets : PeerSend(p, pkt)
           \/ \E s \in Slots : Expire(s)
           \/ PassWithoutAccept \/ SkipFreeSlot
           \/ UNCHANGED vars
  BY <1>1, <1>3, SameSockets DEF PeerClose, PeerReset, PeerSend, Expire, PassWithoutAccept,
     SkipFreeSlot, vars
<1>4. CASE \E s \in Slots : AcceptIntoSlot(s)
  BY <1>4, AcceptSockets
<1>5. CASE AcceptWhenFull
  BY <1>5, LeakSockets
<1>6. CASE \E s \in Slots : SendStep(s) \/ RecvNothing(s) \/ RecvClosed(s) \/ RecvError(s)
                         \/ KeepSlot(s)
  BY <1>1, <1>6, SameSockets DEF SendStep, SendNothing, Deliver, SendError, RecvNothing,
     RecvClosed, RecvError, KeepSlot
<1>7. CASE \E s \in Slots : Handle(s)
  BY <1>1, <1>7, SameSockets, HandleShape
<1>8. CASE \E s \in Slots : CloseSlot(s)
  BY <1>8, CloseSockets
<1> QED
  BY <1>2, <1>3, <1>4, <1>5, <1>6, <1>7, <1>8 DEF Next, Environment, Thread, Accept, RecvStep

\* A socket is never in two places: accepting, leaking and closing cannot make
\* two slots share a battle server.
THEOREM SocketsStayApart == Spec => []SocketsApart
<1>1. Init /\ TypeOK => SocketInv
  <2> SUFFICES ASSUME Init, TypeOK PROVE SocketInv
    OBVIOUS
  <2>1. Occupied = {} /\ Len(backlog) = 0 /\ leaked = {} /\ \A p \in Peers : ~Held(p)
    BY ConstantsOK DEF Init, Occupied, Held
  <2> QED
    BY <2>1 DEF SocketInv, SocketsApart, OffIsNowhere
<1>2. SocketInv => SocketsApart
  BY DEF SocketInv
<1> QED
  BY <1>1, <1>2, NextSockets, TypeCorrect, PTL DEF Spec
-------------------------------------------------------------------------------
(* Free slots.                                                             *)

\* A step that empties no slot, marks and keys only occupied ones, and posts
\* only to occupied ones.
LEMMA FreeSlotStep ==
  ASSUME FreeSlotClean, TypeOK, Next
  PROVE  FreeSlotClean'
<1> USE DEF netVars, connVars, sendVars, loopVars, FreeSlotClean, Occupied
<1>1. CASE Environment \/ SkipFreeSlot \/ PassWithoutAccept \/ AcceptWhenFull
  BY <1>1 DEF Environment, Connect, PeerClose, PeerReset, PeerSend, Expire,
     SkipFreeSlot, PassWithoutAccept, AcceptWhenFull
<1>2. CASE \E s \in Slots : AcceptIntoSlot(s)
  <2>1. PICK s \in Slots : AcceptIntoSlot(s)
    BY <1>2
  <2>2. /\ sock' = [sock EXCEPT ![s] = Head(backlog)]
        /\ UNCHANGED <<todc, isAuth, key, sendq, outbuf>>
        /\ sock[s] = NoPeer
    BY <2>1 DEF AcceptIntoSlot, FirstFree
  <2>3. \A t \in Slots : sock'[t] = NoPeer => sock[t] = NoPeer
    BY <2>2 DEF TypeOK
  <2> QED
    BY <2>2, <2>3
<1>3. CASE \E s \in Slots : SendStep(s) \/ RecvNothing(s) \/ RecvClosed(s) \/ RecvError(s)
                         \/ KeepSlot(s)
  <2>1. PICK s \in Slots : SendStep(s) \/ RecvNothing(s) \/ RecvClosed(s) \/ RecvError(s)
                         \/ KeepSlot(s)
    BY <1>3
  <2>2. /\ sock[s] # NoPeer
        /\ UNCHANGED <<sock, isAuth, key>>
        /\ \A t \in Slots \ {s} : todc'[t] = todc[t] /\ sendq'[t] = sendq[t] /\ outbuf'[t] = outbuf[t]
    BY <2>1 DEF SendStep, SendNothing, Deliver, SendError, RecvNothing, RecvClosed, RecvError,
       KeepSlot, Disconnect, Post, At, TypeOK
  <2> QED
    BY <2>2
<1>4. CASE \E s \in Slots : Handle(s)
  <2>1. PICK s \in Slots : Handle(s)
    BY <1>4
  <2>2. /\ s \in Occupied /\ sock' = sock
        /\ \A t \in Slots \ {s} :
              isAuth'[t] = isAuth[t] /\ key'[t] = key[t] /\ outbuf'[t] = outbuf[t]
    BY <2>1, HandleShape
  <2>3. \A t \in Slots \ Occupied : ~todc'[t]
    BY <2>1, <2>2 DEF Handle, IgnoreDoomed, RejectPacket, HandshakeAccept, HandshakeRefuse,
       HandshakeIgnore, ClientBeat, Update, Reply, ReplyStale, ReplyTooLarge, Broadcast,
       BroadcastTooLarge, Disconnect, TypeOK
  <2>4. \A t \in Slots \ Occupied : sendq'[t] = sendq[t]
    BY <2>1, <2>2 DEF Handle, IgnoreDoomed, RejectPacket, HandshakeAccept, HandshakeRefuse,
       HandshakeIgnore, ClientBeat, Update, Reply, ReplyStale, ReplyTooLarge, Broadcast,
       BroadcastTooLarge, Post, TypeOK
  <2> QED
    BY <2>2, <2>3, <2>4
<1>5. CASE \E s \in Slots : CloseSlot(s)
  <2>1. PICK s \in Slots : CloseSlot(s)
    BY <1>5
  <2>2. /\ ~todc'[s] /\ ~isAuth'[s] /\ key'[s] = NoKey /\ sendq'[s] = <<>> /\ outbuf'[s] = Beat
        /\ \A t \in Slots \ {s} :
             /\ sock'[t] = sock[t] /\ todc'[t] = todc[t] /\ isAuth'[t] = isAuth[t]
             /\ key'[t] = key[t] /\ sendq'[t] = sendq[t] /\ outbuf'[t] = outbuf[t]
    BY <2>1 DEF CloseSlot, Initialize, TypeOK
  <2> QED
    BY <2>2
<1> QED
  BY <1>1, <1>2, <1>3, <1>4, <1>5 DEF Next, Thread, Accept, RecvStep

\* Nothing of a client outlives it in its slot, wherever in the pass it left.
THEOREM FreeSlotsAreClean == Spec => []FreeSlotClean
<1>1. Init => FreeSlotClean
  BY DEF Init, FreeSlotClean
<1>2. TypeOK /\ FreeSlotClean /\ [Next]_vars => FreeSlotClean'
  BY FreeSlotStep DEF vars, netVars, connVars, sendVars, loopVars, FreeSlotClean, Occupied
<1> QED
  BY <1>1, <1>2, TypeCorrect, PTL DEF Spec
-------------------------------------------------------------------------------
(* Keys.                                                                   *)

\* Only the handshake sets a key and only closing the slot clears it.
LEMMA KeyStep ==
  ASSUME TypeOK, OneConnectionPerKey, Next
  PROVE  OneConnectionPerKey'
<1> USE DEF netVars, connVars, sendVars, loopVars
<1>1. CASE \E s \in Slots : HandshakeAccept(s)
  <2>1. PICK s \in Slots : HandshakeAccept(s)
    BY <1>1
  <2>2. PICK k : /\ k # NoKey /\ Unseen(k)
                 /\ key' = [key EXCEPT ![s] = k] /\ isAuth' = [isAuth EXCEPT ![s] = TRUE]
    BY <2>1 DEF HandshakeAccept
  <2>3. k \in NulKeys \/ \A t \in Slots : key[t] # k
    BY <2>2 DEF Unseen
  <2>4. /\ key'[s] = k /\ isAuth'[s]
        /\ \A t \in Slots \ {s} : key'[t] = key[t] /\ isAuth'[t] = isAuth[t]
    BY <2>2 DEF TypeOK
  <2> QED
    BY <2>2, <2>3, <2>4 DEF OneConnectionPerKey
<1>2. CASE \E s \in Slots : CloseSlot(s)
  <2>1. PICK s \in Slots : CloseSlot(s)
    BY <1>2
  <2>2. /\ key'[s] = NoKey /\ ~isAuth'[s]
        /\ \A t \in Slots \ {s} : key'[t] = key[t] /\ isAuth'[t] = isAuth[t]
    BY <2>1 DEF CloseSlot, Initialize, TypeOK
  <2> QED
    BY <2>2 DEF OneConnectionPerKey
<1>3. CASE ~\E s \in Slots : HandshakeAccept(s) \/ CloseSlot(s)
  <2>1. UNCHANGED <<key, isAuth>>
    BY <1>3 DEF Next, Thread, Accept, RecvStep, Environment, Connect, PeerClose, PeerReset,
       PeerSend, Expire, PassWithoutAccept, AcceptWhenFull, AcceptIntoSlot, SkipFreeSlot,
       SendStep, SendNothing, Deliver, SendError, RecvNothing, RecvClosed, RecvError, KeepSlot,
       Handle, IgnoreDoomed, RejectPacket, HandshakeRefuse, HandshakeIgnore, ClientBeat,
       Update, Reply, ReplyStale, ReplyTooLarge, Broadcast, BroadcastTooLarge
  <2> QED
    BY <2>1 DEF OneConnectionPerKey
<1> QED
  BY <1>1, <1>2, <1>3

\* At most one live connection per battle server key, among the keys the
\* comparison can tell: connecting, closing and connecting again never doubles one.
THEOREM KeysConnectOnce == Spec => []OneConnectionPerKey
<1>1. Init => OneConnectionPerKey
  BY DEF Init, OneConnectionPerKey
<1>2. TypeOK /\ OneConnectionPerKey /\ [Next]_vars => OneConnectionPerKey'
  BY KeyStep DEF vars, connVars, OneConnectionPerKey
<1> QED
  BY <1>1, <1>2, TypeCorrect, PTL DEF Spec
-------------------------------------------------------------------------------
(* Messages.                                                               *)

\* A message fit to wait in slot s.
Fits(s, m) == m # NoMsg /\ m.kind \in {"auth", "reply"} => m.about = sock[s] /\ isAuth[s]

Waiting(s) == {sendq[s][i] : i \in 1 .. Len(sendq[s])} \cup {outbuf[s]}

LEMMA RepliesAsFits == RepliesReachTheirPeer <=> \A s \in Slots : \A m \in Waiting(s) : Fits(s, m)
BY DEF RepliesReachTheirPeer, Waiting, Fits

LEMMA AppendAdds ==
  ASSUME NEW S, NEW q \in Seq(S), NEW m \in S, NEW i \in 1 .. Len(Append(q, m))
  PROVE  Append(q, m)[i] = m \/ \E j \in 1 .. Len(q) : Append(q, m)[i] = q[j]
<1>1. Len(q) \in Nat /\ Len(Append(q, m)) = Len(q) + 1
  OBVIOUS
<1>2. CASE i = Len(q) + 1
  BY <1>2
<1>3. CASE i \in 1 .. Len(q)
  BY <1>3
<1> QED
  BY <1>1, <1>2, <1>3

LEMMA TailDrops ==
  ASSUME NEW S, NEW q \in Seq(S), q # <<>>, NEW i \in 1 .. Len(Tail(q))
  PROVE  \E j \in 1 .. Len(q) : Tail(q)[i] = q[j]
<1>1. i + 1 \in 1 .. Len(q) /\ Tail(q)[i] = q[i + 1]
  OBVIOUS
<1> QED
  BY <1>1

\* Posting a fitting message to a slot keeps its messages fitting.
LEMMA PostFits ==
  ASSUME NEW s \in Slots, NEW m \in Messages, TypeOK, RepliesReachTheirPeer,
         sock' = sock, isAuth' = isAuth \/ isAuth' = [isAuth EXCEPT ![s] = TRUE],
         Post(s, m), Fits(s, m)'
  PROVE  RepliesReachTheirPeer'
<1>1. \A t \in Slots \ {s} : sendq'[t] = sendq[t] /\ outbuf'[t] = outbuf[t]
  BY DEF Post, TypeOK
<1>2. /\ sendq[s] \in Seq(Messages)
      /\ sendq'[s] = Append(sendq[s], m) /\ outbuf'[s] = m
  BY DEF Post, TypeOK
<1>3. ASSUME NEW t \in Slots, NEW n \in Waiting(t)' PROVE n \in Waiting(t) \/ (t = s /\ n = m)
  <2>1. CASE t # s
    <3>1. Waiting(t)' = Waiting(t)
      BY <1>1, <2>1 DEF Waiting
    <3> QED
      BY <1>3, <3>1
  <2>2. CASE t = s
    <3>1. \A i \in 1 .. Len(sendq'[s]) : sendq'[s][i] = m \/ sendq'[s][i] \in Waiting(s)
      BY <1>2, AppendAdds DEF Waiting
    <3> QED
      BY <1>2, <1>3, <2>2, <3>1 DEF Waiting
  <2> QED
    BY <2>1, <2>2
<1>4. ASSUME NEW t \in Slots, NEW n, Fits(t, n) PROVE Fits(t, n)'
  BY <1>4 DEF Fits, TypeOK
<1>5. \A t \in Slots : \A n \in Waiting(t)' : Fits(t, n)'
  BY <1>3, <1>4, RepliesAsFits
<1> QED
  BY <1>5 DEF RepliesReachTheirPeer, Waiting, Fits

\* A step that only removes messages from the queues.
LEMMA FewerFit ==
  ASSUME TypeOK, RepliesReachTheirPeer, UNCHANGED <<sock, isAuth>>,
         \A t \in Slots : Waiting(t)' \subseteq Waiting(t)
  PROVE  RepliesReachTheirPeer'
<1>1. \A t \in Slots : \A n \in Waiting(t)' : Fits(t, n)'
  BY RepliesAsFits DEF Fits
<1> QED
  BY <1>1 DEF RepliesReachTheirPeer, Waiting, Fits

LEMMA HandleFits ==
  ASSUME NEW s \in Slots, TypeOK, RepliesReachTheirPeer, Handle(s)
  PROVE  RepliesReachTheirPeer'
<1> USE DEF connVars, sendVars
<1>1. sock' = sock /\ sock[s] \in Peers
  BY HandleShape
<1>2. \A kind \in {"auth", "reply", "broadcast"} : [kind |-> kind, about |-> sock[s]] \in Messages
  BY <1>1 DEF Messages
<1>3. CASE IgnoreDoomed(s) \/ RejectPacket(s) \/ HandshakeRefuse(s) \/ HandshakeIgnore(s)
           \/ ClientBeat(s) \/ Update(s)
  BY <1>3, FewerFit DEF IgnoreDoomed, RejectPacket, HandshakeRefuse, HandshakeIgnore,
     ClientBeat, Update, Waiting
<1>4. CASE HandshakeAccept(s)
  <2>1. /\ isAuth' = [isAuth EXCEPT ![s] = TRUE]
        /\ Post(s, [kind |-> "auth", about |-> sock[s]])
    BY <1>4 DEF HandshakeAccept
  <2>2. Fits(s, [kind |-> "auth", about |-> sock[s]])'
    BY <1>1, <2>1 DEF Fits, TypeOK
  <2> QED
    BY <1>1, <1>2, <2>1, <2>2, PostFits
<1>5. CASE Reply(s)
  <2>1. /\ isAuth[s] /\ isAuth' = isAuth
        /\ Post(s, [kind |-> "reply", about |-> sock[s]])
    BY <1>5 DEF Reply
  <2>2. Fits(s, [kind |-> "reply", about |-> sock[s]])'
    BY <1>1, <2>1 DEF Fits
  <2> QED
    BY <1>1, <1>2, <2>1, <2>2, PostFits
<1>6. CASE ReplyStale(s) /\ outbuf[s] = NoMsg
  BY <1>6, FewerFit DEF ReplyStale, Waiting
<1>7. CASE ReplyStale(s) /\ outbuf[s] # NoMsg
  <2>1. outbuf[s] \in Messages /\ isAuth' = isAuth /\ Post(s, outbuf[s])
    BY <1>7 DEF ReplyStale, TypeOK
  <2>2. PICK m : m = outbuf[s]
    OBVIOUS
  <2>3. Fits(s, m)
    BY <2>2, RepliesAsFits DEF Waiting
  <2>4. Fits(s, m)'
    BY <1>1, <2>1, <2>3 DEF Fits
  <2> QED
    BY <1>1, <2>1, <2>2, <2>4, PostFits<1>8. CASE ReplyTooLarge(s) \/ BroadcastTooLarge(s)
  <2>1. PICK m : /\ outbuf' = [outbuf EXCEPT ![s] = m] /\ UNCHANGED <<sendq, isAuth>>
                 /\ m.about = sock[s] /\ isAuth[s]
    BY <1>8 DEF ReplyTooLarge, BroadcastTooLarge
  <2>2. ASSUME NEW t \in Slots, NEW n \in Waiting(t)' PROVE n \in Waiting(t) \/ (t = s /\ n = m)
    <3>1. outbuf'[t] = IF t = s THEN m ELSE outbuf[t]
      BY <2>1 DEF TypeOK
    <3>2. Waiting(t)' = {sendq[t][i] : i \in 1 .. Len(sendq[t])} \cup {outbuf'[t]}
      BY <2>1 DEF Waiting
    <3> QED
      BY <2>2, <3>1, <3>2 DEF Waiting
  <2>3. \A t \in Slots : \A n \in Waiting(t)' : Fits(t, n)'
    BY <1>1, <2>1, <2>2, RepliesAsFits DEF Fits
  <2> QED
    BY <2>3 DEF RepliesReachTheirPeer, Waiting, Fits
<1>9. CASE Broadcast(s)
  <2>1. PICK m \in Messages :
          /\ m.kind = "broadcast" /\ isAuth' = isAuth
          /\ outbuf' = [outbuf EXCEPT ![s] = m]
          /\ sendq' = [t \in Slots |->
                         IF sock[t] # NoPeer THEN Append(sendq[t], m) ELSE sendq[t]]
    BY <1>2, <1>9 DEF Broadcast
  <2>2. ASSUME NEW t \in Slots, NEW n \in Waiting(t)' PROVE n \in Waiting(t) \/ n = m
    <3>1. sendq[t] \in Seq(Messages) /\ outbuf'[t] \in {outbuf[t], m}
      BY <2>1 DEF TypeOK
    <3>2. sendq'[t] = sendq[t] \/ sendq'[t] = Append(sendq[t], m)
      BY <2>1
    <3>3. ASSUME NEW i \in 1 .. Len(sendq'[t]) PROVE sendq'[t][i] = m \/ sendq'[t][i] \in Waiting(t)
      <4>1. CASE sendq'[t] = sendq[t]
        BY <4>1, <3>3 DEF Waiting
      <4>2. CASE sendq'[t] = Append(sendq[t], m)
        BY <4>2, <3>1, <3>3, AppendAdds DEF Waiting
      <4> QED
        BY <3>2, <4>1, <4>2
    <3> QED
      BY <2>2, <3>1, <3>3 DEF Waiting
  <2>3. \A t \in Slots : \A n \in Waiting(t)' : Fits(t, n)'
    BY <1>1, <2>1, <2>2, RepliesAsFits DEF Fits
  <2> QED
    BY <2>3 DEF RepliesReachTheirPeer, Waiting, Fits
<1> QED
  BY <1>3, <1>4, <1>5, <1>6, <1>7, <1>8, <1>9 DEF Handle

LEMMA ReplyStep ==
  ASSUME TypeOK, FreeSlotClean, RepliesReachTheirPeer, Next
  PROVE  RepliesReachTheirPeer'
<1> USE DEF netVars, connVars, sendVars, loopVars
<1>1. CASE Environment \/ SkipFreeSlot \/ PassWithoutAccept \/ AcceptWhenFull
  BY <1>1, FewerFit DEF Environment, Connect, PeerClose, PeerReset, PeerSend, Expire,
     SkipFreeSlot, PassWithoutAccept, AcceptWhenFull, Waiting
<1>2. CASE \E s \in Slots : AcceptIntoSlot(s)
  <2>1. PICK s \in Slots : AcceptIntoSlot(s)
    BY <1>2
  <2>2. /\ sock' = [sock EXCEPT ![s] = Head(backlog)]
        /\ UNCHANGED <<isAuth, sendq, outbuf>>
        /\ sock[s] = NoPeer
    BY <2>1 DEF AcceptIntoSlot, FirstFree
  <2>3. sendq[s] = <<>> /\ outbuf[s] \in {NoMsg, Beat}
    BY <2>2 DEF FreeSlotClean, Occupied
  <2>4. ASSUME NEW t \in Slots, NEW m \in Waiting(t) PROVE Fits(t, m)'
    <3>1. CASE t = s
      BY <2>3, <2>4, <3>1 DEF Waiting, Fits, Beat
    <3>2. CASE t # s
      BY <2>2, <2>4, <3>2, RepliesAsFits DEF Fits, TypeOK
    <3> QED
      BY <3>1, <3>2
  <2> QED
    BY <2>2, <2>4 DEF RepliesReachTheirPeer, Waiting, Fits
<1>3. CASE \E s \in Slots : SendNothing(s) \/ SendError(s) \/ RecvNothing(s) \/ RecvClosed(s)
                         \/ RecvError(s)
  BY <1>3, FewerFit DEF SendNothing, SendError, RecvNothing, RecvClosed, RecvError, Waiting
<1>4. CASE \E s \in Slots : Deliver(s)
  <2>1. PICK s \in Slots : Deliver(s)
    BY <1>4
  <2>2. /\ sendq[s] \in Seq(Messages) /\ sendq[s] # <<>>
        /\ sendq' = [sendq EXCEPT ![s] = Tail(@)] /\ UNCHANGED <<sock, isAuth, outbuf>>
    BY <2>1 DEF Deliver, TypeOK
  <2>3. ASSUME NEW t \in Slots, NEW n \in Waiting(t)' PROVE n \in Waiting(t)
    <3>1. CASE t = s
      BY <2>2, <2>3, <3>1, TailDrops DEF Waiting, TypeOK
    <3>2. CASE t # s
      BY <2>2, <2>3, <3>2 DEF Waiting, TypeOK
    <3> QED
      BY <3>1, <3>2
  <2> QED
    BY <2>2, <2>3, FewerFit
<1>5. CASE \E s \in Slots : Handle(s)
  BY <1>5, HandleFits
<1>6. CASE \E s \in Slots : CloseSlot(s)
  <2>1. PICK s \in Slots : CloseSlot(s)
    BY <1>6
  <2>2. /\ sendq'[s] = <<>> /\ outbuf'[s] = Beat
        /\ \A t \in Slots \ {s} :
             /\ sock'[t] = sock[t] /\ isAuth'[t] = isAuth[t]
             /\ sendq'[t] = sendq[t] /\ outbuf'[t] = outbuf[t]
    BY <2>1 DEF CloseSlot, Initialize, TypeOK
  <2>3. ASSUME NEW t \in Slots, NEW m \in Waiting(t)' PROVE Fits(t, m)'
    <3>1. CASE t = s
      BY <2>2, <2>3, <3>1 DEF Waiting, Fits, Beat
    <3>2. CASE t # s
      BY <2>2, <2>3, <3>2, RepliesAsFits DEF Waiting, Fits
    <3> QED
      BY <3>1, <3>2
  <2> QED
    BY <2>3 DEF RepliesReachTheirPeer, Waiting, Fits
<1>7. CASE \E s \in Slots : KeepSlot(s)
  <2>1. PICK s \in Slots : KeepSlot(s)
    BY <1>7
  <2>2. UNCHANGED <<sock, isAuth>> /\ Beat \in Messages /\ Fits(s, Beat)'
    BY <2>1 DEF KeepSlot, Fits, Beat, Messages
  <2>3. CASE beat[s] = "due"
    <3>1. Post(s, Beat)
      BY <2>1, <2>3 DEF KeepSlot
    <3> QED
      BY <2>2, <3>1, PostFits
  <2>4. CASE beat[s] # "due"
    BY <2>1, <2>2, <2>4, FewerFit DEF KeepSlot, Waiting
  <2> QED
    BY <2>3, <2>4
<1> QED
  BY <1>1, <1>2, <1>3, <1>4, <1>5, <1>6, <1>7 DEF Next, Thread, Accept, SendStep, RecvStep

\* No answer ever waits in a slot for a peer other than the one that caused it,
\* however slots change hands between the request and the send.
THEOREM RepliesAreOwned == Spec => []RepliesReachTheirPeer
<1>1. Init => RepliesReachTheirPeer
  BY DEF Init, RepliesReachTheirPeer
<1>2. UNCHANGED vars => (RepliesReachTheirPeer <=> RepliesReachTheirPeer')
  BY DEF vars, connVars, sendVars, RepliesReachTheirPeer
<1>3. TypeOK /\ FreeSlotClean /\ RepliesReachTheirPeer /\ [Next]_vars => RepliesReachTheirPeer'
  BY <1>2, ReplyStep
<1> QED
  BY <1>1, <1>3, TypeCorrect, FreeSlotsAreClean, PTL DEF Spec

-------------------------------------------------------------------------------
(* The table implements ClientTable.                                       *)

TableInv == TypeOK /\ SocketsApart /\ FreeSlotClean /\ OneConnectionPerKey

\* Below its limit the table has a slot to spare: there are as many occupied
\* slots as connected peers.
LEMMA RoomInTable ==
  ASSUME NEW s \in Slots \ Occupied
  PROVE  Cardinality(Connected) < ClientLimit
<1> DEFINE socket == [t \in Occupied |-> sock[t]]
<1>1. socket \in Surjection(Occupied, Connected)
  BY DEF Surjection, Connected
<1>2. Cardinality(Connected) <= Cardinality(Occupied) /\ IsFiniteSet(Connected)
  <2> HIDE DEF socket
  <2> QED
    BY <1>1, OccupiedFinite, FS_Surjection
<1>3. Cardinality(Slots) = ClientLimit
  BY ConstantsOK, FS_Interval DEF Slots
<1>4. Occupied \in SUBSET Slots /\ Occupied # Slots
  BY DEF Occupied
<1>5. Cardinality(Occupied) <= Cardinality(Slots) /\ Cardinality(Occupied) # Cardinality(Slots)
  BY <1>4, OccupiedFinite, FS_Subset
<1>6. Cardinality(Connected) \in Nat /\ Cardinality(Occupied) \in Nat
  BY <1>2, OccupiedFinite, FS_CardinalityType
<1> QED
  BY <1>2, <1>3, <1>5, <1>6, ConstantsOK

\* A step that moves no socket and sets no key condemns some peers, or none.
LEMMA CondemnsSome ==
  ASSUME TableInv, UNCHANGED <<sock, isAuth, key>>, \A t \in Slots : todc[t] => todc'[t]
  PROVE  Table!Doom
<1>1. Connected' = Connected /\ Logins' = Logins
  BY DEF Connected, Logins, Occupied
<1>2. Doomed \subseteq Doomed' /\ Doomed' \subseteq Connected
  BY DEF Connected, Doomed, Occupied
<1> QED
  BY <1>1, <1>2 DEF Table!Doom

\* A connection taken from the backlog is a new client, without a login.
LEMMA AcceptAdmits ==
  ASSUME TableInv, NEW s \in Slots, AcceptIntoSlot(s)
  PROVE  \E p \in Peers : Table!Admit(p)
<1> PICK p : p = Head(backlog)
  OBVIOUS
<1>1. /\ p \in Peers /\ p # NoPeer /\ ~Held(p)
      /\ sock[s] = NoPeer /\ sock' = [sock EXCEPT ![s] = p]
      /\ UNCHANGED <<isAuth, key, todc>>
  <2>1. backlog \in Seq(Peers) /\ backlog # <<>>
    BY DEF AcceptIntoSlot, TableInv, TypeOK
  <2>2. 1 \in 1 .. Len(backlog) /\ p = backlog[1] /\ p \in Peers
    BY <2>1
  <2>3. ~Held(p)
    BY <2>2 DEF TableInv, SocketsApart
  <2> QED
    BY <2>2, <2>3, ConstantsOK DEF AcceptIntoSlot, FirstFree
<1>2. sock \in [Slots -> Peers \cup {NoPeer}]
  BY DEF TableInv, TypeOK
<1>3. Occupied' = Occupied \cup {s} /\ s \notin Occupied
  BY <1>1, <1>2 DEF Occupied
<1>4. \A t \in Occupied : sock'[t] = sock[t]
  BY <1>1, <1>2, <1>3 DEF Occupied
<1>5. sock'[s] = p
  BY <1>1, <1>2
<1>6. ~todc[s] /\ ~isAuth[s]
  BY <1>3 DEF TableInv, FreeSlotClean
<1>7. Connected' = Connected \cup {p} /\ p \notin Connected
  BY <1>1, <1>3, <1>4, <1>5 DEF Connected, Held, Occupied
<1>8. Logins' = Logins
  <2>1. {t \in Occupied' : isAuth'[t]} = {t \in Occupied : isAuth[t]}
    BY <1>1, <1>3, <1>6
  <2> QED
    BY <1>1, <1>4, <2>1 DEF Logins
<1>9. Doomed' = Doomed
  <2>1. {t \in Occupied' : todc'[t]} = {t \in Occupied : todc[t]}
    BY <1>1, <1>3, <1>6
  <2> QED
    BY <1>4, <2>1 DEF Doomed
<1>10. Cardinality(Connected) < ClientLimit
  BY <1>3, RoomInTable
<1>11. Table!Admit(p)  \* Table!Cardinality is the Cardinality of FiniteSets
  BY <1>7, <1>8, <1>9, <1>10 DEF Table!Admit, Table!Cardinality, Cardinality
<1> QED
  BY <1>1, <1>11

\* A handshake that is accepted logs a client in that had no login yet and is not
\* doomed, with a key that nobody else is logged in with.
LEMMA HandshakeLogsIn ==
  ASSUME TableInv, NEW s \in Slots, HandshakeAccept(s)
  PROVE  \E p \in Peers, k \in Keys : Table!Authenticate(p, k)
<1> PICK p : p = sock[s]
  OBVIOUS
<1> PICK k : k = Head(inbox[sock[s]]).key
  OBVIOUS
<1>1. /\ k # NoKey /\ Unseen(k)
      /\ key' = [key EXCEPT ![s] = k] /\ isAuth' = [isAuth EXCEPT ![s] = TRUE]
      /\ ~todc[s] /\ ~isAuth[s]
      /\ UNCHANGED <<sock, todc>>
      /\ Take(s, "handshake")
  BY DEF HandshakeAccept
<1>2. p \in Peers /\ k \in Keys
  <2>1. p \in Peers /\ Head(inbox[sock[s]]) \in Packets
    BY <1>1, TakeType DEF TableInv
  <2>2. k \in Keys \cup {NoKey}
    BY <2>1 DEF Packets
  <2> QED
    BY <1>1, <2>1, <2>2
<1>3. s \in Occupied /\ \A t \in Occupied : sock[t] = p => t = s
  BY <1>2, ConstantsOK DEF TableInv, SocketsApart, Occupied
<1>4. /\ key'[s] = k /\ isAuth'[s]
      /\ \A t \in Slots \ {s} : key'[t] = key[t] /\ isAuth'[t] = isAuth[t]
  BY <1>1 DEF TableInv, TypeOK
<1>5. p \in Connected \ Doomed
  BY <1>1, <1>3 DEF Connected, Doomed
<1>6. \A login \in Logins : login[1] # p /\ (login[2] # k \/ k \in NulKeys)
  <2> SUFFICES ASSUME NEW t \in Occupied, isAuth[t]
               PROVE  sock[t] # p /\ (key[t] # k \/ k \in NulKeys)
    BY DEF Logins
  <2>1. k \in NulKeys \/ key[t] # k
    BY <1>1 DEF Unseen, Occupied
  <2> QED
    BY <1>1, <1>3, <2>1
<1>7. Logins' = Logins \cup {<<p, k>>}
  <2>1. Occupied' = Occupied
    BY <1>1 DEF Occupied
  <2>2. Logins' \subseteq Logins \cup {<<p, k>>}
    BY <1>1, <1>4, <2>1 DEF Logins, Occupied
  <2>3. Logins \subseteq Logins'
    BY <1>1, <1>4, <2>1 DEF Logins, Occupied
  <2>4. <<p, k>> \in Logins'
    BY <1>1, <1>3, <1>4, <2>1 DEF Logins
  <2> QED
    BY <2>2, <2>3, <2>4
<1>8. Connected' = Connected /\ Doomed' = Doomed
  BY <1>1 DEF Connected, Doomed, Occupied
<1> QED
  BY <1>2, <1>5, <1>6, <1>7, <1>8 DEF Table!Authenticate

\* Closing a slot drops its client, which was doomed, and its login.
LEMMA CloseDrops ==
  ASSUME TableInv, NEW s \in Slots, CloseSlot(s)
  PROVE  \E p \in Peers : Table!Drop(p)
<1> PICK p : p = sock[s]
  OBVIOUS
<1>1. /\ p \in Peers /\ s \in Occupied /\ todc[s]
      /\ sock' = [sock EXCEPT ![s] = NoPeer]
      /\ todc' = [todc EXCEPT ![s] = FALSE]
      /\ isAuth' = [isAuth EXCEPT ![s] = FALSE]
      /\ key' = [key EXCEPT ![s] = NoKey]
  BY DEF CloseSlot, At, Initialize, Occupied, TableInv, TypeOK
<1>2. \A t \in Occupied : sock[t] = p => t = s
  BY <1>1 DEF TableInv, SocketsApart
<1>3. Occupied' = Occupied \ {s}
  BY <1>1 DEF Occupied, TableInv, TypeOK
<1>4. \A t \in Occupied' :
        /\ t \in Occupied /\ sock[t] # p
        /\ sock'[t] = sock[t] /\ todc'[t] = todc[t] /\ isAuth'[t] = isAuth[t] /\ key'[t] = key[t]
  BY <1>1, <1>2, <1>3 DEF Occupied, TableInv, TypeOK
<1>5. Connected' = Connected \ {p}
  BY <1>2, <1>3, <1>4 DEF Connected
<1>6. Doomed' = Doomed \ {p} /\ p \in Doomed
  BY <1>1, <1>2, <1>3, <1>4 DEF Doomed
<1>7. Logins' = {login \in Logins : login[1] # p}
  <2>1. \A t \in Occupied : isAuth[t] /\ sock[t] # p <=> t \in Occupied' /\ isAuth'[t]
    BY <1>1, <1>3, <1>4
  <2> QED
    BY <1>4, <2>1 DEF Logins
<1> QED
  BY <1>1, <1>5, <1>6, <1>7 DEF Table!Drop

LEMMA TableStep ==
  ASSUME TableInv, Next
  PROVE  Table!TableNext
<1> USE DEF netVars, connVars, sendVars, loopVars
<1>1. CASE \E s \in Slots : AcceptIntoSlot(s)
  BY <1>1, AcceptAdmits DEF Table!TableNext
<1>2. CASE \E s \in Slots : HandshakeAccept(s)
  BY <1>2, HandshakeLogsIn DEF Table!TableNext
<1>3. CASE \E s \in Slots : CloseSlot(s)
  BY <1>3, CloseDrops DEF Table!TableNext
<1>4. CASE ~\E s \in Slots : AcceptIntoSlot(s) \/ HandshakeAccept(s) \/ CloseSlot(s)
  <2>1. UNCHANGED <<sock, isAuth, key>>
    BY <1>4 DEF Next, Thread, Accept, RecvStep, Environment, Connect, PeerClose, PeerReset,
       PeerSend, Expire, PassWithoutAccept, AcceptWhenFull, SkipFreeSlot,
       SendStep, SendNothing, Deliver, SendError, RecvNothing, RecvClosed, RecvError, KeepSlot,
       Handle, IgnoreDoomed, RejectPacket, HandshakeRefuse, HandshakeIgnore, ClientBeat,
       Update, Reply, ReplyStale, ReplyTooLarge, Broadcast, BroadcastTooLarge
  <2>2. ASSUME NEW t \in Slots, todc[t] PROVE todc'[t]
    <3>1. sock'[t] = sock[t] /\ sock[t] # NoPeer
      BY <2>1, <2>2 DEF TableInv, FreeSlotClean, Occupied
    <3> QED
      BY <2>2, <3>1, DoomedStep DEF TableInv
  <2> QED
    BY <2>1, <2>2, CondemnsSome DEF Table!TableNext
<1> QED
  BY <1>1, <1>2, <1>3, <1>4

LEMMA TableInit ==
  ASSUME Init
  PROVE  Table!TableInit
<1>1. Occupied = {}
  BY DEF Init, Occupied
<1> QED
  BY <1>1 DEF Connected, Logins, Doomed, Table!TableInit

\* The table of slots is a table of clients: no order of connecting, authenticating,
\* failing and closing admits a client beyond the limit or twice, gives one key to
\* two of them, lets go one that was not condemned or revives one that was.
THEOREM ServesTheTable == Spec => ServesAsTable
<1>1. Init => Table!TableInit
  BY TableInit
<1>2. TableInv /\ [Next]_vars => [Table!TableNext]_(Table!tableVars)
  <2>1. ASSUME UNCHANGED vars PROVE UNCHANGED Table!tableVars
    BY <2>1 DEF vars, connVars, Table!tableVars, Connected, Logins, Doomed, Occupied
  <2> QED
    BY <2>1, TableStep
<1>3. TypeOK /\ SocketsApart /\ FreeSlotClean /\ OneConnectionPerKey => TableInv
  BY DEF TableInv
<1> QED
  BY <1>1, <1>2, <1>3, TypeCorrect, SocketsStayApart, FreeSlotsAreClean, KeysConnectOnce, PTL
     DEF Spec, ServesAsTable, Table!TableSpec

-------------------------------------------------------------------------------
(* How long the thread takes: the safety behind DoomedIsClosed and           *)
(* PacketsAreRead.                                                         *)

Round == 3 * ClientLimit + 1

\* The three steps of every slot's turn, in the order of a pass.
Place == CASE pc = "accept" -> 0
           [] pc = "send"   -> 3 * cur + 1
           [] pc = "recv"   -> 3 * cur + 2
           [] pc = "finish" -> 3 * cur + 3

\* The steps of the thread until it is at one of the places in slot s's turn.
StepsTo(s, step) ==
  LET place == 3 * s + step IN
  IF Place <= place THEN place - Place ELSE place - Place + Round

\* Where the thread is when it takes a step of its own.
LEMMA StageOf ==
  /\ Accept => pc = "accept"
  /\ SkipFreeSlot => pc = "send"
  /\ \A s \in Slots :
       /\ SendStep(s) => pc = "send"
       /\ RecvStep(s) => pc = "recv" /\ cur = s
       /\ CloseSlot(s) \/ KeepSlot(s) => pc = "finish" /\ cur = s
<1>1. Accept => pc = "accept"
  BY DEF Accept, PassWithoutAccept, AcceptWhenFull, AcceptIntoSlot
<1>2. SkipFreeSlot => pc = "send"
  BY DEF SkipFreeSlot
<1>3. ASSUME NEW s \in Slots, SendStep(s) PROVE pc = "send"
  BY <1>3 DEF SendStep, SendNothing, Deliver, SendError, At
<1>4. ASSUME NEW s \in Slots, RecvStep(s) PROVE pc = "recv" /\ cur = s
  BY <1>4 DEF RecvStep, RecvNothing, RecvClosed, RecvError, Handle, IgnoreDoomed, RejectPacket,
     HandshakeAccept, HandshakeRefuse, HandshakeIgnore, ClientBeat, Update, Reply, ReplyStale,
     ReplyTooLarge, Broadcast, BroadcastTooLarge, Take, At
<1>5. ASSUME NEW s \in Slots, CloseSlot(s) \/ KeepSlot(s) PROVE pc = "finish" /\ cur = s
  BY <1>5 DEF CloseSlot, KeepSlot, At
<1> QED
  BY <1>1, <1>2, <1>3, <1>4, <1>5

\* A step of the thread goes on to the next place, skips the turn of a free slot, or
\* begins the next pass.
LEMMA ThreadMoves ==
  ASSUME TypeOK, Thread
  PROVE  \/ pc # "finish" /\ Place' = Place + 1
         \/ /\ pc = "send" /\ sock[cur] = NoPeer
            /\ Place' = IF cur + 1 < ClientLimit THEN Place + 3 ELSE 0
         \/ /\ pc = "finish"
            /\ Place' = IF cur + 1 < ClientLimit THEN Place + 1 ELSE 0
<1>1. cur \in Nat /\ ClientLimit \in Nat \ {0}
  BY ConstantsOK DEF TypeOK, Slots
<1>2. ASSUME StartPass, pc = "accept" PROVE pc # "finish" /\ Place' = Place + 1
  BY <1>2 DEF StartPass, Place
<1>3. CASE Accept
  BY <1>2, <1>3 DEF Accept, PassWithoutAccept, AcceptWhenFull, AcceptIntoSlot
<1>4. CASE SkipFreeSlot
  <2>1. pc = "send" /\ sock[cur] = NoPeer /\ NextSlot
    BY <1>4 DEF SkipFreeSlot
  <2> QED
    BY <1>1, <2>1 DEF NextSlot, Place
<1>5. ASSUME NEW s \in Slots, SendStep(s) PROVE pc # "finish" /\ Place' = Place + 1
  <2>1. pc = "send" /\ GoTo("recv")
    BY <1>5 DEF SendStep, SendNothing, Deliver, SendError, At
  <2> QED
    BY <1>1, <2>1 DEF GoTo, Place
<1>6. ASSUME NEW s \in Slots, RecvStep(s) PROVE pc # "finish" /\ Place' = Place + 1
  <2>1. pc = "recv" /\ GoTo("finish")
    BY <1>6, StageOf DEF RecvStep, RecvNothing, RecvClosed, RecvError, Handle, IgnoreDoomed,
       RejectPacket, HandshakeAccept, HandshakeRefuse, HandshakeIgnore, ClientBeat, Update, Reply,
       ReplyStale, ReplyTooLarge, Broadcast, BroadcastTooLarge, Take
  <2> QED
    BY <1>1, <2>1 DEF GoTo, Place
<1>7. ASSUME NEW s \in Slots, CloseSlot(s) \/ KeepSlot(s)
      PROVE  /\ pc = "finish"
             /\ Place' = IF cur + 1 < ClientLimit THEN Place + 1 ELSE 0
  <2>1. pc = "finish" /\ NextSlot
    BY <1>7 DEF CloseSlot, KeepSlot, At
  <2> QED
    BY <1>1, <2>1 DEF NextSlot, Place
<1> QED
  BY <1>3, <1>4, <1>5, <1>6, <1>7 DEF Thread

LEMMA PlaceTyped ==
  ASSUME TypeOK
  PROVE  /\ cur \in 0 .. ClientLimit - 1 /\ ClientLimit \in Nat \ {0}
         /\ pc \in {"accept", "send", "recv", "finish"}
         /\ pc = "accept" => Place = 0
         /\ pc = "send"   => Place = 3 * cur + 1
         /\ pc = "recv"   => Place = 3 * cur + 2
         /\ pc = "finish" => Place = 3 * cur + 3
BY ConstantsOK DEF TypeOK, Slots, Place

\* The thread passes no turn of an occupied slot by.
LEMMA ThreadComesCloser ==
  ASSUME TypeOK, Thread, NEW s \in Occupied, NEW step \in {2, 3}, Place # 3 * s + step
  PROVE  StepsTo(s, step)' < StepsTo(s, step)
<1>1. s \in 0 .. ClientLimit - 1 /\ sock[s] # NoPeer
  BY DEF Occupied, Slots
<1>2. CASE pc # "finish" /\ Place' = Place + 1
  BY <1>1, <1>2, PlaceTyped DEF StepsTo, Round
<1>3. CASE /\ pc = "send" /\ sock[cur] = NoPeer
           /\ Place' = IF cur + 1 < ClientLimit THEN Place + 3 ELSE 0
  <2>1. s # cur
    BY <1>1, <1>3
  <2> QED
    BY <1>1, <1>3, <2>1, PlaceTyped DEF StepsTo, Round
<1>4. CASE /\ pc = "finish"
           /\ Place' = IF cur + 1 < ClientLimit THEN Place + 1 ELSE 0
  BY <1>1, <1>4, PlaceTyped DEF StepsTo, Round
<1> QED
  BY <1>2, <1>3, <1>4, ThreadMoves

\* At one of the places in a turn, the thread is at that slot.
LEMMA PlaceOfTurn ==
  ASSUME TypeOK, NEW s \in Slots
  PROVE  /\ Place = 3 * s + 2 => pc = "recv" /\ cur = s
         /\ Place = 3 * s + 3 => pc = "finish" /\ cur = s
<1>1. s \in 0 .. ClientLimit - 1
  BY DEF Slots
<1> QED
  BY <1>1, PlaceTyped

LEMMA EnvironmentWaits ==
  ASSUME Environment, NEW s, NEW step
  PROVE  StepsTo(s, step)' = StepsTo(s, step)
<1>1. UNCHANGED loopVars
  BY DEF Environment, Connect, PeerClose, PeerReset, PeerSend, Expire
<1> QED
  BY <1>1 DEF loopVars, StepsTo, Place

\* Every step of the thread brings a slot that is to be disconnected closer to its
\* end, by a number that is at most 3 * ClientLimit and that no battle server can
\* raise: that is when its socket is closed (server.cpp:1138-1168).
DoomedComesCloser ==
  \A s \in Slots : todc[s] =>
    /\ StepsTo(s, 3) \in 0 .. 3 * ClientLimit
    /\ Thread => sock'[s] = NoPeer \/ StepsTo(s, 3)' < StepsTo(s, 3)
    /\ Environment => StepsTo(s, 3)' = StepsTo(s, 3)

LEMMA StepsBounded ==
  ASSUME TypeOK, NEW s \in Slots, NEW step \in {2, 3}
  PROVE  StepsTo(s, step) \in 0 .. 3 * ClientLimit
<1>1. s \in 0 .. ClientLimit - 1
  BY DEF Slots
<1>2. Place \in 0 .. 3 * ClientLimit
  BY PlaceTyped
<1> QED
  BY <1>1, <1>2, PlaceTyped DEF StepsTo, Round

THEOREM DoomedIsClosedInAPass == Spec => [][DoomedComesCloser]_vars
<1>1. TypeOK /\ FreeSlotClean /\ [Next]_vars => [DoomedComesCloser]_vars
  <2> SUFFICES ASSUME TypeOK, FreeSlotClean, NEW s \in Slots, todc[s]
               PROVE  /\ StepsTo(s, 3) \in 0 .. 3 * ClientLimit
                      /\ Thread => sock'[s] = NoPeer \/ StepsTo(s, 3)' < StepsTo(s, 3)
                      /\ Environment => StepsTo(s, 3)' = StepsTo(s, 3)
    BY DEF DoomedComesCloser
  <2>1. s \in Occupied
    BY DEF FreeSlotClean
  <2>2. ASSUME Thread, Place # 3 * s + 3 PROVE StepsTo(s, 3)' < StepsTo(s, 3)
    BY <2>1, <2>2, ThreadComesCloser
  <2>3. ASSUME Thread, Place = 3 * s + 3 PROVE sock'[s] = NoPeer
    <3>1. pc = "finish" /\ cur = s
      BY <2>3, PlaceOfTurn
    <3>2. CloseSlot(s)
      <4>1. CloseSlot(s) \/ KeepSlot(s)
        BY <2>3, <3>1, StageOf, Zenon DEF Thread
      <4> QED
        BY <4>1 DEF KeepSlot
    <3> QED
      BY <3>2 DEF CloseSlot, Initialize, TypeOK
  <2> QED
    BY <2>2, <2>3, EnvironmentWaits, StepsBounded
<1> QED
  BY <1>1, TypeCorrect, FreeSlotsAreClean, PTL DEF Spec

\* The stream of a peer that was reset is gone.
ResetIsSilent == \A p \in Peers : peer[p] = "reset" => inbox[p] = <<>>

LEMMA ResetStep ==
  ASSUME TypeOK, ResetIsSilent, Next
  PROVE  ResetIsSilent'
<1> USE DEF netVars, connVars, sendVars, loopVars
<1>1. peer \in [Peers -> {"off", "open", "closed", "reset"}] /\ inbox \in [Peers -> Seq(Packets)]
  BY DEF TypeOK
<1>2. CASE UNCHANGED <<peer, inbox>>
  BY <1>2 DEF ResetIsSilent
<1>3. ASSUME NEW p \in Peers, NEW st \in {"open", "closed"},
             peer' = [peer EXCEPT ![p] = st], inbox' = inbox
      PROVE  ResetIsSilent'
  BY <1>1, <1>3 DEF ResetIsSilent
<1>4. ASSUME NEW p \in Peers, NEW st \in {"off", "reset"},
             peer' = [peer EXCEPT ![p] = st], inbox' = [inbox EXCEPT ![p] = <<>>]
      PROVE  ResetIsSilent'
  BY <1>1, <1>4 DEF ResetIsSilent
<1>5. ASSUME NEW p \in Peers, NEW q, peer[p] # "reset",
             peer' = peer, inbox' = [inbox EXCEPT ![p] = q]
      PROVE  ResetIsSilent'
  BY <1>1, <1>5 DEF ResetIsSilent
<1>6. CASE Environment
  <2>1. ASSUME NEW p \in Peers, Connect(p) \/ PeerClose(p) PROVE ResetIsSilent'
    BY <1>3, <2>1 DEF Connect, PeerClose
  <2>2. ASSUME NEW p \in Peers, PeerReset(p) PROVE ResetIsSilent'
    BY <1>4, <2>2 DEF PeerReset
  <2>3. ASSUME NEW p \in Peers, NEW pkt \in Packets, PeerSend(p, pkt) PROVE ResetIsSilent'
    BY <1>5, <2>3 DEF PeerSend
  <2>4. ASSUME NEW s \in Slots, Expire(s) PROVE ResetIsSilent'
    BY <1>2, <2>4 DEF Expire
  <2> QED
    BY <1>6, <2>1, <2>2, <2>3, <2>4 DEF Environment
<1>7. ASSUME NEW s \in Slots, Deliver(s) PROVE ResetIsSilent'
  <2>1. sock[s] \in Peers
    BY <1>7 DEF Deliver, At, TypeOK
  <2> QED
    BY <1>2, <1>4, <1>7, <2>1 DEF Deliver
<1>8. ASSUME NEW s \in Slots, NEW kind, Take(s, kind) PROVE ResetIsSilent'
  <2>1. sock[s] \in Peers
    BY <1>8 DEF Take, At, TypeOK
  <2> QED
    BY <1>5, <1>8, <2>1 DEF Take
<1>9. ASSUME NEW s \in Slots, CloseSlot(s) PROVE ResetIsSilent'
  <2>1. sock[s] \in Peers
    BY <1>9 DEF CloseSlot, At, TypeOK
  <2> QED
    BY <1>4, <1>9, <2>1 DEF CloseSlot
<1>10. ASSUME NEW s \in Slots, Handle(s) PROVE \E kind : Take(s, kind)
  BY <1>10 DEF Handle, IgnoreDoomed, RejectPacket, HandshakeAccept, HandshakeRefuse,
     HandshakeIgnore, ClientBeat, Update, Reply, ReplyStale, ReplyTooLarge, Broadcast,
     BroadcastTooLarge
<1>11. ASSUME NEW s \in Slots,
              \/ SendNothing(s) \/ SendError(s)
              \/ RecvNothing(s) \/ RecvClosed(s) \/ RecvError(s) \/ KeepSlot(s)
       PROVE  UNCHANGED <<peer, inbox>>
  BY <1>11 DEF SendNothing, SendError, RecvNothing, RecvClosed, RecvError, KeepSlot
<1>12. CASE Accept \/ SkipFreeSlot
  BY <1>2, <1>12 DEF Accept, PassWithoutAccept, AcceptWhenFull, AcceptIntoSlot, SkipFreeSlot
<1> QED
  BY <1>2, <1>6, <1>7, <1>8, <1>9, <1>10, <1>11, <1>12 DEF Next, Thread, SendStep, RecvStep

\* Every step of the thread brings a connected peer's unread packets closer to being
\* read, or takes one, or loses them with the connection: others that keep talking
\* hold nobody up for more than a pass (server.cpp:1138-1157).
PacketComesCloser ==
  \A s \in Occupied : inbox[sock[s]] # <<>> =>
    /\ StepsTo(s, 2) \in 0 .. 3 * ClientLimit
    /\ Thread => \/ inbox'[sock[s]] \in {<<>>, Tail(inbox[sock[s]])}
                 \/ StepsTo(s, 2)' < StepsTo(s, 2)
    /\ Environment => StepsTo(s, 2)' = StepsTo(s, 2)

THEOREM PacketIsReadInAPass == Spec => [][PacketComesCloser]_vars
<1>1. Init => ResetIsSilent
  BY DEF Init, ResetIsSilent
<1>2. TypeOK /\ ResetIsSilent /\ [Next]_vars => ResetIsSilent'
  <2>1. ResetIsSilent /\ UNCHANGED vars => ResetIsSilent'
    BY DEF vars, netVars, ResetIsSilent
  <2> QED
    BY <2>1, ResetStep
<1>3. TypeOK /\ ResetIsSilent /\ [Next]_vars => [PacketComesCloser]_vars
  <2> SUFFICES ASSUME TypeOK, ResetIsSilent, NEW s \in Occupied, inbox[sock[s]] # <<>>
               PROVE  /\ StepsTo(s, 2) \in 0 .. 3 * ClientLimit
                      /\ Thread => \/ inbox'[sock[s]] \in {<<>>, Tail(inbox[sock[s]])}
                                   \/ StepsTo(s, 2)' < StepsTo(s, 2)
                      /\ Environment => StepsTo(s, 2)' = StepsTo(s, 2)
    BY DEF PacketComesCloser
  <2>1. s \in Slots /\ sock[s] \in Peers
    BY DEF Occupied, TypeOK
  <2>2. ASSUME Thread, Place # 3 * s + 2 PROVE StepsTo(s, 2)' < StepsTo(s, 2)
    BY <2>2, ThreadComesCloser
  <2>3. ASSUME Thread, Place = 3 * s + 2
        PROVE  inbox'[sock[s]] \in {<<>>, Tail(inbox[sock[s]])}
    <3>1. pc = "recv" /\ cur = s
      BY <2>1, <2>3, PlaceOfTurn
    <3>2. peer[sock[s]] # "reset"
      BY <2>1 DEF ResetIsSilent
    <3>3. RecvStep(s)
      BY <2>3, <3>1, StageOf DEF Thread
    <3>4. Handle(s)
      BY <3>2, <3>3 DEF RecvStep, RecvNothing, RecvClosed, RecvError
    <3>5. PICK kind : Take(s, kind)
      BY <3>4 DEF Handle, IgnoreDoomed, RejectPacket, HandshakeAccept, HandshakeRefuse,
         HandshakeIgnore, ClientBeat, Update, Reply, ReplyStale, ReplyTooLarge, Broadcast,
         BroadcastTooLarge
    <3> QED
      BY <2>1, <3>5 DEF Take, TypeOK
  <2> QED
    BY <2>1, <2>2, <2>3, EnvironmentWaits, StepsBounded
<1> QED
  BY <1>1, <1>2, <1>3, TypeCorrect, PTL DEF Spec
===============================================================================
