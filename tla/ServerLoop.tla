------------------------------ MODULE ServerLoop ------------------------------
(***************************************************************************)
(* The server thread of the database server (Server::ServerThread): a      *)
(* fixed table of client slots, the listening socket, and one loop that    *)
(* accepts a connection, then visits every slot in turn to send, receive,  *)
(* tear down and beat.  Battle servers ("peers") connect, authenticate     *)
(* with a key of the server_keys table, send packets, and go away at any   *)
(* moment between two steps of the loop.                                   *)
(*                                                                         *)
(* Packets and messages are whole here: RecvPath cuts the input stream     *)
(* into packets and SendPath turns queued messages into bytes.             *)
(***************************************************************************)
EXTENDS Integers, Sequences, FiniteSets

CONSTANTS
  ClientLimit,   \* serverClientLimit: the number of slots
  Peers,         \* remote endpoints; a peer's current socket bears its name
  Keys,          \* the rows of server_keys
  NulKeys,       \* the keys with a zero byte, see Unseen
  BeatOutcomes,  \* see ClientBeat
  Kinds,         \* bound: the kinds of packet that peers send
  NoPeer,        \* ClientSocket = -1
  NoKey,         \* the all-zero key and iv of Initialize
  NoMsg,         \* an empty outbuf
  MaxInFlight,   \* bound: unread packets of one peer
  MaxQueue       \* bound: queued messages beyond which no input arrives

ASSUME ConstantsOK ==
  /\ ClientLimit \in Nat \ {0}
  /\ NulKeys \subseteq Keys
  /\ BeatOutcomes \subseteq {"due", "armed", "never"}
  /\ BeatOutcomes # {}
  /\ Kinds \subseteq {"handshake", "heartbeat", "request", "update", "broadcast", "invalid"}
  /\ NoPeer \notin Peers
  /\ NoKey \notin Keys
  /\ MaxInFlight \in Nat /\ MaxQueue \in Nat

Slots == 0 .. ClientLimit - 1

\* What a packet asks for, as ProcessPacket and the handlers tell packets apart.
Packets ==
  [kind : Kinds \cap {"handshake"}, key : Keys \cup {NoKey}] \cup
  [kind : Kinds \ {"handshake"}, key : {NoKey}]

\* Messages built for a client; "about" is the peer whose packet caused them.
Messages == [kind : {"auth", "reply", "broadcast", "beat"}, about : Peers \cup {NoPeer}]

Beat == [kind |-> "beat", about |-> NoPeer]

ASSUME NoMsgIsNone == NoMsg \notin Messages

VARIABLES
  backlog,    \* connections the listening socket has not handed out yet
  peer,       \* the peer's end: "off", "open", "closed" (FIN sent), "reset"
  inbox,      \* packets of a peer that the server has not read
  leaked,     \* sockets accepted into no slot
  sock,       \* ClientSocket of each slot
  connIndex,  \* connection_index of each slot
  todc,       \* the slot is to be disconnected
  isAuth,     \* the slot passed the handshake
  key,        \* key and iv of each slot
  beat,       \* lastHeartBeat: "due" (past), "armed" (within HEARTBEAT_TIME), "never"
  sendq,      \* sndbuf and sendQueue of each slot
  outbuf,     \* the last message built in each slot
  listed,     \* how often serverConnections holds each index
  nconn,      \* serverNumConnections
  pc, cur,    \* the step of the loop and the slot it is at
  wfds        \* slots with something to send when the pass began

netVars  == <<backlog, peer, inbox, leaked>>
connVars == <<sock, connIndex, isAuth, key, listed, nconn>>
sendVars == <<sendq, outbuf>>
loopVars == <<pc, cur, wfds>>
vars == <<netVars, connVars, todc, beat, sendVars, loopVars>>

Occupied == {s \in Slots : sock[s] # NoPeer}
Held(p)  == \E s \in Slots : sock[s] = p

TypeOK ==
  /\ backlog \in Seq(Peers)
  /\ peer \in [Peers -> {"off", "open", "closed", "reset"}]
  /\ inbox \in [Peers -> Seq(Packets)]
  /\ leaked \subseteq Peers
  /\ sock \in [Slots -> Peers \cup {NoPeer}]
  /\ connIndex \in [Slots -> Slots]
  /\ todc \in [Slots -> BOOLEAN]
  /\ isAuth \in [Slots -> BOOLEAN]
  /\ key \in [Slots -> Keys \cup {NoKey}]
  /\ beat \in [Slots -> {"due", "armed", "never"}]
  /\ sendq \in [Slots -> Seq(Messages)]
  /\ outbuf \in [Slots -> Messages \cup {NoMsg}]
  /\ listed \in [Slots -> Nat]
  /\ nconn \in Nat
  /\ pc \in {"accept", "send", "recv", "finish"}
  /\ cur \in Slots
  /\ wfds \subseteq Slots

Init ==
  /\ backlog = <<>>
  /\ peer = [p \in Peers |-> "off"]
  /\ inbox = [p \in Peers |-> <<>>]
  /\ leaked = {}
  /\ sock = [s \in Slots |-> NoPeer]
  /\ connIndex = [s \in Slots |-> 0]
  /\ todc = [s \in Slots |-> FALSE]
  /\ isAuth = [s \in Slots |-> FALSE]
  /\ key = [s \in Slots |-> NoKey]
  /\ beat = [s \in Slots |-> "due"]
  /\ sendq = [s \in Slots |-> <<>>]
  /\ outbuf = [s \in Slots |-> NoMsg]
  /\ listed = [s \in Slots |-> 0]
  /\ nconn = 0
  /\ pc = "accept" /\ cur = 0 /\ wfds = {}

-------------------------------------------------------------------------------
(* The battle servers and the network.                                     *)

Connect(p) ==
  /\ peer[p] = "off"
  /\ peer' = [peer EXCEPT ![p] = "open"]
  /\ backlog' = Append(backlog, p)
  /\ UNCHANGED <<inbox, leaked, connVars, todc, beat, sendVars, loopVars>>

PeerSend(p, pkt) ==
  /\ peer[p] = "open" /\ Held(p)
  /\ Len(inbox[p]) < MaxInFlight
  /\ \A s \in Slots : Len(sendq[s]) < MaxQueue
  /\ inbox' = [inbox EXCEPT ![p] = Append(@, pkt)]
  /\ UNCHANGED <<backlog, peer, leaked, connVars, todc, beat, sendVars, loopVars>>

PeerClose(p) ==
  /\ peer[p] = "open"
  /\ peer' = [peer EXCEPT ![p] = "closed"]
  /\ UNCHANGED <<backlog, inbox, leaked, connVars, todc, beat, sendVars, loopVars>>

PeerReset(p) ==
  /\ peer[p] \in {"open", "closed"} /\ Held(p)
  /\ peer' = [peer EXCEPT ![p] = "reset"]
  /\ inbox' = [inbox EXCEPT ![p] = <<>>]
  /\ UNCHANGED <<backlog, leaked, connVars, todc, beat, sendVars, loopVars>>

\* time(NULL) passes the slot's lastHeartBeat.
Expire(s) ==
  /\ beat[s] = "armed"
  /\ Len(sendq[s]) < MaxQueue
  /\ beat' = [beat EXCEPT ![s] = "due"]
  /\ UNCHANGED <<netVars, connVars, todc, sendVars, loopVars>>

-------------------------------------------------------------------------------
(* The head of a pass: fd sets, select, AcceptConnection.                  *)

StartPass ==
  /\ pc' = "send" /\ cur' = 0
  /\ wfds' = {s \in Occupied : sendq[s] # <<>>}

\* Nothing is waiting on the listening socket.
PassWithoutAccept ==
  /\ pc = "accept" /\ backlog = <<>>
  /\ StartPass
  /\ UNCHANGED <<netVars, connVars, todc, beat, sendVars>>

FirstFreeOrDoomed(s) ==
  /\ sock[s] = NoPeer \/ todc[s]
  /\ \A t \in Slots : t < s => sock[t] # NoPeer

\* FreeConnection: the lowest slot without a socket.
FirstFree(s) ==
  /\ sock[s] = NoPeer
  /\ \A t \in Slots : t < s => sock[t] # NoPeer

\* One connection is taken from the backlog into a free slot.
AcceptIntoSlot(s) ==
  /\ pc = "accept" /\ backlog # <<>> /\ FirstFree(s)
  /\ sock' = [sock EXCEPT ![s] = Head(backlog)]
  /\ backlog' = Tail(backlog)
  /\ connIndex' = [connIndex EXCEPT ![s] = s]
  /\ listed' = [listed EXCEPT ![s] = @ + 1]
  /\ nconn' = nconn + 1
  /\ StartPass
  /\ UNCHANGED <<peer, inbox, leaked, isAuth, key, todc, beat, sendVars>>

\* With every slot taken the loop of AcceptConnection accepts until the
\* listening socket would block; the socket it drops is not closed.
AcceptWhenFull ==
  /\ pc = "accept" /\ backlog # <<>> /\ Occupied = Slots
  /\ leaked' = leaked \cup {backlog[i] : i \in 1 .. Len(backlog)}
  /\ backlog' = <<>>
  /\ StartPass
  /\ UNCHANGED <<peer, inbox, connVars, todc, beat, sendVars>>

-------------------------------------------------------------------------------
(* A slot's turn, first part: Server::Send.                                *)

At(stage, s) == pc = stage /\ cur = s /\ sock[s] # NoPeer

GoTo(stage) == pc' = stage /\ UNCHANGED <<cur, wfds>>

NextSlotSkipsLast ==
  /\ IF cur + 2 < ClientLimit
       THEN pc' = "send" /\ cur' = cur + 1
       ELSE pc' = "accept" /\ cur' = 0
  /\ UNCHANGED wfds

NextSlot ==
  /\ IF cur + 1 < ClientLimit
       THEN pc' = "send" /\ cur' = cur + 1
       ELSE pc' = "accept" /\ cur' = 0
  /\ UNCHANGED wfds

SkipFreeSlot ==
  /\ pc = "send" /\ sock[cur] = NoPeer
  /\ NextSlot
  /\ UNCHANGED <<netVars, connVars, todc, beat, sendVars>>

\* Nothing to send, not writable, or WSAEWOULDBLOCK.
SendNothing(s) ==
  /\ At("send", s)
  /\ GoTo("recv")
  /\ UNCHANGED <<netVars, connVars, todc, beat, sendVars>>

\* The oldest message leaves; a peer that has closed answers with a reset.
Deliver(s) ==
  /\ At("send", s) /\ s \in wfds
  /\ sendq[s] # <<>> /\ peer[sock[s]] # "reset"
  /\ sendq' = [sendq EXCEPT ![s] = Tail(@)]
  /\ LET p == sock[s] IN
     IF peer[p] = "closed"
       THEN /\ peer' = [peer EXCEPT ![p] = "reset"]
            /\ inbox' = [inbox EXCEPT ![p] = <<>>]
       ELSE UNCHANGED <<peer, inbox>>
  /\ GoTo("recv")
  /\ UNCHANGED <<backlog, leaked, connVars, todc, beat, outbuf>>

Disconnect(s) == todc' = [todc EXCEPT ![s] = TRUE]

SendError(s) ==
  /\ At("send", s) /\ s \in wfds
  /\ peer[sock[s]] = "reset"
  /\ Disconnect(s)
  /\ GoTo("recv")
  /\ UNCHANGED <<netVars, connVars, beat, sendVars>>

-------------------------------------------------------------------------------
(* A slot's turn, second part: Server::Recv and the packet it completes.   *)

RecvNothingIsAnError(s) ==
  /\ At("recv", s)
  /\ peer[sock[s]] = "open" /\ inbox[sock[s]] = <<>>
  /\ Disconnect(s)
  /\ GoTo("finish")
  /\ UNCHANGED <<netVars, connVars, beat, sendVars>>

\* WSAEWOULDBLOCK.
RecvNothing(s) ==
  /\ At("recv", s)
  /\ peer[sock[s]] = "open" /\ inbox[sock[s]] = <<>>
  /\ GoTo("finish")
  /\ UNCHANGED <<netVars, connVars, todc, beat, sendVars>>

\* recv returned 0: the code looks at WSAGetLastError, which still holds the
\* error of some earlier call, and disconnects only if that was a reset.
RecvClosed(s) ==
  /\ At("recv", s)
  /\ peer[sock[s]] = "closed" /\ inbox[sock[s]] = <<>>
  /\ Disconnect(s) \/ UNCHANGED todc
  /\ GoTo("finish")
  /\ UNCHANGED <<netVars, connVars, beat, sendVars>>

RecvError(s) ==
  /\ At("recv", s)
  /\ peer[sock[s]] = "reset"
  /\ Disconnect(s)
  /\ GoTo("finish")
  /\ UNCHANGED <<netVars, connVars, beat, sendVars>>

\* One packet is taken from the peer's stream.
Take(s, kind) ==
  /\ At("recv", s)
  /\ peer[sock[s]] # "reset" /\ inbox[sock[s]] # <<>>
  /\ Head(inbox[sock[s]]).kind = kind
  /\ inbox' = [inbox EXCEPT ![sock[s]] = Tail(@)]
  /\ GoTo("finish")
  /\ UNCHANGED <<backlog, peer, leaked>>

\* CLIENT::Send queues the message if the slot has a socket.
Post(s, m) ==
  /\ outbuf' = [outbuf EXCEPT ![s] = m]
  /\ sendq' = [sendq EXCEPT ![s] = Append(@, m)]

\* A packet of a slot that is to be disconnected is read and ignored.
IgnoreDoomed(s) ==
  /\ todc[s]
  /\ \E kind \in Kinds : Take(s, kind)
  /\ UNCHANGED <<connVars, todc, beat, sendVars>>

\* A type outside the table, or any but the handshake's before authentication.
RejectPacket(s) ==
  /\ ~todc[s]
  /\ \E kind \in {"request", "update", "broadcast", "invalid"} :
       /\ kind = "invalid" \/ ~isAuth[s]
       /\ Take(s, kind)
  /\ Disconnect(s)
  /\ UNCHANGED <<connVars, beat, sendVars>>

UnseenUnchecked(k) == TRUE

\* No slot has the key.  memcmp compares the stored key with the row's, which was cut at
\* its first zero byte, so what the comparison reads behind it is undefined.
Unseen(k) == k \in NulKeys \/ \A t \in Slots : key[t] # k

HandshakeAcceptDoomed(s) ==
  /\ ~isAuth[s]
  /\ Take(s, "handshake")
  /\ LET k == Head(inbox[sock[s]]).key IN
     /\ k # NoKey
     /\ Unseen(k)
     /\ key' = [key EXCEPT ![s] = k]
  /\ isAuth' = [isAuth EXCEPT ![s] = TRUE]
  /\ Post(s, [kind |-> "auth", about |-> sock[s]])
  /\ UNCHANGED <<sock, connIndex, listed, nconn, todc, beat>>

\* ServerAuth, subtype 0.
HandshakeAccept(s) ==
  /\ ~todc[s] /\ ~isAuth[s]
  /\ Take(s, "handshake")
  /\ LET k == Head(inbox[sock[s]]).key IN
     /\ k # NoKey
     /\ Unseen(k)
     /\ key' = [key EXCEPT ![s] = k]
  /\ isAuth' = [isAuth EXCEPT ![s] = TRUE]
  /\ Post(s, [kind |-> "auth", about |-> sock[s]])
  /\ UNCHANGED <<sock, connIndex, listed, nconn, todc, beat>>

\* No such key, a slot that already holds it, or a query that fails, which looks like no
\* such key: any handshake may be refused.
HandshakeRefuse(s) ==
  /\ ~todc[s] /\ ~isAuth[s]
  /\ Take(s, "handshake")
  /\ Disconnect(s)
  /\ UNCHANGED <<connVars, beat, sendVars>>

\* Already authenticated, a packet of another size, or the database did not open.
HandshakeIgnore(s) ==
  /\ ~todc[s]
  /\ Take(s, "handshake")
  /\ UNCHANGED <<connVars, todc, beat, sendVars>>

\* ServerAuth, subtype 1: lastHeartBeat = timeGetTime() + HEARTBEAT_TIME, that
\* is milliseconds since boot stored as a time in seconds: in the past for the
\* first weeks after boot ("due"), then decades ahead ("never").
ClientBeat(s) ==
  /\ ~todc[s]
  /\ Take(s, "heartbeat")
  /\ \E b \in BeatOutcomes : beat' = [beat EXCEPT ![s] = b]
  /\ UNCHANGED <<connVars, todc, sendVars>>

ReplyUnauthenticated(s) ==
  /\ ~todc[s]
  /\ Take(s, "request")
  /\ Post(s, [kind |-> "reply", about |-> sock[s]])
  /\ UNCHANGED <<connVars, todc, beat>>

\* A request answered to its sender.
Reply(s) ==
  /\ ~todc[s] /\ isAuth[s]
  /\ Take(s, "request")
  /\ Post(s, [kind |-> "reply", about |-> sock[s]])
  /\ UNCHANGED <<connVars, todc, beat>>

\* The answer does not fit CLIENT_BUFFER_SIZE: CLIENT::Send disconnects.
ReplyTooLarge(s) ==
  /\ ~todc[s] /\ isAuth[s]
  /\ Take(s, "request")
  /\ outbuf' = [outbuf EXCEPT ![s] = [kind |-> "reply", about |-> sock[s]]]
  /\ Disconnect(s)
  /\ UNCHANGED <<connVars, beat, sendq>>

\* The database does not open, or the subtype is unknown: the handler falls
\* through to Send with whatever the last answer left in outbuf.
ReplyStale(s) ==
  /\ ~todc[s] /\ isAuth[s]
  /\ Take(s, "request")
  /\ IF outbuf[s] = NoMsg THEN UNCHANGED sendVars ELSE Post(s, outbuf[s])
  /\ UNCHANGED <<connVars, todc, beat>>

\* Save, swap, remove and the like change the database and send nothing, like
\* a packet that is too short to be decrypted.
Update(s) ==
  /\ ~todc[s] /\ isAuth[s]
  /\ Take(s, "update")
  /\ UNCHANGED <<connVars, todc, beat, sendVars>>

\* Server::SendToAll: chat and team data go to every slot with a socket.
Broadcast(s) ==
  /\ ~todc[s] /\ isAuth[s]
  /\ Take(s, "broadcast")
  /\ LET m == [kind |-> "broadcast", about |-> sock[s]] IN
     /\ outbuf' = [outbuf EXCEPT ![s] = m]
     /\ sendq' = [t \in Slots |->
                    IF sock[t] # NoPeer THEN Append(sendq[t], m) ELSE sendq[t]]
  /\ UNCHANGED <<connVars, todc, beat>>

\* A broadcast that does not fit disconnects every slot it was meant for.
BroadcastTooLarge(s) ==
  /\ ~todc[s] /\ isAuth[s]
  /\ Take(s, "broadcast")
  /\ outbuf' = [outbuf EXCEPT ![s] = [kind |-> "broadcast", about |-> sock[s]]]
  /\ todc' = [t \in Slots |-> todc[t] \/ t \in Occupied]
  /\ UNCHANGED <<connVars, beat, sendq>>

-------------------------------------------------------------------------------
(* A slot's turn, last part: InitializeConnection and SendHeartBeat.       *)

InitializeKeepsSocket(s) ==
  /\ sock' = sock
  /\ connIndex' = [connIndex EXCEPT ![s] = 0]
  /\ todc' = [todc EXCEPT ![s] = FALSE]
  /\ isAuth' = [isAuth EXCEPT ![s] = FALSE]
  /\ key' = [key EXCEPT ![s] = NoKey]
  /\ sendq' = [sendq EXCEPT ![s] = <<>>]

InitializeKeepsQueue(s) ==
  /\ sock' = [sock EXCEPT ![s] = NoPeer]
  /\ connIndex' = [connIndex EXCEPT ![s] = 0]
  /\ todc' = [todc EXCEPT ![s] = FALSE]
  /\ isAuth' = [isAuth EXCEPT ![s] = FALSE]
  /\ key' = [key EXCEPT ![s] = NoKey]
  /\ sendq' = sendq

\* CLIENT::Initialize; it wipes beat and outbuf too, which SendHeartBeat sets next.
Initialize(s) ==
  /\ sock' = [sock EXCEPT ![s] = NoPeer]
  /\ connIndex' = [connIndex EXCEPT ![s] = 0]
  /\ todc' = [todc EXCEPT ![s] = FALSE]
  /\ isAuth' = [isAuth EXCEPT ![s] = FALSE]
  /\ key' = [key EXCEPT ![s] = NoKey]
  /\ sendq' = [sendq EXCEPT ![s] = <<>>]

\* The slot is wiped, and then beaten: its timer starts although it is free.
CloseSlot(s) ==
  /\ At("finish", s) /\ todc[s]
  /\ LET p == sock[s]  i == connIndex[s] IN
     /\ listed' = [listed EXCEPT ![i] = 0]
     /\ nconn' = nconn - listed[i]
     /\ peer' = [peer EXCEPT ![p] = "off"]
     /\ inbox' = [inbox EXCEPT ![p] = <<>>]
  /\ Initialize(s)
  /\ beat' = [beat EXCEPT ![s] = "armed"]
  /\ outbuf' = [outbuf EXCEPT ![s] = Beat]
  /\ NextSlot
  /\ UNCHANGED <<backlog, leaked>>

KeepSlotBeatsAuthenticated(s) ==
  /\ At("finish", s) /\ ~todc[s]
  /\ IF beat[s] = "due" /\ isAuth[s]
       THEN Post(s, Beat) /\ beat' = [beat EXCEPT ![s] = "armed"]
       ELSE UNCHANGED <<beat, sendVars>>
  /\ NextSlot
  /\ UNCHANGED <<netVars, connVars, todc>>

\* The slot stays; a heartbeat is queued if its timer has run out.
KeepSlot(s) ==
  /\ At("finish", s) /\ ~todc[s]
  /\ IF beat[s] = "due"
       THEN Post(s, Beat) /\ beat' = [beat EXCEPT ![s] = "armed"]
       ELSE UNCHANGED <<beat, sendVars>>
  /\ NextSlot
  /\ UNCHANGED <<netVars, connVars, todc>>

-------------------------------------------------------------------------------
Accept == PassWithoutAccept \/ AcceptWhenFull \/ \E s \in Slots : AcceptIntoSlot(s)

SendStep(s) == SendNothing(s) \/ Deliver(s) \/ SendError(s)

Handle(s) ==
  \/ IgnoreDoomed(s) \/ RejectPacket(s)
  \/ HandshakeAccept(s) \/ HandshakeRefuse(s) \/ HandshakeIgnore(s)
  \/ ClientBeat(s) \/ Update(s)
  \/ Reply(s) \/ ReplyStale(s) \/ ReplyTooLarge(s)
  \/ Broadcast(s) \/ BroadcastTooLarge(s)

RecvStep(s) == RecvNothing(s) \/ RecvClosed(s) \/ RecvError(s) \/ Handle(s)

Thread ==
  \/ Accept
  \/ SkipFreeSlot
  \/ \E s \in Slots : SendStep(s) \/ RecvStep(s) \/ CloseSlot(s) \/ KeepSlot(s)

Environment ==
  \/ \E p \in Peers : Connect(p) \/ PeerClose(p) \/ PeerReset(p)
  \/ \E p \in Peers, pkt \in Packets : PeerSend(p, pkt)
  \/ \E s \in Slots : Expire(s)

Next == Thread \/ Environment

\* The thread never blocks (its select has a timeout), the clock runs, and the
\* host of a closed socket answers what is sent to it.
Fairness ==
  /\ WF_vars(Thread)
  /\ \A s \in Slots :
       /\ WF_vars(Expire(s))
       /\ SF_vars(Deliver(s) /\ peer[sock[s]] = "closed")

Spec == Init /\ [][Next]_vars
FairSpec == Spec /\ Fairness

-------------------------------------------------------------------------------
(* Safety.                                                                 *)

\* The list of live connections that InitializeConnection compacts holds every
\* occupied slot exactly once and no other, so AcceptConnection's append stays
\* within its serverClientLimit entries (server.cpp:817-822, 914).
RegistryExact ==
  /\ \A s \in Slots : listed[s] = (IF s \in Occupied THEN 1 ELSE 0)
  /\ \A s \in Occupied : connIndex[s] = s
  /\ nconn = Cardinality(Occupied)

\* A socket is in one place: one slot, the backlog or the leaked ones
\* (AcceptConnection, InitializeConnection).
SocketsApart ==
  /\ \A s, t \in Occupied : s # t => sock[s] # sock[t]
  /\ \A i \in 1 .. Len(backlog) : ~Held(backlog[i]) /\ backlog[i] \notin leaked
  /\ \A i, j \in 1 .. Len(backlog) : i # j => backlog[i] # backlog[j]
  /\ \A p \in leaked : ~Held(p)

\* A slot that is free keeps nothing of its last client but the timer: the next
\* one starts unauthenticated, with no key, no queue and no old answer
\* (CLIENT::Initialize, and SendHeartBeat that follows it in the loop).
FreeSlotClean ==
  \A s \in Slots \ Occupied :
    /\ ~todc[s] /\ ~isAuth[s]
    /\ key[s] = NoKey
    /\ sendq[s] = <<>>
    /\ outbuf[s] \in {NoMsg, Beat}

\* Two slots never hold the same key, except one with a zero byte
\* (ServerAuth's scan of the connections, ServerAuthPackets.cpp:27-36).
OneConnectionPerKey ==
  /\ \A s \in Slots : isAuth[s] <=> key[s] # NoKey
  /\ \A s, t \in Slots : s # t /\ key[s] = key[t] => key[s] \in NulKeys \cup {NoKey}

\* What is queued for a slot, or waits in its outbuf to be sent again, was
\* caused by the peer now in that slot, or is a broadcast or a heartbeat; an
\* unauthenticated peer is sent nothing else.
RepliesReachTheirPeer ==
  \A s \in Slots :
    \A m \in {sendq[s][i] : i \in 1 .. Len(sendq[s])} \cup {outbuf[s]} :
      m # NoMsg /\ m.kind \in {"auth", "reply"} => m.about = sock[s] /\ isAuth[s]

\* Once a slot is to be disconnected nothing revives it: it neither
\* authenticates nor loses the mark before its socket is closed
\* (CLIENT::Disconnect, the todc test of ProcessPacket).
DoomedStaysDoomed ==
  [][\A s \in Slots :
       todc[s] => \/ sock'[s] = NoPeer
                  \/ todc'[s] /\ isAuth'[s] = isAuth[s] /\ key'[s] = key[s]]_vars

\* The table of slots implements ClientTable: at most ClientLimit peers, each in one
\* slot, none under the key of another, none let go that was not to be disconnected,
\* and no doomed one revived (AcceptConnection, ServerAuth, CLIENT::Disconnect,
\* InitializeConnection).
Connected == {sock[s] : s \in Occupied}
Logins    == {<<sock[s], key[s]>> : s \in {t \in Occupied : isAuth[t]}}
Doomed    == {sock[s] : s \in {t \in Occupied : todc[t]}}

Table == INSTANCE ClientTable WITH clients <- Connected, logins <- Logins, doomed <- Doomed
ServesAsTable == Table!TableSpec

\* A connected peer is disconnected for its own refused packet, for an answer
\* too large to send, or for someone's broadcast too large to send; never for
\* being idle or for what another slot did (Recv, Send, ProcessPacket).
OnlyOffendersDisconnected ==
  [][\A s \in Slots :
       ~todc[s] /\ todc'[s] /\ peer[sock[s]] = "open" =>
         /\ inbox[sock[cur]] # <<>>
         /\ LET pkt == Head(inbox[sock[cur]]) IN
            IF isAuth[cur]
              THEN \/ pkt.kind = "broadcast"
                   \/ cur = s /\ pkt.kind \in {"request", "invalid"}
              ELSE cur = s /\ pkt.kind # "heartbeat"]_vars

(* Liveness.                                                               *)

\* A slot marked for disconnection is closed (server.cpp:1158).
DoomedIsClosed == \A s \in Slots : todc[s] ~> sock[s] = NoPeer

\* The packet of a connected peer is read, although the pass handles one packet
\* of each slot and others keep talking (server.cpp:1138-1157).
PacketsAreRead ==
  \A p \in Peers : Held(p) /\ inbox[p] # <<>> ~> ~Held(p) \/ inbox[p] = <<>>

\* A peer that went away loses its slot, thanks to the heartbeats alone when it
\* closed cleanly, unless its own heartbeat silenced the timer.
GoneIsFreed ==
  \A s \in Slots :
    sock[s] # NoPeer /\ peer[sock[s]] \in {"closed", "reset"}
      ~> sock[s] = NoPeer \/ beat[s] = "never"
===============================================================================
