------------------------------- MODULE RecvPath -------------------------------
(***************************************************************************)
(* The receive path of one slot: Recv appends what the socket has to       *)
(* rcvbuf, ProcessRecv cuts a packet off its front when one is complete,   *)
(* and CheckClientPackets copies it to inbuf and dispatches it.  The slot   *)
(* passes from connection to connection.                                   *)
(*                                                                         *)
(* The stream of a connection is the sequence of the offsets at which its  *)
(* packets end; rcvbuf holds the rcvread bytes that follow offset          *)
(* "consumed".                                                             *)
(***************************************************************************)
EXTENDS Integers, Sequences

CONSTANTS
  BufferSize,   \* CLIENT_BUFFER_SIZE
  HeaderSize,   \* the bytes of the length field
  MinSize,      \* the least packet size ProcessRecv cuts off
  Wrap,         \* packetsize is an unsigned integer below Wrap
  Lengths,      \* bound: the sizes of the packets peers send
  MaxPackets    \* bound: packets per connection

ASSUME SizesOK ==
  /\ HeaderSize \in Nat \ {0} /\ MinSize \in Nat /\ BufferSize \in Nat /\ Wrap \in Nat
  /\ HeaderSize < MinSize /\ MinSize < BufferSize /\ BufferSize < Wrap
  /\ Lengths \subseteq HeaderSize .. Wrap + HeaderSize - 1   \* what the length field can say
  /\ MaxPackets \in Nat

VARIABLES
  conn,        \* "none" (a free slot), "open", "closed" (FIN sent), "reset"
  ends,        \* where the packets of the stream end
  consumed,    \* bytes of the stream cut off so far
  rcvread,     \* bytes in rcvbuf
  hassize, packetsize,
  inbuf,       \* the packet last copied to inbuf, 0 for none
  handled,     \* history: the packets given to ProcessPacket
  todc,
  pc           \* the slot's turn: "recv" or "finish"

sizeVars == <<hassize, packetsize>>
bufVars  == <<consumed, rcvread, sizeVars, inbuf, handled>>
vars     == <<conn, ends, bufVars, todc, pc>>

Total      == IF ends = <<>> THEN 0 ELSE ends[Len(ends)]
StartOf(i) == IF i = 1 THEN 0 ELSE ends[i - 1]
SizeOf(i)  == ends[i] - StartOf(i)

\* The packets of the stream that begin at an offset: one or none.
PacketsAt(offset) == {i \in 1 .. Len(ends) : StartOf(i) = offset}

TypeOK ==
  /\ conn \in {"none", "open", "closed", "reset"}
  /\ ends \in Seq(Nat)
  /\ consumed \in Nat
  /\ rcvread \in 0 .. BufferSize
  /\ hassize \in BOOLEAN
  /\ packetsize \in 0 .. Wrap - 1
  /\ inbuf \in Nat
  /\ handled \in Seq(Nat)
  /\ todc \in BOOLEAN
  /\ pc \in {"recv", "finish"}

\* The constructor leaves hassize uninitialised.
Init ==
  /\ conn = "none" /\ ends = <<>>
  /\ consumed = 0 /\ rcvread = 0
  /\ hassize \in BOOLEAN /\ packetsize = 0
  /\ inbuf = 0 /\ handled = <<>>
  /\ todc = FALSE /\ pc = "recv"

-------------------------------------------------------------------------------
(* The peer, and the other slots.                                          *)

\* AcceptConnection puts a socket in the slot and resets nothing.
Open ==
  /\ conn = "none"
  /\ conn' = "open"
  /\ UNCHANGED <<ends, bufVars, todc, pc>>

Write(len) ==
  /\ conn = "open" /\ Len(ends) < MaxPackets
  /\ ends' = Append(ends, Total + len)
  /\ UNCHANGED <<conn, bufVars, todc, pc>>

PeerClose ==
  /\ conn = "open" /\ conn' = "closed"
  /\ UNCHANGED <<ends, bufVars, todc, pc>>

PeerReset ==
  /\ conn \in {"open", "closed"} /\ conn' = "reset"
  /\ UNCHANGED <<ends, bufVars, todc, pc>>

\* A refused packet, a failed send or an oversized broadcast dooms the slot.
Doom ==
  /\ conn # "none"
  /\ todc' = TRUE
  /\ UNCHANGED <<conn, ends, bufVars, pc>>

-------------------------------------------------------------------------------
(* Server::ProcessRecv and Server::CheckClientPackets.                     *)

\* What the length field at the front of rcvbuf says, plus 2, in 16 bits; away
\* from a packet's start the bytes could say anything.
FrontSizes ==
  IF PacketsAt(consumed) # {}
    THEN {SizeOf(i) % Wrap : i \in PacketsAt(consumed)}
    ELSE 0 .. Wrap - 1

\* setArray refuses a packet that would fill inbuf, which keeps the last one.
CopyToInbuf(size) ==
  IF size < BufferSize
    THEN IF PacketsAt(consumed) # {} THEN inbuf' \in PacketsAt(consumed) ELSE inbuf' = 0
    ELSE inbuf' = inbuf

CheckClientPackets(size) ==
  /\ CopyToInbuf(size)
  /\ IF size - HeaderSize > BufferSize
       THEN todc' = TRUE /\ UNCHANGED handled
       ELSE /\ handled' = IF todc THEN handled ELSE Append(handled, inbuf')
            /\ UNCHANGED todc

CutOffRemembers(size, read) ==
  /\ CheckClientPackets(size)
  /\ consumed' = consumed + size
  /\ rcvread' = read - size
  /\ hassize' = TRUE /\ packetsize' = size

\* A whole packet leaves rcvbuf; the bytes behind it move to the front.
CutOff(size, read) ==
  /\ CheckClientPackets(size)
  /\ consumed' = consumed + size
  /\ rcvread' = read - size
  /\ hassize' = FALSE /\ packetsize' = 0

ProcessRecvAnySize(n) ==
  LET read    == rcvread + n
      reading == (~hassize \/ packetsize = 0) /\ read >= HeaderSize
  IN \E size \in (IF reading THEN FrontSizes ELSE {packetsize}) :
       IF (hassize \/ reading) /\ read >= size
         THEN CutOff(size, read)
         ELSE /\ rcvread' = read
              /\ hassize' = (hassize \/ reading) /\ packetsize' = size
              /\ UNCHANGED <<consumed, inbuf, handled, todc>>

ProcessRecv(n) ==
  LET read    == rcvread + n
      reading == (~hassize \/ packetsize = 0) /\ read >= HeaderSize
  IN \E size \in (IF reading THEN FrontSizes ELSE {packetsize}) :
       IF (hassize \/ reading) /\ read >= size /\ size >= MinSize
         THEN CutOff(size, read)
         ELSE /\ rcvread' = read
              /\ hassize' = (hassize \/ reading) /\ packetsize' = size
              /\ UNCHANGED <<consumed, inbuf, handled, todc>>

-------------------------------------------------------------------------------
(* Server::Recv, by what recv returns.                                     *)

Turn == pc = "recv" /\ conn # "none" /\ pc' = "finish" /\ UNCHANGED <<conn, ends>>

\* Any number of the bytes on their way that fit in rcvbuf.
RecvBytes(n) ==
  /\ Turn
  /\ conn # "reset"
  /\ n \in 1 .. BufferSize - rcvread
  /\ consumed + rcvread + n <= Total
  /\ ProcessRecv(n)

RecvNothingOnly ==
  /\ Turn
  /\ conn # "reset" /\ rcvread < BufferSize
  /\ conn = "open" \/ consumed + rcvread < Total
  /\ UNCHANGED <<bufVars, todc>>

\* WSAEWOULDBLOCK: a packet that is already complete is dispatched all the same.
RecvNothing ==
  /\ Turn
  /\ conn # "reset" /\ rcvread < BufferSize
  /\ conn = "open" \/ consumed + rcvread < Total
  /\ IF rcvread > 0 THEN ProcessRecv(0) ELSE UNCHANGED <<bufVars, todc>>

\* recv returns 0 at the end of the stream and when rcvbuf is full; the code
\* disconnects if the last socket error of the thread was WSAECONNRESET.
RecvZero ==
  /\ Turn
  /\ conn # "reset"
  /\ rcvread = BufferSize \/ (conn = "closed" /\ consumed + rcvread = Total)
  /\ \/ todc' = TRUE /\ UNCHANGED bufVars
     \/ ProcessRecv(0)

RecvError ==
  /\ Turn
  /\ conn = "reset"
  /\ todc' = TRUE
  /\ UNCHANGED bufVars

-------------------------------------------------------------------------------
(* InitializeConnection, which leaves hassize as it was.                   *)

Close ==
  /\ pc = "finish" /\ todc
  /\ conn' = "none" /\ ends' = <<>>
  /\ consumed' = 0 /\ rcvread' = 0
  /\ packetsize' = 0
  /\ inbuf' = 0 /\ handled' = <<>>
  /\ todc' = FALSE
  /\ pc' = "recv"
  /\ UNCHANGED hassize

Keep ==
  /\ pc = "finish" /\ ~todc
  /\ pc' = "recv"
  /\ UNCHANGED <<conn, ends, bufVars, todc>>

-------------------------------------------------------------------------------
SomeBytes == \E n \in 1 .. BufferSize : RecvBytes(n)

Thread == SomeBytes \/ RecvNothing \/ RecvZero \/ RecvError \/ Close \/ Keep

Environment ==
  \/ Open \/ PeerClose \/ PeerReset \/ Doom
  \/ \E len \in Lengths : Write(len)

Next == Thread \/ Environment

\* The thread visits the slot again and again, and bytes on their way arrive.
Fairness == WF_vars(Thread) /\ SF_vars(SomeBytes)

Spec == Init /\ [][Next]_vars
FairSpec == Spec /\ Fairness

-------------------------------------------------------------------------------
\* rcvbuf always begins where a packet begins, and a size remembered between
\* two receives is the size of that packet, never of one before it or of a
\* connection before this one (ProcessRecv, server.cpp:1016-1031).
Framed ==
  /\ consumed \in {0} \cup {ends[i] : i \in 1 .. Len(ends)}
  /\ consumed + rcvread <= Total
  /\ packetsize # 0 =>
       /\ hassize /\ rcvread >= HeaderSize
       /\ \E i \in PacketsAt(consumed) : packetsize = SizeOf(i) % Wrap

\* The packets of the stream, by whether they fill inbuf.
Filling == [i \in 1 .. Len(ends) |-> SizeOf(i) = BufferSize]

\* The receive path implements PacketFifo: every packet cut off the stream makes one
\* dispatch, in the order written, whatever the receives look like and whatever sizes
\* the length fields say (Server::ProcessRecv, server.cpp:1011-1036).  What is
\* dispatched is the packet, whole, unless it is of exactly BufferSize: then it is
\* lost, and the one before it reaches its handler again (serverpacket.cpp:31-37).
Fifo == INSTANCE PacketFifo WITH sent <- Filling, got <- handled
InOrder == Fifo!FifoSpec

\* Once the packet in front is too small, too large or of wrapped size, nothing
\* behind it is dispatched in its place until the slot is closed.
NothingAfterBadFrame ==
  [][\A i \in PacketsAt(consumed) :
       SizeOf(i) \notin MinSize .. BufferSize => handled' \in {handled, <<>>}]_vars

\* ProcessRecv cuts such a packet off rcvbuf; setArray copies it to inbuf only when
\* it does not fill it.
Leaves(i) == SizeOf(i) \in MinSize .. BufferSize
Fits(i)   == SizeOf(i) \in MinSize .. BufferSize - 1

\* A packet written on an open connection that fits inbuf is dispatched itself, in its
\* turn, unless one before it can never be cut off; also when its last bytes came
\* together with others and the socket then stays silent (server.cpp:1004-1006), and
\* whatever was dispatched for the packets before it.
EveryPacketHandled ==
  \A i \in 1 .. MaxPackets :
    conn = "open" /\ Len(ends) >= i /\ (\A j \in 1 .. i - 1 : Leaves(j)) /\ Fits(i)
      ~> (Len(handled) >= i /\ handled[i] = i) \/ conn # "open" \/ todc
===============================================================================
