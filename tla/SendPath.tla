------------------------------- MODULE SendPath -------------------------------
(***************************************************************************)
(* The send path of one slot: CLIENT::Send pads a packet to whole cipher    *)
(* blocks and queues a copy of it, and Server::Send moves the oldest copy to *)
(* sndbuf and hands it to the socket in as many chunks as the socket takes.  *)
(* SERVERPACKETs are reused: an answer is sent again when a handler falls    *)
(* through to Send, and SendToAll gives one packet to every slot, so padding *)
(* starts from what the last Send left behind.                              *)
(*                                                                         *)
(* Bytes are named by their position in the stream of the connection.       *)
(***************************************************************************)
EXTENDS Integers, Sequences

CONSTANTS
  BufferSize,       \* CLIENT_BUFFER_SIZE
  HeaderSize,       \* the bytes of the length field
  Block,            \* BLOCK_SIZE
  BeatSize,         \* the size of a heartbeat
  Sizes,            \* bound: the sizes of the packets handlers build
  OtherClients,     \* bound: how many other slots hold a client
  LogLimit, DisconnectLimit,  \* the limits of MessagesInSendQueue
  MaxBytes          \* bound: no handler runs when this much was queued

ASSUME SizesOK ==
  /\ HeaderSize \in Nat \ {0} /\ Block \in Nat /\ BufferSize \in Nat
  /\ 2 * HeaderSize <= Block /\ 2 * Block < BufferSize
  /\ \E k \in 1 .. BufferSize : BufferSize = k * Block
  /\ Sizes \subseteq Nat /\ \A size \in Sizes : size >= 3 * HeaderSize   \* type and subtype
  /\ BeatSize \in 3 * HeaderSize .. BufferSize - Block
  /\ OtherClients \in Nat /\ MaxBytes \in Nat
  /\ LogLimit \in Nat /\ DisconnectLimit \in Nat /\ LogLimit < DisconnectLimit

VARIABLES
  conn,      \* "none" (a free slot), "open", "reset"
  todc,
  out,       \* the slot's outbuf
  src,       \* the packet SendToAll is sending
  own,       \* whether it is the slot's outbuf, or another's
  toGo,      \* the other slots SendToAll has still to reach
  reached,   \* whether it has reached this one
  hung,      \* the padding loop never ends
  queue,     \* sendQueue
  total,     \* history: bytes queued on this connection
  front,     \* the bytes in sndbuf are the ones behind this position
  snddata,
  wire,      \* history: the bytes the socket took
  pc         \* the slot's turn: "send", "recv" or "finish"; "cast" in SendToAll

castVars == <<src, own, toGo, reached>>
bufVars  == <<queue, total, front, snddata, wire>>
vars     == <<conn, todc, out, castVars, hung, bufVars, pc>>

\* A SERVERPACKET: pSize, pOffset and, as a history, how often it was sent.
Packets == [size : Nat, offset : Nat, sends : Nat]

Cleared == [size |-> 0, offset |-> 0, sends |-> 0]

\* A SEND_QUEUE entry: its length field and where its bytes come from.
Entries == [len : Nat, at : Nat]

TypeOK ==
  /\ conn \in {"none", "open", "reset"}
  /\ todc \in BOOLEAN /\ own \in BOOLEAN /\ reached \in BOOLEAN /\ hung \in BOOLEAN
  /\ out \in Packets /\ src \in Packets
  /\ toGo \in 0 .. OtherClients
  /\ queue \in Seq(Entries)
  /\ total \in Nat /\ front \in Nat
  /\ snddata \in 0 .. BufferSize
  /\ wire \in Seq(Nat)
  /\ pc \in {"send", "recv", "cast", "finish"}

Init ==
  /\ conn = "none" /\ todc = FALSE
  /\ out = Cleared /\ src = Cleared
  /\ own = FALSE /\ toGo = 0 /\ reached = FALSE
  /\ hung = FALSE
  /\ queue = <<>> /\ total = 0 /\ front = 0 /\ snddata = 0 /\ wire = <<>>
  /\ pc = "send"

-------------------------------------------------------------------------------
(* CLIENT::Send and AddToSendQueue.                                        *)

\* while (size % BLOCK_SIZE || size <= BLOCK_SIZE) append a zero: the next whole
\* number of blocks, and at least two.
Padded(x) == IF x <= Block THEN 2 * Block ELSE Block * ((x + Block - 1) \div Block)

TooLargeUnpadded(pk) == pk.size > BufferSize

TooLarge(pk) == pk.size + Block - 1 > BufferSize
TooSmall(pk) == pk.size < 2 * HeaderSize

\* append refuses a byte once pOffset is at the end of the buffer, so a loop
\* that still wants one never ends.
Stuck(pk) ==
  LET body == pk.size - HeaderSize IN
  pk.offset + (Padded(body) - body) >= BufferSize

Sendable(pk) == ~TooLarge(pk) /\ ~TooSmall(pk) /\ ~Stuck(pk)

\* The packet when Send returns: the header no longer counts, the padding does.
AfterSend(pk) ==
  LET body == pk.size - HeaderSize IN
  [size |-> Padded(body), offset |-> pk.offset + (Padded(body) - body), sends |-> pk.sends + 1]

Left(pk) == IF Sendable(pk) THEN AfterSend(pk) ELSE pk

Least(a, b) == IF a < b THEN a ELSE b

\* Both size checks that CLIENT::Send makes after padding pass: see PaddedFits.
Enqueue(pk) ==
  LET len == AfterSend(pk).size IN
  /\ queue' = Append(queue, [len |-> len, at |-> total])
  /\ total' = total + Least(len + HeaderSize, BufferSize - HeaderSize)
  /\ UNCHANGED <<front, snddata, wire>>

\* CLIENT::Send on this slot.
SendHere(pk) ==
  IF conn # "none"
    THEN /\ todc' = (todc \/ TooLarge(pk))
         /\ hung' = (~TooLarge(pk) /\ ~TooSmall(pk) /\ Stuck(pk))
         /\ IF Sendable(pk) THEN Enqueue(pk) ELSE UNCHANGED bufVars
    ELSE UNCHANGED <<todc, hung, bufVars>>

\* clearBuffer, then a header and fields: size and offset grow together.
Built(size) == [size |-> size, offset |-> size, sends |-> 0]

-------------------------------------------------------------------------------
(* The network and the accept step.                                        *)

Running == ~hung

Open ==
  /\ Running /\ pc = "send" /\ conn = "none"
  /\ conn' = "open"
  /\ UNCHANGED <<todc, out, castVars, hung, bufVars, pc>>

PeerReset ==
  /\ conn = "open"
  /\ conn' = "reset"
  /\ UNCHANGED <<todc, out, castVars, hung, bufVars, pc>>

-------------------------------------------------------------------------------
(* Server::Send.                                                           *)

\* MessagesInSendQueue: a queue longer than LogLimit is logged, "else" one longer
\* than DisconnectLimit disconnects.
OverLimit == Len(queue) <= LogLimit /\ Len(queue) > DisconnectLimit

Turn(stage) == Running /\ pc = stage /\ conn # "none"

\* The socket is not writable, or WSAEWOULDBLOCK: a message may have moved to
\* sndbuf, and stays there.
MessageTaken ==
  IF snddata = 0 /\ queue # <<>>
    THEN [front |-> Head(queue).at, snddata |-> Head(queue).len + HeaderSize, queue |-> Tail(queue)]
    ELSE [front |-> front, snddata |-> snddata, queue |-> queue]

SendNothing ==
  /\ Turn("send")
  /\ \/ UNCHANGED bufVars
     \/ /\ front' = MessageTaken.front /\ snddata' = MessageTaken.snddata
        /\ queue' = MessageTaken.queue
        /\ UNCHANGED <<total, wire>>
  /\ todc' = (todc \/ OverLimit)
  /\ pc' = "recv"
  /\ UNCHANGED <<conn, out, castVars, hung>>

SendSomeDropsRest(n) ==
  LET taken == MessageTaken IN
  /\ Turn("send") /\ conn = "open"
  /\ n \in 1 .. taken.snddata
  /\ wire' = wire \o [i \in 1 .. n |-> taken.front + i]
  /\ front' = taken.front + n
  /\ snddata' = 0
  /\ queue' = taken.queue
  /\ pc' = "recv"
  /\ UNCHANGED <<conn, todc, out, castVars, hung, total>>

\* The socket takes n bytes and the rest of sndbuf moves to its front.
SendSome(n) ==
  LET taken == MessageTaken IN
  /\ Turn("send") /\ conn = "open"
  /\ n \in 1 .. taken.snddata
  /\ wire' = wire \o [i \in 1 .. n |-> taken.front + i]
  /\ front' = taken.front + n
  /\ snddata' = taken.snddata - n
  /\ queue' = taken.queue
  /\ pc' = "recv"
  /\ UNCHANGED <<conn, todc, out, castVars, hung, total>>

SendError ==
  /\ Turn("send") /\ conn = "reset"
  /\ front' = MessageTaken.front /\ snddata' = MessageTaken.snddata
  /\ queue' = MessageTaken.queue
  /\ snddata' > 0
  /\ todc' = TRUE
  /\ pc' = "recv"
  /\ UNCHANGED <<conn, out, castVars, hung, total, wire>>

-------------------------------------------------------------------------------
(* The packet handlers, as far as they send.                               *)

\* No packet, one that is refused, or one whose handler sends nothing.
HandleQuietly ==
  /\ Turn("recv")
  /\ todc' \in {todc, TRUE}
  /\ pc' = "finish"
  /\ UNCHANGED <<conn, out, castVars, hung, bufVars>>

Handling == Turn("recv") /\ ~todc /\ total < MaxBytes

Answer(size) ==
  /\ Handling
  /\ SendHere(Built(size))
  /\ out' = Left(Built(size))
  /\ pc' = "finish"
  /\ UNCHANGED <<conn, castVars>>

\* The database does not open or the subtype is unknown: Send with outbuf as it is.
Resend ==
  /\ Handling
  /\ SendHere(out)
  /\ out' = Left(out)
  /\ pc' = "finish"
  /\ UNCHANGED <<conn, castVars>>

-------------------------------------------------------------------------------
(* Server::SendToAll, from this slot or in the turn of another.            *)

StartCast(size, others) ==
  /\ Running /\ pc \in {"send", "recv"}
  /\ others \in 0 .. OtherClients
  /\ total < MaxBytes
  /\ own' = (pc = "recv")
  /\ own' => Handling
  /\ ~own' => others > 0
  /\ src' = Built(size)
  /\ toGo' = others /\ reached' = FALSE
  /\ pc' = "cast"
  /\ UNCHANGED <<conn, todc, out, hung, bufVars>>

CastHere ==
  /\ Running /\ pc = "cast" /\ ~reached
  /\ SendHere(src)
  /\ src' = IF conn # "none" THEN Left(src) ELSE src
  /\ reached' = TRUE
  /\ UNCHANGED <<conn, out, own, toGo, pc>>

CastToOther ==
  /\ Running /\ pc = "cast" /\ toGo > 0
  /\ hung' = (~TooLarge(src) /\ ~TooSmall(src) /\ Stuck(src))
  /\ src' = Left(src)
  /\ toGo' = toGo - 1
  /\ UNCHANGED <<conn, todc, out, own, reached, bufVars, pc>>

EndCast ==
  /\ Running /\ pc = "cast" /\ reached /\ toGo = 0
  /\ out' = IF own THEN src ELSE out
  /\ pc' = IF own THEN "finish" ELSE "send"
  /\ src' = Cleared /\ own' = FALSE /\ reached' = FALSE
  /\ UNCHANGED <<conn, todc, toGo, hung, bufVars>>

-------------------------------------------------------------------------------
(* The end of the turn: InitializeConnection and SendHeartBeat.            *)

CloseKeepsSndbuf ==
  /\ Turn("finish") /\ todc
  /\ conn' = "none" /\ todc' = FALSE
  /\ out' = Built(BeatSize)
  /\ queue' = <<>> /\ total' = 0 /\ front' = 0 /\ wire' = <<>>
  /\ pc' = "send"
  /\ UNCHANGED <<castVars, hung, snddata>>

\* The heartbeat built for the wiped slot is not sent.
Close ==
  /\ Turn("finish") /\ todc
  /\ conn' = "none" /\ todc' = FALSE
  /\ out' = Built(BeatSize)
  /\ queue' = <<>> /\ total' = 0 /\ front' = 0 /\ snddata' = 0 /\ wire' = <<>>
  /\ pc' = "send"
  /\ UNCHANGED <<castVars, hung>>

Keep ==
  /\ Turn("finish") /\ ~todc
  /\ pc' = "send"
  /\ UNCHANGED <<conn, todc, out, castVars, hung, bufVars>>

HeartBeat ==
  /\ Turn("finish") /\ ~todc /\ total < MaxBytes
  /\ SendHere(Built(BeatSize))
  /\ out' = Left(Built(BeatSize))
  /\ pc' = "send"
  /\ UNCHANGED <<conn, castVars>>

-------------------------------------------------------------------------------
Thread ==
  \/ SendNothing \/ SendError \/ HandleQuietly \/ Resend
  \/ CastHere \/ CastToOther \/ EndCast
  \/ Close \/ Keep \/ HeartBeat
  \/ \E n \in 1 .. BufferSize : SendSome(n)
  \/ \E size \in Sizes : Answer(size)

Environment ==
  \/ Open \/ PeerReset
  \/ \E size \in Sizes, others \in 0 .. OtherClients : StartCast(size, others)

Next == Thread \/ Environment

\* The thread keeps visiting the slot, and a peer that stays reads.
Fairness ==
  /\ WF_vars(Thread)
  /\ SF_vars(\E n \in 1 .. BufferSize : SendSome(n))

Spec == Init /\ [][Next]_vars
FairSpec == Spec /\ Fairness
LazyPeerSpec == Spec /\ WF_vars(Thread)   \* the peer may stop reading

-------------------------------------------------------------------------------
\* Messages lie in the queue one behind the other, and sndbuf holds the rest of
\* the message before them: each length field covers what was copied
\* (AddToSendQueue, client.cpp:239; Server::Send, server.cpp:936-965).
Contiguous ==
  /\ Len(wire) + snddata = IF queue = <<>> THEN total ELSE queue[1].at
  /\ snddata > 0 => front = Len(wire)
  /\ \A i \in 1 .. Len(queue) :
       queue[i].at + queue[i].len + HeaderSize =
         IF i = Len(queue) THEN total ELSE queue[i + 1].at

\* The send path implements ByteStream.
Stream == INSTANCE ByteStream WITH accepted <- total, delivered <- wire
BytesInOrder == Stream!StreamSpec

\* Padding stalls the thread only on a packet that was sent over and over: each
\* Send moves pOffset on by the header it took off pSize, and only building
\* the packet anew brings it back (client.cpp:54-77).
StallsOnlyWornOut ==
  hung => \E pk \in {out, src} :
            /\ pk.sends > 0
            /\ pk.size + HeaderSize * (pk.sends + 1) >= BufferSize

\* A message that is queued leaves in full unless the connection ends, or the
\* thread stalls (Server::Send and the write set, server.cpp:1116, 1145).
QueuedLeaves ==
  \A b \in 1 .. MaxBytes :
    conn = "open" /\ total >= b ~> Len(wire) >= b \/ conn # "open" \/ todc \/ hung

\* "Send Queue exceeds 100 for Battle Server %s so was disconnected"
\* (client.cpp:274).
LongQueueDisconnects ==
  Len(queue) > DisconnectLimit ~> todc \/ conn # "open" \/ hung \/ Len(queue) <= DisconnectLimit
===============================================================================
