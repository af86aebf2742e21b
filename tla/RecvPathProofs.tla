---------------------------- MODULE RecvPathProofs ----------------------------
(* Theorems about RecvPath, for every buffer size, header and packet sizes. *)
EXTENDS RecvPath, SequenceTheorems, TLAPS

\* The ends of the packets grow along the stream, by sizes peers send.
Increasing ==
  /\ \A i \in 1 .. Len(ends) : ends[i] > 0 /\ SizeOf(i) \in Lengths
  /\ \A i, j \in 1 .. Len(ends) : i < j => ends[i] < ends[j]

FramingInv == TypeOK /\ Increasing /\ Framed

LEMMA LengthsAreNat == \A len \in Lengths : len \in Nat /\ len > 0
BY SizesOK

LEMMA Bounds == BufferSize \in Nat /\ 0 \in 0 .. BufferSize /\ 0 \in 0 .. Wrap - 1
BY SizesOK

\* At most one packet begins at an offset, and one does at every packet's end
\* but the last.
LEMMA PacketsAtOffset ==
  ASSUME TypeOK, Increasing
  PROVE  /\ \A i, j \in PacketsAt(consumed) : i = j
         /\ \A k \in 0 .. Len(ends) - 1 :
              consumed = (IF k = 0 THEN 0 ELSE ends[k]) => k + 1 \in PacketsAt(consumed)
<1>1. Len(ends) \in Nat /\ \A i \in 1 .. Len(ends) : ends[i] \in Nat
  BY DEF TypeOK
<1>2. ASSUME NEW i \in PacketsAt(consumed), NEW j \in PacketsAt(consumed), i < j PROVE FALSE
  <2>1. /\ i \in 1 .. Len(ends) /\ j \in 2 .. Len(ends) /\ j - 1 \in 1 .. Len(ends)
        /\ StartOf(i) = consumed /\ ends[j - 1] = consumed
    BY <1>1, <1>2 DEF PacketsAt, StartOf
  <2>2. CASE i = 1
    BY <1>1, <2>1, <2>2 DEF Increasing, StartOf
  <2>3. CASE i # 1
    <3>1. i - 1 \in 1 .. Len(ends) /\ i - 1 < j - 1 /\ ends[i - 1] = consumed
      BY <1>1, <1>2, <2>1, <2>3 DEF StartOf
    <3> QED
      BY <1>1, <2>1, <3>1 DEF Increasing
  <2> QED
    BY <2>2, <2>3
<1>3. \A i, j \in PacketsAt(consumed) : i = j
  BY <1>1, <1>2 DEF PacketsAt
<1>4. ASSUME NEW k \in 0 .. Len(ends) - 1, consumed = (IF k = 0 THEN 0 ELSE ends[k])
      PROVE  k + 1 \in PacketsAt(consumed)
  BY <1>1, <1>4 DEF PacketsAt, StartOf
<1> QED
  BY <1>3, <1>4

\* Bytes left in rcvbuf belong to a packet that begins where rcvbuf does.
LEMMA FrontPacket ==
  ASSUME FramingInv, consumed < Total
  PROVE  PacketsAt(consumed) # {}
<1>1. Len(ends) \in Nat /\ \A i \in 1 .. Len(ends) : ends[i] \in Nat
  BY DEF FramingInv, TypeOK
<1>2. ends # <<>> /\ Len(ends) # 0 /\ Total = ends[Len(ends)]
  BY <1>1 DEF Total, FramingInv, TypeOK
<1>3. CASE consumed = 0
  BY <1>1, <1>2, <1>3, PacketsAtOffset DEF FramingInv
<1>4. CASE consumed # 0
  <2>1. PICK k \in 1 .. Len(ends) : consumed = ends[k]
    BY <1>4 DEF FramingInv, Framed
  <2>2. k # Len(ends)
    BY <1>1, <1>2, <2>1
  <2>3. k \in 0 .. Len(ends) - 1 /\ k # 0
    BY <1>1, <2>1, <2>2
  <2> QED
    BY <2>1, <2>3, PacketsAtOffset DEF FramingInv
<1> QED
  BY <1>3, <1>4

\* Appending a packet to the stream.
LEMMA WriteFramed ==
  ASSUME FramingInv, NEW len \in Lengths, Write(len)
  PROVE  FramingInv'
<1>1. /\ ends \in Seq(Nat) /\ Len(ends) \in Nat /\ \A i \in 1 .. Len(ends) : ends[i] \in Nat
      /\ len \in Nat /\ len > 0
  BY SizesOK DEF FramingInv, TypeOK
<1>2. Total \in Nat /\ \A i \in 1 .. Len(ends) : ends[i] <= Total
  <2>1. CASE ends = <<>>
    BY <2>1 DEF Total
  <2>2. CASE ends # <<>>
    <3>1. Len(ends) \in 1 .. Len(ends) /\ Total = ends[Len(ends)]
      BY <1>1, <2>2 DEF Total
    <3>2. ASSUME NEW i \in 1 .. Len(ends) PROVE ends[i] <= Total
      <4>1. i = Len(ends) \/ i < Len(ends)
        BY <1>1
      <4> QED
        BY <1>1, <3>1, <4>1 DEF FramingInv, Increasing
    <3> QED
      BY <1>1, <3>1, <3>2
  <2> QED
    BY <2>1, <2>2
<1>3. /\ ends' = Append(ends, Total + len) /\ ends' \in Seq(Nat)
      /\ Len(ends') = Len(ends) + 1 /\ ends'[Len(ends) + 1] = Total + len
      /\ \A i \in 1 .. Len(ends) : ends'[i] = ends[i]
      /\ UNCHANGED <<conn, bufVars, todc, pc>>
  BY <1>1, <1>2 DEF Write
<1>4. Total' = Total + len
  BY <1>1, <1>3 DEF Total
<1>5. TypeOK'
  BY <1>3 DEF FramingInv, TypeOK, bufVars, sizeVars
<1>6. Increasing'
  <2>1. \A i \in 1 .. Len(ends') : i \in 1 .. Len(ends) \/ i = Len(ends) + 1
    BY <1>1, <1>3
  <2>2. ASSUME NEW i \in 1 .. Len(ends') PROVE ends'[i] > 0 /\ SizeOf(i)' \in Lengths
    <3>1. CASE i \in 1 .. Len(ends)
      BY <1>1, <1>3, <3>1 DEF FramingInv, Increasing, SizeOf, StartOf
    <3>2. CASE i = Len(ends) + 1
      <4>1. StartOf(i)' = Total
        BY <1>1, <1>3, <3>2 DEF StartOf, Total
      <4> QED
        BY <1>1, <1>2, <1>3, <3>2, <4>1 DEF SizeOf
    <3> QED
      BY <2>1, <3>1, <3>2
  <2>3. ASSUME NEW i \in 1 .. Len(ends'), NEW j \in 1 .. Len(ends'), i < j
        PROVE  ends'[i] < ends'[j]
    <3>1. CASE j \in 1 .. Len(ends)
      <4>1. i \in 1 .. Len(ends)
        BY <1>1, <2>1, <2>3, <3>1
      <4> QED
        BY <1>3, <2>3, <3>1, <4>1 DEF FramingInv, Increasing
    <3>2. CASE j = Len(ends) + 1
      <4>1. i \in 1 .. Len(ends)
        BY <1>1, <2>1, <2>3, <3>2
      <4> QED
        BY <1>1, <1>2, <1>3, <3>2, <4>1
    <3> QED
      BY <2>1, <3>1, <3>2
  <2> QED
    BY <2>2, <2>3 DEF Increasing
<1>7. Framed'
  <2>1. consumed \in {0} \cup {ends'[i] : i \in 1 .. Len(ends')}
    BY <1>1, <1>3 DEF FramingInv, Framed
  <2>2. \A i \in PacketsAt(consumed) : i \in PacketsAt(consumed)' /\ SizeOf(i)' = SizeOf(i)
    BY <1>1, <1>3 DEF PacketsAt, StartOf, SizeOf, bufVars
  <2>3. consumed' = consumed /\ rcvread' = rcvread /\ packetsize' = packetsize /\ hassize' = hassize
    BY <1>3 DEF bufVars, sizeVars
  <2>4. consumed + rcvread <= Total'
    BY <1>1, <1>2, <1>4 DEF FramingInv, Framed, TypeOK
  <2> QED
    BY <2>1, <2>2, <2>3, <2>4 DEF FramingInv, Framed
<1> QED
  BY <1>5, <1>6, <1>7 DEF FramingInv
-------------------------------------------------------------------------------
(* Cutting packets off.                                                    *)

LEMMA SmallMod == ASSUME NEW x \in Nat, NEW w \in Nat, x < w PROVE x % w = x
OBVIOUS

LEMMA WrappedMod ==
  ASSUME NEW x \in Nat, NEW w \in Nat, w > 0, w <= x, x < w + w PROVE x % w = x - w
OBVIOUS

LEMMA ModRange == ASSUME NEW x \in Nat, NEW w \in Nat, w > 0 PROVE x % w \in 0 .. w - 1
OBVIOUS

\* A wrapped size is below MinSize, so a size that cuts is the packet's own.
LEMMA CuttingSize ==
  ASSUME FramingInv, NEW i \in PacketsAt(consumed), SizeOf(i) % Wrap >= MinSize
  PROVE  SizeOf(i) % Wrap = SizeOf(i) /\ consumed + SizeOf(i) = ends[i]
<1>1. /\ i \in 1 .. Len(ends) /\ SizeOf(i) \in Lengths /\ StartOf(i) = consumed
      /\ ends[i] \in Nat /\ consumed \in Nat
  BY DEF FramingInv, TypeOK, Increasing, PacketsAt
<1>2. SizeOf(i) \in HeaderSize .. Wrap + HeaderSize - 1
  BY <1>1, SizesOK
<1>3. SizeOf(i) < Wrap
  <2>1. SUFFICES ASSUME SizeOf(i) >= Wrap PROVE FALSE
    BY <1>2, SizesOK
  <2>2. SizeOf(i) % Wrap = SizeOf(i) - Wrap
    BY <1>2, <2>1, SizesOK, WrappedMod
  <2> QED
    BY <1>2, <2>2, SizesOK
<1>4. SizeOf(i) % Wrap = SizeOf(i)
  BY <1>2, <1>3, SizesOK, SmallMod
<1>5. consumed + SizeOf(i) = ends[i]
  BY <1>1 DEF SizeOf
<1> QED
  BY <1>4, <1>5

\* The packet i at the front is cut off "read" bytes.
Cuts(i, read) ==
  /\ consumed' = ends[i] /\ SizeOf(i) \in MinSize .. BufferSize
  /\ SizeOf(i) <= read
  /\ rcvread' = read - SizeOf(i)
  /\ hassize' = FALSE /\ packetsize' = 0
  /\ CheckClientPackets(SizeOf(i))

\* Nothing is cut off; a size that is known is the one of the packet at the front.
Waits(read) ==
  /\ rcvread' = read /\ UNCHANGED <<consumed, inbuf, handled, todc>>
  /\ packetsize' # 0 =>
       /\ hassize' /\ rcvread' >= HeaderSize
       /\ \E i \in PacketsAt(consumed) : packetsize' = SizeOf(i) % Wrap
  /\ hassize' \in BOOLEAN /\ packetsize' \in 0 .. Wrap - 1

\* What one call of ProcessRecv does to the framing: nothing is cut, or
\* exactly the packet at the front is.
LEMMA ProcessRecvCuts ==
  ASSUME FramingInv, NEW n \in Nat, ProcessRecv(n), ends' = ends,
         rcvread + n <= BufferSize, consumed + rcvread + n <= Total
  PROVE  Waits(rcvread + n) \/ \E i \in PacketsAt(consumed) : Cuts(i, rcvread + n)
<1> DEFINE read == rcvread + n
           reading == (~hassize \/ packetsize = 0) /\ read >= HeaderSize
<1>1. /\ consumed \in Nat /\ rcvread \in 0 .. BufferSize /\ read \in Nat
      /\ packetsize \in 0 .. Wrap - 1 /\ hassize \in BOOLEAN
      /\ Len(ends) \in Nat
  BY SizesOK DEF FramingInv, TypeOK
<1>2. PICK size \in (IF reading THEN FrontSizes ELSE {packetsize}) :
        IF (hassize \/ reading) /\ read >= size /\ size >= MinSize
          THEN CutOff(size, read)
          ELSE /\ rcvread' = read
               /\ hassize' = (hassize \/ reading) /\ packetsize' = size
               /\ UNCHANGED <<consumed, inbuf, handled, todc>>
  BY Zenon DEF ProcessRecv
<1>3. read > 0 => PacketsAt(consumed) # {}
  <2>1. read > 0 => consumed < Total
    <3>1. Total \in Nat
      BY <1>1 DEF Total, FramingInv, TypeOK
    <3> QED
      BY <1>1, <3>1
  <2> QED
    BY <2>1, FrontPacket
<1>4. reading \/ packetsize # 0 => \E i \in PacketsAt(consumed) : size = SizeOf(i) % Wrap
  <2>1. CASE reading
    <3>1. FrontSizes = {SizeOf(i) % Wrap : i \in PacketsAt(consumed)}
      BY <1>1, <1>3, <2>1, SizesOK DEF FrontSizes
    <3> QED
      BY <1>2, <2>1, <3>1
  <2>2. CASE ~reading /\ packetsize # 0
    BY <1>2, <2>2 DEF FramingInv, Framed
  <2> QED
    BY <2>1, <2>2
<1>5. CASE (hassize \/ reading) /\ read >= size /\ size >= MinSize
  <2>1. CutOff(size, read)
    BY <1>2, <1>5
  <2>2. PICK i \in PacketsAt(consumed) : size = SizeOf(i) % Wrap
    <3>1. ~reading => size = packetsize
      BY <1>2
    <3>2. reading \/ packetsize # 0
      BY <1>1, <1>5, <3>1, SizesOK
    <3> QED
      BY <1>4, <3>2
  <2>3. size = SizeOf(i) /\ consumed + size = ends[i]
    BY <1>5, <2>2, CuttingSize
  <2>4. /\ consumed' = ends[i] /\ rcvread' = read - SizeOf(i)
        /\ hassize' = FALSE /\ packetsize' = 0 /\ CheckClientPackets(SizeOf(i))
    BY <2>1, <2>3 DEF CutOff
  <2>5. SizeOf(i) \in Lengths
    BY DEF FramingInv, Increasing, PacketsAt
  <2>6. SizeOf(i) \in MinSize .. BufferSize /\ SizeOf(i) <= read
    <3>1. SizeOf(i) \in Nat
      BY <2>5, LengthsAreNat
    <3>2. SizeOf(i) <= read /\ MinSize <= SizeOf(i)
      BY <1>5, <2>3
    <3> QED
      BY <1>1, <3>1, <3>2, SizesOK
  <2>7. Cuts(i, read)
    BY <2>4, <2>6 DEF Cuts
  <2> QED
    BY <2>7
<1>6. CASE ~((hassize \/ reading) /\ read >= size /\ size >= MinSize)
  <2>1. /\ rcvread' = read
        /\ hassize' = (hassize \/ reading) /\ packetsize' = size
        /\ UNCHANGED <<consumed, inbuf, handled, todc>>
    BY <1>2, <1>6
  <2>2. CASE reading \/ packetsize # 0
    <3>1. PICK i \in PacketsAt(consumed) : size = SizeOf(i) % Wrap
      BY <1>4, <2>2
    <3>2. SizeOf(i) \in Nat
      <4>1. SizeOf(i) \in Lengths
        BY DEF FramingInv, Increasing, PacketsAt
      <4> QED
        BY <4>1, LengthsAreNat
    <3>3. size \in 0 .. Wrap - 1
      BY <3>1, <3>2, SizesOK, ModRange
    <3>4. hassize' /\ rcvread' >= HeaderSize
      <4>1. CASE reading
        BY <2>1, <4>1
      <4>2. CASE ~reading /\ packetsize # 0
        <5>1. hassize /\ rcvread >= HeaderSize
          BY <4>2 DEF FramingInv, Framed
        <5>2. hassize' = TRUE
          BY <2>1, <5>1, Zenon
        <5> QED
          BY <1>1, <2>1, <5>1, <5>2, SizesOK
      <4> QED
        BY <2>2, <4>1, <4>2
    <3> QED
      BY <2>1, <3>1, <3>3, <3>4 DEF Waits
  <2>3. CASE ~reading /\ packetsize = 0
    <3>1. size = 0 /\ hassize' \in BOOLEAN
      BY <1>1, <1>2, <2>1, <2>3
    <3>2. packetsize' = 0 /\ 0 \in 0 .. Wrap - 1
      BY <2>1, <3>1, SizesOK
    <3> QED
      BY <2>1, <3>1, <3>2 DEF Waits
  <2> QED
    BY <2>2, <2>3
<1> QED
  BY <1>5, <1>6
\* The dispatch writes a packet number to inbuf and the history.
LEMMA DispatchType ==
  ASSUME TypeOK, NEW size, CheckClientPackets(size)
  PROVE  inbuf' \in Nat /\ handled' \in Seq(Nat) /\ todc' \in BOOLEAN
<1>1. PacketsAt(consumed) \subseteq Nat
  BY DEF PacketsAt, TypeOK
<1>2. inbuf' \in Nat
  BY <1>1 DEF CheckClientPackets, CopyToInbuf, TypeOK
<1>3. handled' \in {handled, Append(handled, inbuf')}
  BY DEF CheckClientPackets
<1>4. handled' \in Seq(Nat)
  BY <1>2, <1>3 DEF TypeOK
<1>5. todc' \in BOOLEAN
  BY DEF CheckClientPackets, TypeOK
<1> QED
  BY <1>2, <1>4, <1>5

LEMMA ProcessRecvFramed ==
  ASSUME FramingInv, NEW n \in Nat, ProcessRecv(n), UNCHANGED <<conn, ends>>,
         pc' \in {"recv", "finish"},
         rcvread + n <= BufferSize, consumed + rcvread + n <= Total
  PROVE  FramingInv'
<1>1. /\ Increasing' /\ Total' = Total
      /\ \A i : SizeOf(i)' = SizeOf(i) /\ StartOf(i)' = StartOf(i)
      /\ Len(ends) \in Nat /\ \A i \in 1 .. Len(ends) : ends[i] \in Nat
  BY DEF FramingInv, TypeOK, Increasing, Total, SizeOf, StartOf
<1>2. CASE Waits(rcvread + n)
  <2>1. TypeOK'
    BY <1>2 DEF Waits, FramingInv, TypeOK
  <2>2. PacketsAt(consumed)' = PacketsAt(consumed)
    BY <1>1, <1>2 DEF Waits, PacketsAt
  <2>3. consumed' = consumed /\ rcvread' = rcvread + n /\ consumed + (rcvread + n) <= Total
    BY <1>2 DEF Waits, FramingInv, TypeOK
  <2>4. packetsize' # 0 =>
          /\ hassize' /\ rcvread' >= HeaderSize
          /\ \E i \in PacketsAt(consumed)' : packetsize' = SizeOf(i)' % Wrap
    BY <1>1, <1>2, <2>2 DEF Waits
  <2>5. Framed'
    BY <1>1, <2>3, <2>4 DEF FramingInv, Framed
  <2> QED
    BY <1>1, <2>1, <2>5 DEF FramingInv
<1>3. ASSUME NEW i \in PacketsAt(consumed), Cuts(i, rcvread + n) PROVE FramingInv'
  <2>1. /\ consumed' = ends[i] /\ rcvread' = (rcvread + n) - SizeOf(i)
        /\ SizeOf(i) \in MinSize .. BufferSize /\ SizeOf(i) <= rcvread + n
        /\ hassize' = FALSE /\ packetsize' = 0
    BY <1>3, Zenon DEF Cuts
  <2>6. i \in 1 .. Len(ends) /\ SizeOf(i) = ends[i] - consumed
    BY DEF PacketsAt, SizeOf
  <2>2. inbuf' \in Nat /\ handled' \in Seq(Nat) /\ todc' \in BOOLEAN
    BY <1>3, DispatchType DEF Cuts, FramingInv
  <2>3. consumed' \in Nat /\ rcvread' \in 0 .. BufferSize /\ consumed' + rcvread' <= Total
    <3>1. /\ ends[i] \in Nat /\ consumed \in Nat /\ rcvread \in Nat /\ BufferSize \in Nat
          /\ Total \in Nat
      BY <1>1, <2>6, Bounds DEF FramingInv, TypeOK, Total
    <3>2. SizeOf(i) \in Nat
      BY <2>1, <2>6, <3>1, SizesOK
    <3> HIDE DEF SizeOf
    <3> QED
      BY <1>1, <2>1, <2>6, <3>1, <3>2
  <2>4. TypeOK'
    BY <2>1, <2>2, <2>3, Bounds DEF FramingInv, TypeOK
  <2>5. Framed'
    BY <1>1, <2>1, <2>3, <2>6 DEF Framed
  <2> QED
    BY <1>1, <2>4, <2>5 DEF FramingInv
<1> QED
  BY <1>2, <1>3, ProcessRecvCuts

\* A step that leaves the stream and the buffers alone.
LEMMA SameBuffers ==
  ASSUME FramingInv, UNCHANGED <<ends, bufVars>>, TypeOK'
  PROVE  FramingInv'
BY DEF FramingInv, Increasing, Framed, Total, SizeOf, StartOf, PacketsAt, bufVars, sizeVars

LEMMA InitFramed == Init => FramingInv
<1> SUFFICES ASSUME Init PROVE FramingInv
  OBVIOUS
<1>1. Len(ends) = 0 /\ Total = 0 /\ ends \in Seq(Nat) /\ handled \in Seq(Nat)
  BY DEF Init, Total
<1>2. TypeOK
  BY <1>1, Bounds DEF Init, TypeOK
<1>3. Framed /\ Increasing
  BY <1>1 DEF Init, Framed, Increasing
<1> QED
  BY <1>2, <1>3 DEF FramingInv

LEMMA CloseFramed == ASSUME FramingInv, Close PROVE FramingInv'
<1>1. Len(ends') = 0 /\ Total' = 0 /\ ends' \in Seq(Nat) /\ handled' \in Seq(Nat)
  BY DEF Close, Total
<1>2. TypeOK'
  BY <1>1, Bounds DEF Close, FramingInv, TypeOK
<1>3. Framed' /\ Increasing'
  BY <1>1 DEF Close, Framed, Increasing
<1> QED
  BY <1>2, <1>3 DEF FramingInv

\* Every receive either leaves the buffers alone or is one call of ProcessRecv
\* within the bounds of rcvbuf and of the stream.
LEMMA RecvShape ==
  ASSUME FramingInv, SomeBytes \/ RecvNothing \/ RecvZero \/ RecvError
  PROVE  /\ UNCHANGED <<conn, ends>> /\ pc' = "finish"
         /\ \/ UNCHANGED bufVars /\ todc' \in BOOLEAN
            \/ \E n \in Nat : /\ ProcessRecv(n)
                             /\ rcvread + n <= BufferSize /\ consumed + rcvread + n <= Total
<1>1. /\ rcvread \in 0 .. BufferSize /\ consumed \in Nat /\ todc \in BOOLEAN
      /\ consumed + rcvread <= Total /\ BufferSize \in Nat
  BY SizesOK DEF FramingInv, TypeOK, Framed
<1>2. Turn
  BY DEF SomeBytes, RecvBytes, RecvNothing, RecvZero, RecvError
<1>3. UNCHANGED <<conn, ends>> /\ pc' = "finish"
  BY <1>2 DEF Turn
<1>4. CASE SomeBytes
  <2>1. PICK n \in 1 .. BufferSize : RecvBytes(n)
    BY <1>4 DEF SomeBytes
  <2>2. /\ ProcessRecv(n) /\ n \in 1 .. BufferSize - rcvread /\ consumed + rcvread + n <= Total
    BY <2>1 DEF RecvBytes
  <2>3. n \in Nat /\ rcvread + n <= BufferSize
    BY <1>1, <2>2
  <2> QED
    BY <1>3, <2>2, <2>3
<1>5. CASE RecvNothing \/ RecvZero \/ RecvError
  <2>1. \/ UNCHANGED bufVars /\ todc' \in {todc, TRUE}
        \/ ProcessRecv(0)
    BY <1>5 DEF RecvNothing, RecvZero, RecvError
  <2>2. rcvread + 0 <= BufferSize /\ consumed + rcvread + 0 <= Total
    BY <1>1
  <2>3. UNCHANGED bufVars /\ todc' \in {todc, TRUE} => todc' \in BOOLEAN
    BY <1>1
  <2> QED
    BY <1>3, <2>1, <2>2, <2>3
<1> QED
  BY <1>4, <1>5

LEMMA NextFramed == FramingInv /\ [Next]_vars => FramingInv'
<1> SUFFICES ASSUME FramingInv, [Next]_vars PROVE FramingInv'
  OBVIOUS
<1>1. CASE Open \/ PeerClose \/ PeerReset \/ Doom \/ Keep \/ UNCHANGED vars
  <2>1. TypeOK' /\ UNCHANGED <<ends, bufVars>>
    BY <1>1 DEF Open, PeerClose, PeerReset, Doom, Keep, FramingInv, TypeOK, bufVars, sizeVars, vars
  <2> QED
    BY <2>1, SameBuffers
<1>2. CASE \E len \in Lengths : Write(len)
  BY <1>2, WriteFramed
<1>3. CASE SomeBytes \/ RecvNothing \/ RecvZero \/ RecvError
  <2>1. CASE UNCHANGED bufVars /\ todc' \in BOOLEAN
    <3>1. TypeOK'
      BY <1>3, <2>1, RecvShape DEF FramingInv, TypeOK, bufVars, sizeVars
    <3> QED
      BY <1>3, <2>1, <3>1, RecvShape, SameBuffers
  <2>2. CASE \E n \in Nat : /\ ProcessRecv(n)
                           /\ rcvread + n <= BufferSize /\ consumed + rcvread + n <= Total
    BY <1>3, <2>2, RecvShape, ProcessRecvFramed
  <2> QED
    BY <1>3, <2>1, <2>2, RecvShape
<1>4. CASE Close
  BY <1>4, CloseFramed
<1> QED
  BY <1>1, <1>2, <1>3, <1>4 DEF Next, Thread, Environment

\* rcvread never exceeds the buffer, whatever sizes peers declare and however
\* the stream is cut into receives.
THEOREM RecvTypeCorrect == Spec => []TypeOK
<1>1. FramingInv => TypeOK
  BY DEF FramingInv
<1> QED
  BY InitFramed, NextFramed, <1>1, PTL DEF Spec

\* rcvbuf begins at a packet boundary in every reachable state, and a size
\* remembered between two receives is that packet's.
THEOREM FramingHolds == Spec => []Framed
<1>1. FramingInv => Framed
  BY DEF FramingInv
<1> QED
  BY InitFramed, NextFramed, <1>1, PTL DEF Spec

\* A packet that is too small, too large or of wrapped size stays in front, so
\* nothing behind it is ever dispatched.
THEOREM BadFramesBlock == Spec => NothingAfterBadFrame
<1> DEFINE A == \A i \in PacketsAt(consumed) :
                  SizeOf(i) \notin MinSize .. BufferSize => handled' \in {handled, <<>>}
<1>1. ASSUME FramingInv, [Next]_vars PROVE [A]_vars
  <2>1. CASE UNCHANGED handled \/ Close
    BY <2>1 DEF Close
  <2>2. CASE SomeBytes \/ RecvNothing \/ RecvZero \/ RecvError
    <3>1. CASE UNCHANGED bufVars
      BY <3>1 DEF bufVars
    <3>2. CASE \E n \in Nat : /\ ProcessRecv(n)
                             /\ rcvread + n <= BufferSize /\ consumed + rcvread + n <= Total
      <4>1. PICK n \in Nat : /\ ProcessRecv(n)
                             /\ rcvread + n <= BufferSize /\ consumed + rcvread + n <= Total
        BY <3>2
      <4>2. Waits(rcvread + n) \/ \E i \in PacketsAt(consumed) : Cuts(i, rcvread + n)
        BY <1>1, <2>2, <4>1, RecvShape, ProcessRecvCuts
      <4>3. UNCHANGED handled \/ \E i \in PacketsAt(consumed) : SizeOf(i) \in MinSize .. BufferSize
        BY <4>2, Zenon DEF Waits, Cuts
      <4>4. \A i, j \in PacketsAt(consumed) : i = j
        BY <1>1, PacketsAtOffset DEF FramingInv
      <4> QED
        BY <4>3, <4>4
    <3> QED
      BY <1>1, <2>2, <3>1, <3>2, RecvShape
  <2> QED
    BY <1>1, <2>1, <2>2
      DEF Next, Thread, Environment, Open, Write, PeerClose, PeerReset, Doom, Keep, bufVars, vars
<1> QED
  BY <1>1, InitFramed, NextFramed, PTL DEF Spec, NothingAfterBadFrame

-------------------------------------------------------------------------------
(* RecvPath implements PacketFifo.                                         *)

\* The packet dispatched last, 0 for none.
LastHandled == IF handled = <<>> THEN 0 ELSE handled[Len(handled)]

\* Until the slot is doomed, as many packets are dispatched as are cut off, and inbuf
\* holds the one dispatched last.
InStep ==
  /\ Len(handled) <= Len(ends)
  /\ ~todc => /\ consumed = IF Len(handled) = 0 THEN 0 ELSE ends[Len(handled)]
              /\ inbuf = LastHandled

\* The packet at the front of rcvbuf is the next one to dispatch.
LEMMA FrontIsNext ==
  ASSUME FramingInv, InStep, ~todc, NEW i \in PacketsAt(consumed)
  PROVE  i = Len(handled) + 1 /\ Len(handled) < Len(ends)
<1> DEFINE k == Len(handled)
<1>1. /\ Len(ends) \in Nat /\ k \in Nat /\ k <= Len(ends)
      /\ \A j \in 1 .. Len(ends) : ends[j] \in Nat
      /\ i \in 1 .. Len(ends) /\ StartOf(i) = consumed
  BY DEF FramingInv, TypeOK, InStep, PacketsAt
<1>2. ASSUME k = Len(ends) PROVE FALSE
  <2>1. k \in 1 .. Len(ends) /\ consumed = ends[k]
    BY <1>1, <1>2 DEF InStep
  <2>2. CASE i = 1
    BY <1>1, <2>1, <2>2 DEF StartOf, FramingInv, Increasing
  <2>3. CASE i # 1
    <3>1. i - 1 \in 1 .. Len(ends) /\ i - 1 < k /\ ends[i - 1] = ends[k]
      BY <1>1, <1>2, <2>1, <2>3 DEF StartOf
    <3> QED
      BY <1>1, <2>1, <3>1 DEF FramingInv, Increasing
  <2> QED
    BY <2>2, <2>3
<1>3. k \in 0 .. Len(ends) - 1 /\ consumed = (IF k = 0 THEN 0 ELSE ends[k])
  BY <1>1, <1>2 DEF InStep
<1>4. k + 1 \in PacketsAt(consumed)
  BY <1>3, PacketsAtOffset DEF FramingInv
<1>5. i = k + 1
  BY <1>4, PacketsAtOffset DEF FramingInv
<1> QED
  BY <1>1, <1>3, <1>5

\* What the stream tells of its packets while nothing is written.
LEMMA SameFilling ==
  ASSUME ends' = ends
  PROVE  Filling' = Filling
BY DEF Filling, SizeOf, StartOf

\* A packet written is one more, and changes nothing about those before it.
LEMMA FillingGrows ==
  ASSUME TypeOK, NEW e, ends' = Append(ends, e)
  PROVE  \E fills \in BOOLEAN : Filling' = Append(Filling, fills)
<1>0. PICK n \in Nat : n = Len(ends)
  BY DEF TypeOK
<1> DEFINE fills == SizeOf(n + 1)' = BufferSize
<1>1. /\ n = Len(ends) /\ ends \in Seq(Nat) /\ Len(ends') = n + 1
      /\ \A i \in 1 .. n : ends'[i] = ends[i]
  BY <1>0 DEF TypeOK
<1>2. ASSUME NEW i \in 1 .. n PROVE SizeOf(i)' = SizeOf(i)
  <2>1. i # 1 => i - 1 \in 1 .. n
    BY <1>1, <1>2
  <2> QED
    BY <1>1, <1>2, <2>1 DEF SizeOf, StartOf
<1>3. /\ Filling \in Seq(BOOLEAN) /\ Len(Filling) = n
      /\ \A i \in 1 .. n : Filling[i] = (SizeOf(i) = BufferSize)
  <2>1. Filling = [i \in 1 .. n |-> SizeOf(i) = BufferSize]
    BY <1>1, Zenon DEF Filling
  <2>2. Filling \in [1 .. n -> BOOLEAN]
    BY <2>1
  <2>3. ASSUME NEW i \in 1 .. n PROVE Filling[i] = (SizeOf(i) = BufferSize)
    BY <2>1, Zenon
  <2>4. Filling \in Seq(BOOLEAN) /\ Len(Filling) = n
    BY <2>2
  <2> QED
    BY <2>3, <2>4, Zenon
<1>4. Filling' \in Seq(BOOLEAN) /\ Len(Filling') = n + 1 /\ Filling'[n + 1] = fills
  <2>1. Filling' = [i \in 1 .. n + 1 |-> SizeOf(i)' = BufferSize]
    BY <1>1 DEF Filling
  <2>2. Filling' \in [1 .. n + 1 -> BOOLEAN]
    BY <2>1
  <2>3. n + 1 \in 1 .. n + 1 /\ n + 1 \in Nat
    BY <1>1
  <2>4. Filling'[n + 1] = fills
    <3>1. ASSUME NEW i \in 1 .. n + 1 PROVE Filling'[i] = (SizeOf(i)' = BufferSize)
      BY <1>1 DEF Filling
    <3> QED
      BY <2>3, <3>1, Zenon
  <2>5. Filling' \in Seq(BOOLEAN) /\ Len(Filling') = n + 1
    BY <2>2, <2>3
  <2> QED
    BY <2>4, <2>5
<1>5. \A i \in 1 .. n : Filling'[i] = Filling[i]
  <2>1. ASSUME NEW i \in 1 .. n PROVE Filling'[i] = Filling[i]
    <3>1. Filling'[i] = (SizeOf(i)' = BufferSize)
      BY <1>1 DEF Filling
    <3>2. (SizeOf(i)' = BufferSize) = (SizeOf(i) = BufferSize)
      <4> HIDE DEF SizeOf
      <4> QED
        BY <1>2, Zenon
    <3> QED
      BY <1>3, <3>1, <3>2, Zenon
  <2> QED
    BY <2>1
<1>6. fills \in BOOLEAN
  OBVIOUS
<1> HIDE DEF fills
<1>7. /\ Append(Filling, fills) \in Seq(BOOLEAN) /\ Len(Append(Filling, fills)) = n + 1
      /\ Append(Filling, fills)[n + 1] = fills
      /\ \A i \in 1 .. n : Append(Filling, fills)[i] = Filling[i]
  BY <1>1, <1>3, <1>6, AppendProperties
<1>8. \A i \in 1 .. n + 1 : Filling'[i] = Append(Filling, fills)[i]
  <2>1. ASSUME NEW i \in 1 .. n + 1 PROVE i = n + 1 \/ i \in 1 .. n
    BY <1>1
  <2> QED
    BY <1>4, <1>5, <1>7, <2>1, Zenon
<1>9. Filling' = Append(Filling, fills)
  BY <1>4, <1>7, <1>8, SeqEqual, Zenon
<1> QED
  BY <1>6, <1>9

\* The packet that is cut off makes the next dispatch: of itself, unless it fills
\* inbuf, and of the packet before it then.
LEMMA CutIsDispatched ==
  ASSUME FramingInv, InStep, ~todc, NEW i \in PacketsAt(consumed), NEW read, Cuts(i, read)
  PROVE  /\ consumed' = ends[i] /\ ~todc'
         /\ i = Len(handled) + 1 /\ Len(handled) < Len(ends) /\ SizeOf(i) \in MinSize .. BufferSize
         /\ inbuf' = IF SizeOf(i) = BufferSize THEN LastHandled ELSE i
         /\ handled' = Append(handled, inbuf')
<1>1. /\ consumed' = ends[i] /\ SizeOf(i) \in MinSize .. BufferSize
      /\ CheckClientPackets(SizeOf(i))
  BY Zenon DEF Cuts
<1>2. ~(SizeOf(i) - HeaderSize > BufferSize)
  BY <1>1, SizesOK
<1>3. handled' = Append(handled, inbuf') /\ todc' = todc
  BY <1>1, <1>2, Zenon DEF CheckClientPackets
<1>4. i = Len(handled) + 1 /\ Len(handled) < Len(ends)
  BY FrontIsNext
<1>5. CASE SizeOf(i) = BufferSize
  <2>1. ~(SizeOf(i) < BufferSize)
    BY <1>5, SizesOK
  <2>2. inbuf' = inbuf
    BY <1>1, <2>1, Zenon DEF CheckClientPackets, CopyToInbuf
  <2> QED
    BY <1>1, <1>3, <1>4, <1>5, <2>2 DEF InStep
<1>6. CASE SizeOf(i) # BufferSize
  <2>1. SizeOf(i) < BufferSize
    BY <1>1, <1>6, SizesOK
  <2>2. inbuf' \in PacketsAt(consumed)
    BY <1>1, <2>1 DEF CheckClientPackets, CopyToInbuf
  <2>3. inbuf' = i
    BY <2>2, PacketsAtOffset DEF FramingInv
  <2> QED
    BY <1>1, <1>3, <1>4, <1>6, <2>3
<1> QED
  BY <1>5, <1>6

\* A receive makes the next dispatch of the stream or none.
LEMMA RecvInStep ==
  ASSUME FramingInv, InStep, SomeBytes \/ RecvNothing \/ RecvZero \/ RecvError
  PROVE  /\ InStep' /\ ends' = ends
         /\ Fifo!GetNext \/ Fifo!GetLatestAgain \/ UNCHANGED handled
<1>0. /\ TypeOK /\ Len(handled) <= Len(ends) /\ handled \in Seq(Nat) /\ ends \in Seq(Nat)
      /\ Len(handled) \in Nat /\ Len(ends) \in Nat
  BY DEF FramingInv, InStep, TypeOK
<1>1. ends' = ends
  BY RecvShape
<1>2. CASE UNCHANGED bufVars
  <2>1. todc' \in {todc, TRUE}
    <3>1. ASSUME NEW n, ProcessRecv(n), UNCHANGED bufVars PROVE FALSE \/ todc' \in {todc, TRUE}
      BY <3>1 DEF ProcessRecv, CutOff, CheckClientPackets
    <3> QED
      BY <1>2, <3>1, Zenon DEF SomeBytes, RecvBytes, RecvNothing, RecvZero, RecvError, Turn
  <2> QED
    BY <1>1, <1>2, <2>1 DEF InStep, LastHandled, bufVars
<1>3. CASE \E n \in Nat : /\ ProcessRecv(n)
                         /\ rcvread + n <= BufferSize /\ consumed + rcvread + n <= Total
  <2>1. PICK n \in Nat : /\ ProcessRecv(n)
                         /\ rcvread + n <= BufferSize /\ consumed + rcvread + n <= Total
    BY <1>3
  <2>2. CASE Waits(rcvread + n)
    BY <1>1, <2>2 DEF Waits, InStep, LastHandled
  <2>3. ASSUME NEW i \in PacketsAt(consumed), Cuts(i, rcvread + n)
        PROVE  InStep' /\ (Fifo!GetNext \/ Fifo!GetLatestAgain \/ UNCHANGED handled)
    <3>1. CASE todc
      <4>1. SizeOf(i) \in MinSize .. BufferSize /\ CheckClientPackets(SizeOf(i))
        BY <2>3, Zenon DEF Cuts
      <4>2. ~(SizeOf(i) - HeaderSize > BufferSize)
        BY <4>1, SizesOK
      <4>3. handled' = handled /\ todc' = TRUE
        BY <3>1, <4>1, <4>2, Zenon DEF CheckClientPackets
      <4> QED
        BY <1>1, <3>1, <4>3 DEF InStep
    <3>2. CASE ~todc
      <4> DEFINE packet == IF SizeOf(i) = BufferSize THEN LastHandled ELSE i
      <4>1. /\ consumed' = ends[i] /\ ~todc'
            /\ i = Len(handled) + 1 /\ Len(handled) < Len(ends)
            /\ inbuf' = packet /\ handled' = Append(handled, inbuf')
        BY <2>3, <3>2, CutIsDispatched
      <4>2. inbuf' \in Nat /\ i \in 1 .. Len(ends)
        <5>1. CheckClientPackets(SizeOf(i))
          BY <2>3, Zenon DEF Cuts
        <5> QED
          BY <1>0, <5>1, DispatchType DEF PacketsAt
      <4>3. /\ Len(handled') = i /\ handled' # <<>> /\ handled'[i] = inbuf'
        BY <1>0, <4>1, <4>2
      <4>4. InStep'
        BY <1>0, <1>1, <4>1, <4>2, <4>3 DEF InStep, LastHandled
      <4>5. Len(Filling) = Len(ends) /\ Filling[i] = (SizeOf(i) = BufferSize)
        BY <1>0, <4>2 DEF Filling
      <4>6. Filling' = Filling
        BY <1>1, SameFilling
      <4>7. Fifo!GetNext \/ Fifo!GetLatestAgain
        BY <4>1, <4>5, <4>6, Zenon DEF Fifo!GetNext, Fifo!GetLatestAgain, Fifo!Latest, LastHandled
      <4> QED
        BY <4>4, <4>7
    <3> QED
      BY <3>1, <3>2
  <2> QED
    BY <2>1, <2>2, <2>3, <1>1, RecvShape, ProcessRecvCuts DEF Waits
<1> QED
  BY <1>1, <1>2, <1>3, RecvShape

\* Every step of the receive path is a step of PacketFifo or a stutter.
LEMMA NextInStep ==
  ASSUME FramingInv, InStep, [Next]_vars
  PROVE  InStep' /\ [Fifo!FifoNext]_(Fifo!fifoVars)
<1>1. CASE Open \/ PeerClose \/ PeerReset \/ Doom \/ Keep \/ UNCHANGED vars
  <2>1. UNCHANGED <<ends, handled, consumed, inbuf>> /\ (todc' = todc \/ todc')
    BY <1>1 DEF Open, PeerClose, PeerReset, Doom, Keep, bufVars, vars
  <2>2. UNCHANGED Filling
    BY <2>1, SameFilling
  <2> QED
    BY <2>1, <2>2 DEF InStep, LastHandled, Fifo!fifoVars
<1>2. CASE \E len \in Lengths : Write(len)
  <2>1. PICK len \in Lengths : Write(len)
    BY <1>2
  <2>2. /\ ends \in Seq(Nat) /\ ends' = Append(ends, Total + len) /\ Total + len \in Nat
        /\ UNCHANGED <<consumed, handled, inbuf, todc>>
    BY <2>1, LengthsAreNat DEF Write, bufVars, FramingInv, TypeOK, Total
  <2>3. /\ Len(ends') = Len(ends) + 1 /\ Len(ends) \in Nat /\ Len(handled) \in Nat
        /\ \A j \in 1 .. Len(ends) : ends'[j] = ends[j]
    BY <2>2 DEF FramingInv, TypeOK
  <2>4. InStep'
    BY <2>2, <2>3 DEF InStep, LastHandled
  <2>5. \E fills \in BOOLEAN : Filling' = Append(Filling, fills)
    BY <2>2, FillingGrows DEF FramingInv
  <2>6. Fifo!Put
    BY <2>2, <2>5 DEF Fifo!Put
  <2> QED
    BY <2>4, <2>6 DEF Fifo!FifoNext
<1>3. CASE SomeBytes \/ RecvNothing \/ RecvZero \/ RecvError
  BY <1>3, RecvInStep, SameFilling DEF Fifo!FifoNext, Fifo!fifoVars
<1>4. CASE Close
  <2>1. ends' = <<>> /\ handled' = <<>> /\ consumed' = 0 /\ inbuf' = 0
    BY <1>4 DEF Close
  <2>2. Len(ends') = 0 /\ Len(handled') = 0 /\ Filling' = <<>>
    BY <2>1 DEF Filling
  <2>3. InStep' /\ Fifo!Drop
    BY <2>1, <2>2 DEF InStep, LastHandled, Fifo!Drop
  <2> QED
    BY <2>3 DEF Fifo!FifoNext
<1> QED
  BY <1>1, <1>2, <1>3, <1>4 DEF Next, Thread, Environment

\* The receive path implements PacketFifo: every packet cut off the stream makes one
\* dispatch, in the order written and however the receives look: of itself, whole,
\* unless its size is exactly BufferSize, and of the packet before it then.
THEOREM ReceivesInOrder == Spec => InOrder
<1>1. Init => InStep /\ Fifo!FifoInit
  <2>1. ASSUME Init PROVE InStep /\ Fifo!FifoInit
    <3>1. ends = <<>> /\ handled = <<>> /\ consumed = 0 /\ inbuf = 0
      BY <2>1 DEF Init
    <3>2. Len(handled) = 0 /\ Len(ends) = 0 /\ Filling = <<>>
      BY <3>1 DEF Filling
    <3> QED
      BY <3>1, <3>2 DEF InStep, LastHandled, Fifo!FifoInit
  <2> QED
    BY <2>1
<1>2. FramingInv /\ InStep /\ [Next]_vars => InStep' /\ [Fifo!FifoNext]_(Fifo!fifoVars)
  BY NextInStep
<1> QED
  BY <1>1, <1>2, InitFramed, NextFramed, PTL DEF Spec, InOrder, Fifo!FifoSpec

-------------------------------------------------------------------------------
(* The safety behind EveryPacketHandled: what the fairness has to add is    *)
(* only that the thread visits the slot and that bytes on their way arrive. *)

\* The front packet i makes the dispatch i: of itself when it fits inbuf, of the
\* packet dispatched before it otherwise.
Dispatches(i) ==
  /\ consumed' = ends[i]
  /\ handled' = Append(handled, IF Fits(i) THEN i ELSE LastHandled)
  /\ i = Len(handled) + 1

\* A visit to a slot whose front packet can leave rcvbuf dispatches that packet in its
\* turn, or the one before it when it fills inbuf, or leaves it incomplete and no
\* further from completion, or dooms the slot.
FrontComesCloser ==
  \A i \in PacketsAt(consumed) :
    Leaves(i) /\ ~todc /\ pc = "recv" /\ pc' = "finish" =>
      \/ todc'
      \/ Dispatches(i)
      \/ /\ UNCHANGED <<consumed, handled>>
         /\ rcvread' \in rcvread .. SizeOf(i) - 1
         /\ SomeBytes => rcvread' > rcvread

\* A packet that can leave and is whole does not wait in rcvbuf for more bytes.
LEMMA WholePacketLeaves ==
  ASSUME FramingInv, NEW i \in PacketsAt(consumed), Leaves(i), NEW n \in Nat, ProcessRecv(n),
         rcvread + n <= BufferSize, SizeOf(i) <= rcvread + n
  PROVE  ~Waits(rcvread + n)
<1> DEFINE read == rcvread + n
           reading == (~hassize \/ packetsize = 0) /\ read >= HeaderSize
<1>1. /\ rcvread \in Nat /\ read \in Nat /\ packetsize \in Nat /\ hassize \in BOOLEAN
      /\ SizeOf(i) \in Nat /\ MinSize <= SizeOf(i) /\ SizeOf(i) <= BufferSize
  BY SizesOK DEF FramingInv, TypeOK, Leaves
<1>2. PICK size \in (IF reading THEN FrontSizes ELSE {packetsize}) :
        IF (hassize \/ reading) /\ read >= size /\ size >= MinSize
          THEN CutOff(size, read)
          ELSE /\ rcvread' = read
               /\ hassize' = (hassize \/ reading) /\ packetsize' = size
               /\ UNCHANGED <<consumed, inbuf, handled, todc>>
  BY Zenon DEF ProcessRecv
<1>3. SizeOf(i) % Wrap = SizeOf(i)
  BY <1>1, SizesOK, SmallMod
<1>4. (hassize \/ reading) /\ size = SizeOf(i)
  <2>1. \A j \in PacketsAt(consumed) : j = i
    BY PacketsAtOffset DEF FramingInv
  <2>2. CASE reading
    <3>1. FrontSizes = {SizeOf(j) % Wrap : j \in PacketsAt(consumed)}
      BY DEF FrontSizes
    <3>2. size \in FrontSizes
      BY <1>2, <2>2
    <3> QED
      BY <1>3, <2>1, <2>2, <3>1, <3>2
  <2>3. CASE ~reading
    <3>1. hassize /\ packetsize # 0
      BY <1>1, <2>3, SizesOK
    <3>2. \E j \in PacketsAt(consumed) : packetsize = SizeOf(j) % Wrap
      BY <3>1 DEF FramingInv, Framed
    <3>3. size = packetsize
      BY <1>2, <2>3
    <3> QED
      BY <1>3, <2>1, <3>1, <3>2, <3>3
  <2> QED
    BY <2>2, <2>3
<1>5. CutOff(size, read)
  BY <1>1, <1>2, <1>4
<1>6. rcvread' = read - SizeOf(i)
  BY <1>4, <1>5 DEF CutOff
<1>7. rcvread' # read
  BY <1>1, <1>6, SizesOK
<1> QED
  BY <1>7 DEF Waits

\* A packet written on an open connection is never kept in rcvbuf once it is whole:
\* every visit to the slot cuts it off or has it wait for bytes still missing, also when
\* the socket has nothing more (Server::Recv, server.cpp:1004-1006); once cut off it is
\* the packet dispatched, unless its size is exactly BufferSize.
THEOREM WholePacketsDispatched == Spec => [][FrontComesCloser]_vars
<1>1. ASSUME FramingInv, InStep, [Next]_vars PROVE FrontComesCloser
  <2>1. SUFFICES ASSUME NEW i \in PacketsAt(consumed), Leaves(i), ~todc,
                        pc = "recv", pc' = "finish", ~todc'
                 PROVE  \/ Dispatches(i)
                        \/ /\ UNCHANGED <<consumed, handled>>
                           /\ rcvread' \in rcvread .. SizeOf(i) - 1
                           /\ SomeBytes => rcvread' > rcvread
    BY Zenon DEF FrontComesCloser
  <2>2. /\ rcvread \in Nat /\ consumed \in Nat /\ consumed + rcvread <= Total
        /\ rcvread <= BufferSize /\ SizeOf(i) \in Nat /\ SizeOf(i) > 0 /\ BufferSize \in Nat
    <3>1. /\ rcvread \in 0 .. BufferSize /\ consumed \in Nat /\ consumed + rcvread <= Total
      BY <1>1 DEF FramingInv, TypeOK, Framed
    <3>2. SizeOf(i) \in MinSize .. BufferSize
      BY <2>1, Zenon DEF Leaves
    <3> QED
      BY <3>1, <3>2, SizesOK
  <2>3. SomeBytes \/ RecvNothing \/ RecvZero \/ RecvError
    BY <1>1, <2>1, Zenon DEF Next, Thread, Environment, Open, Write, PeerClose, PeerReset, Doom,
                             Close, Keep, vars
  <2>4. ends' = ends
    BY <1>1, <2>3, RecvShape
  <2>5. ASSUME NEW n \in Nat, ProcessRecv(n),
               rcvread + n <= BufferSize, consumed + rcvread + n <= Total
        PROVE  \/ Dispatches(i)
               \/ /\ UNCHANGED <<consumed, handled>>
                  /\ rcvread' = rcvread + n /\ rcvread' < SizeOf(i)
    <3>1. Waits(rcvread + n) \/ \E j \in PacketsAt(consumed) : Cuts(j, rcvread + n)
      BY <1>1, <2>4, <2>5, ProcessRecvCuts
    <3>2. CASE Waits(rcvread + n)
      <4>1. ~(SizeOf(i) <= rcvread + n)
        BY <1>1, <2>1, <2>5, <3>2, WholePacketLeaves
      <4>2. UNCHANGED <<consumed, handled>> /\ rcvread' = rcvread + n
        BY <3>2, Zenon DEF Waits
      <4> QED
        BY <2>2, <2>5, <4>1, <4>2
    <3>3. ASSUME NEW j \in PacketsAt(consumed), Cuts(j, rcvread + n)
          PROVE  Dispatches(i)
      <4>1. j = i
        BY <1>1, PacketsAtOffset DEF FramingInv
      <4>2. /\ consumed' = ends[j] /\ j = Len(handled) + 1
            /\ SizeOf(j) \in MinSize .. BufferSize
            /\ handled' = Append(handled, IF SizeOf(j) = BufferSize THEN LastHandled ELSE j)
        BY <1>1, <2>1, <3>3, CutIsDispatched, Zenon
      <4>3. Fits(j) <=> SizeOf(j) # BufferSize
        BY <4>2, SizesOK DEF Fits
      <4> QED
        BY <4>1, <4>2, <4>3, Zenon DEF Dispatches
    <3> QED
      BY <3>1, <3>2, <3>3
  <2>6. ASSUME NEW n \in 1 .. BufferSize, RecvBytes(n)
        PROVE  \/ Dispatches(i)
               \/ /\ UNCHANGED <<consumed, handled>>
                  /\ rcvread' \in rcvread .. SizeOf(i) - 1 /\ rcvread' > rcvread
    <3>1. /\ ProcessRecv(n) /\ n \in Nat /\ n > 0
          /\ rcvread + n <= BufferSize /\ consumed + rcvread + n <= Total
      BY <2>2, <2>6 DEF RecvBytes
    <3> QED
      BY <2>2, <2>5, <3>1
  <2>7. CASE SomeBytes
    BY <2>6, <2>7 DEF SomeBytes
  <2>8. CASE ~SomeBytes
    <3>1. ProcessRecv(0) \/ (rcvread = 0 /\ UNCHANGED bufVars)
      BY <2>1, <2>2, <2>3, <2>8 DEF RecvNothing, RecvZero, RecvError
    <3>2. CASE ProcessRecv(0)
      <4>1. rcvread + 0 = rcvread /\ consumed + rcvread + 0 = consumed + rcvread
        BY <2>2
      <4>2. \/ Dispatches(i)
            \/ /\ UNCHANGED <<consumed, handled>>
               /\ rcvread' = rcvread + 0 /\ rcvread' < SizeOf(i)
        BY <2>2, <2>5, <3>2, <4>1
      <4> QED
        BY <2>2, <2>8, <4>1, <4>2
    <3>3. CASE rcvread = 0 /\ UNCHANGED bufVars
      BY <2>2, <2>8, <3>3 DEF bufVars
    <3> QED
      BY <3>1, <3>2, <3>3
  <2> QED
    BY <2>7, <2>8
<1>2. Init => InStep
  <2>1. ASSUME Init PROVE /\ handled = <<>> /\ Len(handled) = 0 /\ Len(ends) = 0
                           /\ consumed = 0 /\ inbuf = 0
    BY <2>1 DEF Init
  <2> QED
    BY <2>1 DEF InStep, LastHandled
<1>3. FramingInv /\ InStep /\ [Next]_vars => InStep'
  BY NextInStep
<1>4. FramingInv /\ InStep /\ [Next]_vars => [FrontComesCloser]_vars
  BY <1>1
<1> QED
  BY <1>2, <1>3, <1>4, InitFramed, NextFramed, PTL DEF Spec
===============================================================================
