---------------------------- MODULE SendPathProofs ----------------------------
(* Theorems about SendPath, for every buffer, block and packet size.        *)
EXTENDS SendPath, SequenceTheorems, TLAPS

Blocks(p) == \E k \in Nat : p = k * Block

LEMMA Bounds ==
  /\ BufferSize \in Nat /\ HeaderSize \in Nat /\ Block \in Nat
  /\ HeaderSize > 0 /\ 2 * HeaderSize <= Block /\ 2 * Block < BufferSize
  /\ OtherClients \in Nat /\ BeatSize \in Nat /\ BeatSize >= 3 * HeaderSize
  /\ \A size \in Sizes : size \in Nat /\ size >= 3 * HeaderSize
BY SizesOK

LEMMA BufferIsBlocks == Blocks(BufferSize)
BY SizesOK DEF Blocks

LEMMA DivBounds ==
  ASSUME NEW a \in Nat, NEW b \in Nat, b > 0
  PROVE  /\ a \div b \in Nat
         /\ b * (a \div b) \in Nat
         /\ b * (a \div b) <= a /\ a < b * (a \div b) + b
OBVIOUS

LEMMA LessBlocks ==
  ASSUME NEW k \in Nat, NEW m \in Nat, NEW b \in Nat, k * b < m * b
  PROVE  k * b + b <= m * b
<1>1. k < m
  OBVIOUS
<1>2. k + 1 <= m
  BY <1>1
<1>3. (k + 1) * b <= m * b
  BY <1>2
<1>4. (k + 1) * b = k * b + b
  OBVIOUS
<1> QED
  BY <1>3, <1>4

\* What padding returns: whole blocks, at least two, and less than one block
\* more than asked for when that is more than one block.
LEMMA PaddedProperties ==
  ASSUME NEW x \in Nat
  PROVE  /\ Padded(x) \in Nat /\ Padded(x) >= x /\ Padded(x) >= 2 * Block
         /\ Blocks(Padded(x))
         /\ Padded(x) = 2 * Block \/ Padded(x) < x + Block
<1>1. CASE x <= Block
  BY <1>1, Bounds DEF Padded, Blocks
<1>2. CASE x > Block
  <2> DEFINE k == (x + Block - 1) \div Block
  <2>1. /\ k \in Nat /\ Block * k \in Nat
        /\ Block * k <= x + Block - 1 /\ x + Block - 1 < Block * k + Block
    BY DivBounds, Bounds, <1>2
  <2>2. Padded(x) = Block * k
    BY <1>2, Bounds DEF Padded
  <2> HIDE DEF k
  <2>3. Block * k >= x /\ Block * k < x + Block
    BY <2>1, <1>2, Bounds
  <2>4. Block * k >= 2 * Block
    <3>1. k > 1
      <4>1. CASE k = 0
        BY <4>1, <2>3, <1>2, Bounds
      <4>2. CASE k = 1
        BY <4>2, <2>3, <1>2, Bounds
      <4> QED
        BY <4>1, <4>2, <2>1
    <3> QED
      BY <3>1, <2>1, Bounds
  <2>5. Blocks(Block * k)
    BY <2>1, Bounds DEF Blocks
  <2> QED
    BY <2>1, <2>2, <2>3, <2>4, <2>5
<1> QED
  BY <1>1, <1>2, Bounds

\* Padding what is left when the header is taken off whole blocks restores them.
LEMMA PaddedAgain ==
  ASSUME NEW p \in Nat, Blocks(p), p >= 2 * Block
  PROVE  Padded(p - HeaderSize) = p
<1> DEFINE x == p - HeaderSize
<1>1. x \in Nat /\ x > Block
  BY Bounds
<1>2. Blocks(Padded(x)) /\ Padded(x) \in Nat /\ Padded(x) >= x /\ Padded(x) >= 2 * Block
      /\ (Padded(x) = 2 * Block \/ Padded(x) < x + Block)
  BY <1>1, PaddedProperties
<1>3. PICK k \in Nat : p = k * Block
  BY DEF Blocks
<1>4. PICK m \in Nat : Padded(x) = m * Block
  BY <1>2 DEF Blocks
<1>5. Padded(x) < p + Block
  BY <1>1, <1>2, Bounds
<1>6. Padded(x) > p - Block
  BY <1>1, <1>2, Bounds
<1>7. ~ Padded(x) < p
  BY <1>3, <1>4, <1>6, LessBlocks, Bounds, <1>2
<1>8. ~ p < Padded(x)
  BY <1>3, <1>4, <1>5, LessBlocks, Bounds, <1>2
<1> QED
  BY <1>2, <1>7, <1>8

\* The checks that follow the padding in CLIENT::Send, and the min of
\* AddToSendQueue, never bite: a packet that is not too large leaves room for a
\* block behind its padding.
LEMMA PaddedFits ==
  ASSUME NEW pk \in Packets, ~TooLarge(pk), ~TooSmall(pk)
  PROVE  /\ pk.size - HeaderSize \in Nat
         /\ Padded(pk.size - HeaderSize) \in Nat
         /\ Padded(pk.size - HeaderSize) + Block <= BufferSize
         /\ Padded(pk.size - HeaderSize) >= pk.size - HeaderSize
<1> DEFINE x == pk.size - HeaderSize
           p == Padded(x)
<1>1. pk.size \in Nat /\ x \in Nat /\ x + HeaderSize + Block - 1 <= BufferSize
  BY Bounds DEF Packets, TooLarge, TooSmall
<1>2. p \in Nat /\ p >= x /\ Blocks(p) /\ (p = 2 * Block \/ p < x + Block)
  BY <1>1, PaddedProperties
<1>3. p < BufferSize
  BY <1>1, <1>2, Bounds
<1>4. PICK k \in Nat : p = k * Block
  BY <1>2 DEF Blocks
<1>5. PICK m \in Nat : BufferSize = m * Block
  BY BufferIsBlocks DEF Blocks
<1>6. p + Block <= BufferSize
  BY <1>3, <1>4, <1>5, LessBlocks, Bounds
<1> QED
  BY <1>1, <1>2, <1>6

-------------------------------------------------------------------------------
(* The queue, sndbuf and the wire.                                         *)

\* Contiguous and the types, of any queue q, total t, front f, snddata d and
\* wire w; and every entry fits sndbuf.
BufOK(q, t, f, d, w) ==
  /\ q \in Seq(Entries) /\ t \in Nat /\ f \in Nat /\ d \in 0 .. BufferSize /\ w \in Seq(Nat)
  /\ Len(w) + d = IF q = <<>> THEN t ELSE q[1].at
  /\ d > 0 => f = Len(w)
  /\ \A i \in 1 .. Len(q) :
       /\ q[i].at + q[i].len + HeaderSize = IF i = Len(q) THEN t ELSE q[i + 1].at
       /\ q[i].len + HeaderSize <= BufferSize
       /\ q[i].at + q[i].len + HeaderSize <= t

\* What is in sndbuf was queued.
LEMMA BufBound ==
  ASSUME NEW q, NEW t, NEW f, NEW d, NEW w, BufOK(q, t, f, d, w)
  PROVE  Len(w) \in Nat /\ Len(w) + d <= t
<1>1. Len(w) \in Nat /\ t \in Nat /\ d \in Nat
  BY Bounds DEF BufOK
<1>2. CASE q = <<>>
  BY <1>1, <1>2 DEF BufOK
<1>3. CASE q # <<>>
  <2>1. 1 \in 1 .. Len(q) /\ q[1] \in Entries
    BY <1>3 DEF BufOK
  <2>2. q[1].at \in Nat /\ q[1].len \in Nat
    BY <2>1 DEF Entries
  <2>3. q[1].at + q[1].len + HeaderSize <= t /\ Len(w) + d = q[1].at
    BY <1>3, <2>1 DEF BufOK
  <2> QED
    BY <1>1, <2>2, <2>3, Bounds
<1> QED
  BY <1>2, <1>3

\* A message is queued.
LEMMA BufAppend ==
  ASSUME NEW q, NEW t, NEW f, NEW d, NEW w, BufOK(q, t, f, d, w),
         NEW len \in Nat, len + HeaderSize <= BufferSize
  PROVE  BufOK(Append(q, [len |-> len, at |-> t]), t + (len + HeaderSize), f, d, w)
<1> DEFINE e == [len |-> len, at |-> t]
           r == Append(q, e)
           u == t + (len + HeaderSize)
<1>1. t \in Nat /\ q \in Seq(Entries) /\ e \in Entries /\ u \in Nat /\ t <= u /\ Len(q) \in Nat
  BY Bounds DEF BufOK, Entries
<1>2. /\ r \in Seq(Entries) /\ Len(r) = Len(q) + 1 /\ r[Len(q) + 1] = e
      /\ \A i \in 1 .. Len(q) : r[i] = q[i] /\ q[i] \in Entries
  BY <1>1
<1>3. Len(w) + d = IF r = <<>> THEN u ELSE r[1].at
  <2>1. r # <<>>
    <3> HIDE DEF r
    <3>1. Len(r) # 0
      BY <1>1, <1>2
    <3> QED
      BY <3>1
  <2>2. CASE q = <<>>
    <3>1. r[1] = e
      BY <1>2, <2>2
    <3> QED
      BY <2>1, <2>2, <3>1 DEF BufOK
  <2>3. CASE q # <<>>
    <3>1. 1 \in 1 .. Len(q)
      BY <1>1, <2>3
    <3> QED
      BY <1>2, <2>1, <2>3, <3>1 DEF BufOK
  <2> QED
    BY <2>2, <2>3
<1>4. ASSUME NEW i \in 1 .. Len(r)
      PROVE  /\ r[i].at + r[i].len + HeaderSize = IF i = Len(r) THEN u ELSE r[i + 1].at
             /\ r[i].len + HeaderSize <= BufferSize
             /\ r[i].at + r[i].len + HeaderSize <= u
  <2>1. CASE i = Len(q) + 1
    <3>1. r[i].at = t /\ r[i].len = len
      BY <1>2, <2>1
    <3> QED
      BY <1>1, <1>2, <2>1, <3>1, Bounds
  <2>2. CASE i \in 1 .. Len(q)
    <3>1. /\ r[i] = q[i] /\ i # Len(r) /\ q[i].at \in Nat /\ q[i].len \in Nat
      BY <1>1, <1>2, <2>2 DEF Entries
    <3>2. q[i].len + HeaderSize <= BufferSize /\ q[i].at + q[i].len + HeaderSize <= t
      BY <2>2 DEF BufOK
    <3>3. q[i].at + q[i].len + HeaderSize = r[i + 1].at
      <4>1. CASE i = Len(q)
        BY <1>2, <2>2, <4>1 DEF BufOK
      <4>2. CASE i # Len(q)
        <5>1. i + 1 \in 1 .. Len(q)
          BY <1>1, <2>2, <4>2
        <5> QED
          BY <1>2, <2>2, <4>2, <5>1 DEF BufOK
      <4> QED
        BY <4>1, <4>2
    <3>4. q[i].at + q[i].len + HeaderSize <= u
      <4> HIDE DEF u
      <4> QED
        BY <1>1, <3>1, <3>2, Bounds
    <3> QED
      BY <3>1, <3>2, <3>3, <3>4
  <2> QED
    BY <1>1, <1>2, <2>1, <2>2
<1> QED
  BY <1>1, <1>2, <1>3, <1>4 DEF BufOK

\* The oldest message moves to the empty sndbuf.
LEMMA BufTake ==
  ASSUME NEW q, NEW t, NEW f, NEW w, BufOK(q, t, f, 0, w), q # <<>>
  PROVE  BufOK(Tail(q), t, Head(q).at, Head(q).len + HeaderSize, w)
<1> DEFINE r == Tail(q)
<1>1. /\ q \in Seq(Entries) /\ Len(q) \in Nat /\ Len(q) > 0 /\ Head(q) = q[1] /\ q[1] \in Entries
      /\ t \in Nat /\ w \in Seq(Nat) /\ Len(w) \in Nat
  BY DEF BufOK
<1>2. /\ r \in Seq(Entries) /\ Len(r) = Len(q) - 1
      /\ \A i \in 1 .. Len(r) : r[i] = q[i + 1] /\ i + 1 \in 1 .. Len(q)
  BY <1>1
<1>3. q[1].at \in Nat /\ q[1].len \in Nat
  BY <1>1 DEF Entries
<1>4. 1 \in 1 .. Len(q)
  BY <1>1
<1>5. /\ q[1].at + q[1].len + HeaderSize = IF 1 = Len(q) THEN t ELSE q[1 + 1].at
      /\ q[1].len + HeaderSize <= BufferSize
  BY <1>4, Zenon DEF BufOK
<1>6. q[1].len + HeaderSize \in 0 .. BufferSize
  BY <1>3, <1>5, Bounds
<1>7. Len(w) + 0 = q[1].at
  BY DEF BufOK
<1>8. Len(w) = q[1].at
  BY <1>1, <1>7
<1>9. Len(w) + (q[1].len + HeaderSize) = IF r = <<>> THEN t ELSE r[1].at
  <2>1. Len(w) + (q[1].len + HeaderSize) = q[1].at + q[1].len + HeaderSize
    BY <1>3, <1>8, Bounds
  <2>2. CASE r = <<>>
    <3>1. Len(q) = 1
      <4> HIDE DEF r
      <4>1. Len(r) = 0
        BY <2>2
      <4> QED
        BY <1>1, <1>2, <4>1
    <3> QED
      BY <1>5, <2>1, <2>2, <3>1
  <2>3. CASE r # <<>>
    <3>1. Len(q) # 1 /\ 1 \in 1 .. Len(r)
      BY <1>1, <1>2, <2>3
    <3> QED
      BY <1>2, <1>5, <2>1, <2>3, <3>1
  <2> QED
    BY <2>2, <2>3
<1>10. ASSUME NEW i \in 1 .. Len(r)
       PROVE  /\ r[i].at + r[i].len + HeaderSize = IF i = Len(r) THEN t ELSE r[i + 1].at
              /\ r[i].len + HeaderSize <= BufferSize
              /\ r[i].at + r[i].len + HeaderSize <= t
  <2> HIDE DEF r
  <2>1. r[i] = q[i + 1] /\ i + 1 \in 1 .. Len(q)
    BY <1>2
  <2>3. i = Len(r) <=> i + 1 = Len(q)
    BY <1>1, <1>2
  <2>2. i # Len(r) => r[i + 1] = q[(i + 1) + 1]
    BY <1>1, <1>2
  <2> QED
    BY <2>1, <2>2, <2>3 DEF BufOK
<1> QED
  BY <1>1, <1>2, <1>3, <1>6, <1>8, <1>9, <1>10 DEF BufOK

\* n bytes of sndbuf leave.
LEMMA BufSend ==
  ASSUME NEW q, NEW t, NEW f, NEW d, NEW w, BufOK(q, t, f, d, w), NEW n \in 1 .. d
  PROVE  LET v == w \o [i \in 1 .. n |-> f + i] IN
         /\ BufOK(q, t, f + n, d - n, v)
         /\ f = Len(w) /\ Len(w) + n <= t
<1> DEFINE c == [i \in 1 .. n |-> f + i]
           v == w \o c
<1>1. /\ d \in Nat /\ n \in Nat /\ d > 0 /\ n <= d /\ f \in Nat /\ w \in Seq(Nat) /\ Len(w) \in Nat
      /\ t \in Nat /\ d <= BufferSize
  BY Bounds DEF BufOK
<1>2. c \in Seq(Nat) /\ Len(c) = n
  <2>1. \A i \in 1 .. n : f + i \in Nat
    BY <1>1
  <2> QED
    BY <1>1, <2>1
<1>3. v \in Seq(Nat) /\ Len(v) = Len(w) + n
  BY <1>1, <1>2
<1>4. f = Len(w)
  BY <1>1 DEF BufOK
<1>5. d - n \in 0 .. BufferSize /\ f + n \in Nat /\ Len(v) + (d - n) = Len(w) + d /\ f + n = Len(v)
  BY <1>1, <1>3, <1>4, Bounds
<1>6. Len(w) + n <= t
  BY <1>1, BufBound
<1> HIDE DEF v
<1>7. BufOK(q, t, f + n, d - n, v)
  BY <1>1, <1>3, <1>5 DEF BufOK
<1> QED
  BY <1>4, <1>6, <1>7 DEF v

-------------------------------------------------------------------------------
(* The packets, and the inductive invariant.                               *)

\* A packet that was never sent ends where it was built to; each Send then moves
\* its offset one header past its size.
Aligned(pk) ==
  IF pk.sends = 0
    THEN pk.offset = pk.size
    ELSE /\ Blocks(pk.size) /\ pk.size >= 2 * Block
         /\ pk.offset = pk.size + HeaderSize * pk.sends

Worn(pk) == pk.sends > 0 /\ pk.size + HeaderSize * (pk.sends + 1) >= BufferSize

BufInv == BufOK(queue, total, front, snddata, wire)

SendInv ==
  /\ TypeOK /\ BufInv
  /\ Aligned(out) /\ Aligned(src)
  /\ hung => Worn(out) \/ Worn(src)

LEMMA SendInvImplies == SendInv => TypeOK /\ Contiguous /\ StallsOnlyWornOut
<1> SUFFICES ASSUME SendInv PROVE Contiguous /\ StallsOnlyWornOut
  BY DEF SendInv
<1>1. Contiguous
  BY DEF SendInv, BufInv, BufOK, Contiguous
<1>2. StallsOnlyWornOut
  BY DEF SendInv, Worn, StallsOnlyWornOut
<1> QED
  BY <1>1, <1>2

\* One Send of a packet.
LEMMA OneSend ==
  ASSUME NEW pk \in Packets, Aligned(pk)
  PROVE  /\ Left(pk) \in Packets /\ Aligned(Left(pk))
         /\ ~TooLarge(pk) /\ ~TooSmall(pk) /\ Stuck(pk) => Worn(pk) /\ Left(pk) = pk
         /\ Sendable(pk) => /\ AfterSend(pk).size \in Nat
                            /\ AfterSend(pk).size + Block <= BufferSize
<1>1. CASE TooLarge(pk) \/ TooSmall(pk)
  BY <1>1 DEF Left, Sendable
<1>2. CASE ~TooLarge(pk) /\ ~TooSmall(pk)
  <2> DEFINE x == pk.size - HeaderSize
             p == Padded(x)
             s == pk.sends
  <2>1. /\ x \in Nat /\ p \in Nat /\ p + Block <= BufferSize /\ p >= x
        /\ pk.size \in Nat /\ pk.offset \in Nat /\ s \in Nat /\ x = pk.size - HeaderSize
    BY <1>2, PaddedFits DEF Packets
  <2>2. Blocks(p) /\ p >= 2 * Block
    BY <2>1, PaddedProperties
  <2>3. /\ AfterSend(pk).size = p /\ AfterSend(pk).sends = s + 1
        /\ AfterSend(pk).offset = pk.offset + (p - x)
        /\ AfterSend(pk) = [size |-> p, offset |-> pk.offset + (p - x), sends |-> s + 1]
    BY DEF AfterSend
  <2>4. Stuck(pk) <=> pk.offset + (p - x) >= BufferSize
    BY DEF Stuck
  <2> HIDE DEF p, x, s
  <2>5. AfterSend(pk) \in Packets
    BY <2>1, <2>3 DEF Packets
  <2>6. pk.offset + (p - x) = p + HeaderSize * (s + 1)
    <3>1. HeaderSize * (s + 1) = HeaderSize * s + HeaderSize /\ HeaderSize * s \in Nat
      BY <2>1, Bounds
    <3>2. CASE s = 0
      <4>1. pk.offset = pk.size
        BY <3>2 DEF Aligned, s
      <4>2. HeaderSize * (s + 1) = HeaderSize
        BY <3>2, Bounds
      <4>3. pk.offset + (p - x) = p + HeaderSize
        BY <2>1, <4>1, Bounds
      <4> QED
        BY <4>2, <4>3
    <3>3. CASE s # 0
      <4>1. Blocks(pk.size) /\ pk.size >= 2 * Block /\ pk.offset = pk.size + HeaderSize * s
        BY <3>3 DEF Aligned, s
      <4>2. p = pk.size
        BY <2>1, <4>1, PaddedAgain DEF p, x
      <4> QED
        BY <2>1, <3>1, <4>1, <4>2, Bounds
    <3> QED
      BY <3>2, <3>3
  <2>7. Aligned(AfterSend(pk))
    BY <2>1, <2>2, <2>3, <2>6 DEF Aligned
  <2>8. Stuck(pk) => Worn(pk)
    <3> SUFFICES ASSUME Stuck(pk) PROVE Worn(pk)
      OBVIOUS
    <3>1. p + HeaderSize * (s + 1) >= BufferSize
      BY <2>4, <2>6
    <3>2. s # 0
      <4> SUFFICES ASSUME s = 0 PROVE FALSE
        OBVIOUS
      <4>1. HeaderSize * (s + 1) = HeaderSize
        BY Bounds
      <4> QED
        BY <2>1, <3>1, <4>1, Bounds
    <3>3. pk.size = p
      <4>1. Blocks(pk.size) /\ pk.size >= 2 * Block
        BY <3>2 DEF Aligned, s
      <4> QED
        BY <2>1, <4>1, PaddedAgain DEF p, x
    <3> QED
      BY <2>1, <3>1, <3>2, <3>3 DEF Worn, s
  <2> QED
    BY <1>2, <2>1, <2>3, <2>5, <2>7, <2>8 DEF Left, Sendable
<1> QED
  BY <1>1, <1>2

LEMMA BuiltAligned ==
  ASSUME NEW size \in Nat
  PROVE  Built(size) \in Packets /\ Aligned(Built(size)) /\ ~Worn(Built(size))
BY DEF Built, Packets, Aligned, Worn

\* One Send on this slot.
LEMMA SendHereKeeps ==
  ASSUME TypeOK, BufInv, NEW pk \in Packets, Aligned(pk), ~hung, SendHere(pk)
  PROVE  /\ BufInv' /\ todc' \in BOOLEAN /\ hung' \in BOOLEAN
         /\ hung' => Worn(pk) /\ Left(pk) = pk
         /\ wire' = wire /\ (total' = total \/ total' > total)
<1>1. CASE conn = "none"
  BY <1>1 DEF SendHere, bufVars, BufInv, TypeOK
<1>2. CASE conn # "none"
  <2>1. /\ todc' = (todc \/ TooLarge(pk))
        /\ hung' = (~TooLarge(pk) /\ ~TooSmall(pk) /\ Stuck(pk))
        /\ IF Sendable(pk) THEN Enqueue(pk) ELSE UNCHANGED bufVars
    BY <1>2 DEF SendHere
  <2>2. todc' \in BOOLEAN /\ hung' \in BOOLEAN
    BY <2>1, Zenon DEF TypeOK
  <2>3. hung' => Worn(pk) /\ Left(pk) = pk
    BY <2>1, OneSend
  <2>4. CASE ~Sendable(pk)
    <3>1. UNCHANGED bufVars
      BY <2>1, <2>4
    <3> QED
      BY <2>2, <2>3, <3>1 DEF bufVars, BufInv
  <2>5. CASE Sendable(pk)
    <3> DEFINE len == AfterSend(pk).size
    <3>1. len \in Nat /\ len + HeaderSize <= BufferSize - HeaderSize /\ len + HeaderSize \in Nat
      BY <2>5, OneSend, Bounds
    <3>2. /\ queue' = Append(queue, [len |-> len, at |-> total])
          /\ total' = total + Least(len + HeaderSize, BufferSize - HeaderSize)
          /\ UNCHANGED <<front, snddata, wire>>
      BY <2>1, <2>5 DEF Enqueue
    <3> HIDE DEF len
    <3>3. Least(len + HeaderSize, BufferSize - HeaderSize) = len + HeaderSize
      BY <3>1, Bounds DEF Least
    <3>4. BufInv'
      BY <3>1, <3>2, <3>3, BufAppend, Bounds DEF BufInv
    <3>5. total' > total
      BY <3>1, <3>2, <3>3, Bounds DEF TypeOK
    <3> QED
      BY <2>2, <2>3, <3>2, <3>4, <3>5
  <2> QED
    BY <2>4, <2>5
<1> QED
  BY <1>1, <1>2

\* What Server::Send starts from.
LEMMA TakenOK ==
  ASSUME BufInv
  PROVE  LET m == MessageTaken IN BufOK(m.queue, total, m.front, m.snddata, wire)
<1>1. CASE snddata = 0 /\ queue # <<>>
  <2>1. BufOK(queue, total, front, 0, wire)
    BY <1>1 DEF BufInv
  <2>2. BufOK(Tail(queue), total, Head(queue).at, Head(queue).len + HeaderSize, wire)
    BY <1>1, <2>1, BufTake
  <2> QED
    BY <1>1, <2>2 DEF MessageTaken
<1>2. CASE ~(snddata = 0 /\ queue # <<>>)
  BY <1>2 DEF MessageTaken, BufInv
<1> QED
  BY <1>1, <1>2

LEMMA EmptyBuf == BufOK(<<>>, 0, 0, 0, <<>>)
<1>1. Len(<<>>) = 0 /\ 1 .. 0 = {}
  OBVIOUS
<1> QED
  BY <1>1, Bounds DEF BufOK

\* The conjuncts of TypeOK that BufInv does not imply.
CtlOK ==
  /\ conn \in {"none", "open", "reset"}
  /\ todc \in BOOLEAN /\ own \in BOOLEAN /\ reached \in BOOLEAN /\ hung \in BOOLEAN
  /\ out \in Packets /\ src \in Packets
  /\ toGo \in 0 .. OtherClients
  /\ pc \in {"send", "recv", "cast", "finish"}

LEMMA SendInvParts ==
  SendInv <=> /\ CtlOK /\ BufInv /\ Aligned(out) /\ Aligned(src)
              /\ hung => Worn(out) \/ Worn(src)
BY Zenon DEF SendInv, TypeOK, CtlOK, BufInv, BufOK

LEMMA SendInvPartsNext ==
  ASSUME CtlOK', BufInv', Aligned(out)', Aligned(src)', hung' => Worn(out)' \/ Worn(src)'
  PROVE  SendInv'
BY Zenon DEF SendInv, TypeOK, CtlOK, BufInv, BufOK

LEMMA ClearedAligned == Cleared \in Packets /\ Aligned(Cleared)
BY DEF Cleared, Packets, Aligned

LEMMA InitSend == Init => SendInv
<1> SUFFICES ASSUME Init PROVE SendInv
  OBVIOUS
<1>1. BufInv
  BY EmptyBuf, Zenon DEF Init, BufInv
<1>2. Aligned(out) /\ Aligned(src) /\ ~hung /\ out \in Packets /\ src \in Packets
  BY ClearedAligned, Zenon DEF Init
<1>3. CtlOK
  <2>1. /\ conn = "none" /\ todc = FALSE /\ own = FALSE /\ reached = FALSE /\ hung = FALSE
        /\ toGo = 0 /\ pc = "send"
    BY Zenon DEF Init
  <2>2. 0 \in 0 .. OtherClients
    BY Bounds
  <2>3. /\ conn \in {"none", "open", "reset"} /\ pc \in {"send", "recv", "cast", "finish"}
        /\ todc \in BOOLEAN /\ own \in BOOLEAN /\ reached \in BOOLEAN /\ hung \in BOOLEAN
    BY <2>1, Zenon
  <2> QED
    BY <1>2, <2>1, <2>2, <2>3, Zenon DEF CtlOK
<1> QED
  BY <1>1, <1>2, <1>3, SendInvParts

\* Every step keeps the invariant and is a step of ByteStream or a stutter.
StreamStep == [Stream!StreamNext]_(Stream!streamVars)

LEMMA StreamStutters ==
  ASSUME total' = total, wire' = wire
  PROVE  StreamStep
BY DEF StreamStep, Stream!streamVars

LEMMA StreamAccepts ==
  ASSUME wire' = wire, total' = total \/ total' > total
  PROVE  StreamStep
BY DEF StreamStep, Stream!streamVars, Stream!StreamNext, Stream!Accept

\* The actions that touch neither the buffers nor the packets.
LEMMA QuietSteps ==
  ASSUME SendInv, UNCHANGED vars \/ Open \/ PeerReset \/ HandleQuietly \/ Keep
  PROVE  SendInv' /\ StreamStep
<1>1. CtlOK /\ BufInv /\ Aligned(out) /\ Aligned(src) /\ (hung => Worn(out) \/ Worn(src))
  BY SendInvParts
<1>2. UNCHANGED <<out, castVars, hung, bufVars>> /\ CtlOK'
  BY <1>1 DEF vars, Open, PeerReset, HandleQuietly, Keep, CtlOK, castVars, bufVars
<1>3. BufInv'
  BY <1>1, <1>2 DEF BufInv, bufVars
<1>4. Aligned(out)' /\ Aligned(src)' /\ (hung' => Worn(out)' \/ Worn(src)')
  BY <1>1, <1>2 DEF Aligned, Worn, castVars
<1>5. StreamStep
  BY <1>2, StreamStutters DEF bufVars
<1> QED
  BY <1>2, <1>3, <1>4, <1>5, SendInvPartsNext

\* Server::Send.
LEMMA SendSteps ==
  ASSUME SendInv, SendNothing \/ SendError \/ \E n \in 1 .. BufferSize : SendSome(n)
  PROVE  SendInv' /\ StreamStep
<1>1. CtlOK /\ BufInv /\ Aligned(out) /\ Aligned(src) /\ (hung => Worn(out) \/ Worn(src))
  BY SendInvParts
<1>2. UNCHANGED <<conn, out, castVars, hung, total>> /\ CtlOK'
  BY <1>1 DEF SendNothing, SendError, SendSome, CtlOK, castVars, bufVars
<1>3. Aligned(out)' /\ Aligned(src)' /\ (hung' => Worn(out)' \/ Worn(src)')
  BY <1>1, <1>2 DEF Aligned, Worn, castVars
<1> DEFINE m == MessageTaken
<1>4. BufOK(m.queue, total, m.front, m.snddata, wire)
  BY <1>1, TakenOK
<1> HIDE DEF m
<1>5. BufInv' /\ StreamStep
  <2>1. CASE SendNothing
    <3>1. wire' = wire /\ total' = total
      BY <2>1 DEF SendNothing, bufVars
    <3>2. CASE UNCHANGED bufVars
      BY <1>1, <3>1, <3>2, StreamStutters DEF BufInv, bufVars
    <3>3. CASE ~ UNCHANGED bufVars
      <4>1. queue' = m.queue /\ front' = m.front /\ snddata' = m.snddata
        BY <2>1, <3>3, Zenon DEF SendNothing, m
      <4> QED
        BY <1>4, <3>1, <4>1, StreamStutters, Zenon DEF BufInv
    <3> QED
      BY <3>2, <3>3
  <2>2. CASE SendError
    <3>1. /\ queue' = m.queue /\ front' = m.front /\ snddata' = m.snddata
          /\ total' = total /\ wire' = wire
      BY <2>2, Zenon DEF SendError, m
    <3> QED
      BY <1>4, <3>1, StreamStutters, Zenon DEF BufInv
  <2>3. ASSUME NEW n \in 1 .. BufferSize, SendSome(n)
        PROVE  BufInv' /\ StreamStep
    <3>1. /\ n \in 1 .. m.snddata
          /\ wire' = wire \o [i \in 1 .. n |-> m.front + i]
          /\ front' = m.front + n /\ snddata' = m.snddata - n /\ queue' = m.queue
          /\ total' = total
      BY <2>3, Zenon DEF SendSome, m
    <3>2. /\ BufOK(m.queue, total, m.front + n, m.snddata - n, wire \o [i \in 1 .. n |-> m.front + i])
          /\ m.front = Len(wire) /\ Len(wire) + n <= total
      BY <1>4, <3>1, BufSend
    <3>3. BufInv'
      BY <3>1, <3>2, Zenon DEF BufInv
    <3>4. Stream!Deliver(n)
      BY <3>1, <3>2 DEF Stream!Deliver
    <3>5. n \in 1 .. total
      BY <1>1, <3>2, Bounds DEF BufInv, BufOK
    <3> QED
      BY <3>3, <3>4, <3>5 DEF StreamStep, Stream!StreamNext
  <2> QED
    BY <2>1, <2>2, <2>3
<1> QED
  BY <1>2, <1>3, <1>5, SendInvPartsNext

\* The slot sends a packet of its own: an answer, outbuf again, or a heartbeat.
LEMMA OwnSends ==
  ASSUME SendInv, NEW pk \in Packets, Aligned(pk), ~hung,
         SendHere(pk), out' = Left(pk), UNCHANGED <<conn, castVars>>, pc' \in {"send", "finish"}
  PROVE  SendInv' /\ StreamStep
<1>1. TypeOK /\ CtlOK /\ BufInv /\ Aligned(src)
  BY SendInvParts DEF SendInv
<1>2. /\ BufInv' /\ todc' \in BOOLEAN /\ hung' \in BOOLEAN
      /\ hung' => Worn(pk) /\ Left(pk) = pk
      /\ wire' = wire /\ (total' = total \/ total' > total)
  BY <1>1, SendHereKeeps
<1>3. Left(pk) \in Packets /\ Aligned(Left(pk))
  BY OneSend
<1>4. Aligned(out)' /\ Aligned(src)' /\ (hung' => Worn(out)')
  BY <1>1, <1>2, <1>3 DEF Aligned, Worn, castVars
<1>5. CtlOK'
  BY <1>1, <1>2, <1>3 DEF CtlOK, castVars
<1>6. StreamStep
  BY <1>2, StreamAccepts
<1> QED
  BY <1>2, <1>4, <1>5, <1>6, SendInvPartsNext

\* SendToAll.
LEMMA CastSteps ==
  ASSUME SendInv,
         \/ \E size \in Sizes, others \in 0 .. OtherClients : StartCast(size, others)
         \/ CastHere \/ CastToOther \/ EndCast
  PROVE  SendInv' /\ StreamStep
<1>1. /\ TypeOK /\ CtlOK /\ BufInv /\ Aligned(out) /\ Aligned(src)
      /\ (hung => Worn(out) \/ Worn(src))
  BY SendInvParts DEF SendInv
<1>2. ASSUME NEW size \in Sizes, NEW others \in 0 .. OtherClients, StartCast(size, others)
      PROVE  SendInv' /\ StreamStep
  <2>1. Built(size) \in Packets /\ Aligned(Built(size))
    BY BuiltAligned, Bounds
  <2>2. /\ src' = Built(size) /\ toGo' = others /\ reached' = FALSE /\ pc' = "cast"
        /\ own' = (pc = "recv") /\ ~hung /\ UNCHANGED <<conn, todc, out, hung, bufVars>>
    BY <1>2 DEF StartCast, Running
  <2>3. CtlOK'
    BY <1>1, <2>1, <2>2 DEF CtlOK
  <2>4. Aligned(src)' /\ Aligned(out)' /\ ~hung'
    BY <1>1, <2>1, <2>2 DEF Aligned
  <2>5. BufInv' /\ StreamStep
    BY <1>1, <2>2, StreamStutters DEF BufInv, bufVars
  <2> QED
    BY <2>3, <2>4, <2>5, SendInvPartsNext
<1>3. ASSUME CastHere PROVE SendInv' /\ StreamStep
  <2>1. /\ ~hung /\ SendHere(src) /\ src' = (IF conn # "none" THEN Left(src) ELSE src)
        /\ reached' = TRUE /\ UNCHANGED <<conn, out, own, toGo, pc>>
    BY <1>3 DEF CastHere, Running
  <2>2. src \in Packets
    BY <1>1 DEF CtlOK
  <2>3. /\ BufInv' /\ todc' \in BOOLEAN /\ hung' \in BOOLEAN
        /\ hung' => Worn(src) /\ Left(src) = src
        /\ wire' = wire /\ (total' = total \/ total' > total)
    BY <1>1, <2>1, <2>2, SendHereKeeps
  <2>4. Left(src) \in Packets /\ Aligned(Left(src))
    BY <1>1, <2>2, OneSend
  <2>5. src' \in Packets /\ Aligned(src)' /\ Aligned(out)' /\ (hung' => Worn(src)')
    BY <1>1, <2>1, <2>2, <2>3, <2>4 DEF Aligned, Worn
  <2>6. CtlOK'
    BY <1>1, <2>1, <2>3, <2>5 DEF CtlOK
  <2> QED
    BY <2>3, <2>5, <2>6, StreamAccepts, SendInvPartsNext
<1>4. ASSUME CastToOther PROVE SendInv' /\ StreamStep
  <2>1. /\ hung' = (~TooLarge(src) /\ ~TooSmall(src) /\ Stuck(src)) /\ src' = Left(src)
        /\ toGo > 0 /\ toGo' = toGo - 1
        /\ UNCHANGED <<conn, todc, out, own, reached, bufVars, pc>>
    BY <1>4 DEF CastToOther
  <2>2. src \in Packets
    BY <1>1 DEF CtlOK
  <2>3. Left(src) \in Packets /\ Aligned(Left(src)) /\ (hung' => Worn(src) /\ Left(src) = src)
    BY <1>1, <2>1, <2>2, OneSend
  <2>4. Aligned(src)' /\ Aligned(out)' /\ (hung' => Worn(src)')
    BY <1>1, <2>1, <2>3 DEF Aligned, Worn
  <2>5. CtlOK'
    BY <1>1, <2>1, <2>3, Bounds DEF CtlOK
  <2>6. BufInv' /\ StreamStep
    BY <1>1, <2>1, StreamStutters DEF BufInv, bufVars
  <2> QED
    BY <2>4, <2>5, <2>6, SendInvPartsNext
<1>5. ASSUME EndCast PROVE SendInv' /\ StreamStep
  <2>1. /\ ~hung /\ src' = Cleared /\ own' = FALSE /\ reached' = FALSE
        /\ out' = (IF own THEN src ELSE out)
        /\ pc' = (IF own THEN "finish" ELSE "send")
        /\ UNCHANGED <<conn, todc, toGo, hung, bufVars>>
    BY <1>5 DEF EndCast, Running
  <2>2. Aligned(src)' /\ Aligned(out)' /\ ~hung'
    BY <1>1, <2>1, ClearedAligned DEF Aligned
  <2>3. CtlOK'
    BY <1>1, <2>1, ClearedAligned DEF CtlOK
  <2>4. BufInv' /\ StreamStep
    BY <1>1, <2>1, StreamStutters DEF BufInv, bufVars
  <2> QED
    BY <2>2, <2>3, <2>4, SendInvPartsNext
<1> QED
  BY <1>2, <1>3, <1>4, <1>5

LEMMA CloseStep ==
  ASSUME SendInv, Close
  PROVE  SendInv' /\ StreamStep
<1>1. CtlOK /\ Aligned(src)
  BY SendInvParts
<1>2. /\ ~hung /\ conn' = "none" /\ todc' = FALSE /\ out' = Built(BeatSize)
      /\ queue' = <<>> /\ total' = 0 /\ front' = 0 /\ snddata' = 0 /\ wire' = <<>>
      /\ pc' = "send" /\ UNCHANGED <<castVars, hung>>
  BY DEF Close, Turn, Running
<1>3. Built(BeatSize) \in Packets /\ Aligned(Built(BeatSize))
  BY BuiltAligned, Bounds
<1>4. Aligned(out)' /\ Aligned(src)' /\ ~hung'
  BY <1>1, <1>2, <1>3 DEF Aligned, castVars
<1>5. CtlOK'
  BY <1>1, <1>2, <1>3 DEF CtlOK, castVars
<1>6. BufInv'
  BY <1>2, EmptyBuf, Zenon DEF BufInv
<1>7. StreamStep
  BY <1>2, Zenon DEF StreamStep, Stream!StreamNext, Stream!Reset
<1> QED
  BY <1>4, <1>5, <1>6, <1>7, SendInvPartsNext

LEMMA NextSend ==
  ASSUME SendInv, [Next]_vars
  PROVE  SendInv' /\ StreamStep
<1>1. out \in Packets /\ Aligned(out)
  BY SendInvParts DEF CtlOK
<1>2. ASSUME NEW size \in Sizes, Answer(size) PROVE SendInv' /\ StreamStep
  <2>1. Built(size) \in Packets /\ Aligned(Built(size))
    BY BuiltAligned, Bounds
  <2> QED
    BY <1>2, <2>1, OwnSends DEF Answer, Handling, Turn, Running
<1>3. ASSUME Resend PROVE SendInv' /\ StreamStep
  BY <1>1, <1>3, OwnSends DEF Resend, Handling, Turn, Running
<1>4. ASSUME HeartBeat PROVE SendInv' /\ StreamStep
  <2>1. Built(BeatSize) \in Packets /\ Aligned(Built(BeatSize))
    BY BuiltAligned, Bounds
  <2> QED
    BY <1>4, <2>1, OwnSends DEF HeartBeat, Turn, Running
<1> QED
  BY <1>2, <1>3, <1>4, QuietSteps, SendSteps, CastSteps, CloseStep, Zenon
  DEF Next, Thread, Environment

THEOREM SendInvariant == Spec => []SendInv
<1>1. SendInv /\ [Next]_vars => SendInv'
  BY NextSend
<1> QED
  BY <1>1, InitSend, PTL DEF Spec

\* The variables of the slot, its packets and its queue keep their types.
THEOREM SendTypeCorrect == Spec => []TypeOK
BY SendInvariant, SendInvImplies, PTL

\* Whatever sizes the packets have, the messages in the queue lie one behind the
\* other and every length field covers its copy (client.cpp:239, server.cpp:936).
THEOREM QueueContiguous == Spec => []Contiguous
BY SendInvariant, SendInvImplies, PTL

\* The padding loop stalls the thread on nothing but a packet that was sent again
\* and again without being built anew (client.cpp:54-77).
THEOREM StallsAreWornOut == Spec => []StallsOnlyWornOut
BY SendInvariant, SendInvImplies, PTL

\* The bytes that leave on a connection are the bytes queued on it, in order:
\* the send path implements ByteStream (client.cpp:239, server.cpp:931-973).
THEOREM SendsInOrder == Spec => BytesInOrder
<1>1. Init => Stream!StreamInit
  BY DEF Init, Stream!StreamInit
<1>2. SendInv /\ [Next]_vars => [Stream!StreamNext]_(Stream!streamVars)
  BY NextSend DEF StreamStep
<1> QED
  BY <1>1, <1>2, SendInvariant, PTL DEF Spec, BytesInOrder, Stream!StreamSpec

-------------------------------------------------------------------------------
(* The safety behind QueuedLeaves: what the fairness has to add is only that *)
(* the thread goes on and that the socket takes bytes again and again.      *)

\* Bytes that were queued and have not left are at hand: the next visit of the
\* slot has bytes to send and they are the ones that come next in the stream.
\* Each byte the socket takes brings the last one closer, and until the slot is
\* closed no step takes back what left or what was queued.
BytesComeCloser ==
  /\ Len(wire) <= total
  /\ Len(wire) < total => MessageTaken.snddata > 0 /\ MessageTaken.front = Len(wire)
  /\ (\E n \in 1 .. BufferSize : SendSome(n)) =>
       total' = total /\ Len(wire') \in Len(wire) + 1 .. total
  /\ ~Close => Len(wire') >= Len(wire) /\ total' >= total

\* What Server::Send starts from holds the next outstanding bytes.
LEMMA OutstandingAtHand ==
  ASSUME BufInv
  PROVE  /\ Len(wire) \in Nat /\ total \in Nat /\ Len(wire) <= total
         /\ Len(wire) < total => MessageTaken.snddata > 0 /\ MessageTaken.front = Len(wire)
<1> DEFINE m == MessageTaken
<1>1. BufOK(m.queue, total, m.front, m.snddata, wire)
  BY TakenOK
<1>2. Len(wire) \in Nat /\ total \in Nat /\ Len(wire) <= total
  <2>1. total \in Nat /\ snddata \in Nat
    BY Bounds DEF BufInv, BufOK
  <2> QED
    BY <2>1, BufBound DEF BufInv
<1>3. ASSUME m.snddata = 0 PROVE Len(wire) = total
  <2>1. m.queue = <<>>
    <3>1. CASE queue = <<>>
      BY <3>1 DEF m, MessageTaken
    <3>2. CASE queue # <<>> /\ snddata = 0
      <4>1. Head(queue).len \in Nat /\ m.snddata = Head(queue).len + HeaderSize
        <5>1. queue \in Seq(Entries)
          BY DEF BufInv, BufOK
        <5>2. Head(queue) \in Entries
          BY <3>2, <5>1
        <5> QED
          BY <3>2, <5>2 DEF m, MessageTaken, Entries
      <4> QED
        BY <1>3, <4>1, Bounds
    <3>3. CASE queue # <<>> /\ snddata # 0
      BY <1>3, <3>3 DEF m, MessageTaken
    <3> QED
      BY <3>1, <3>2, <3>3
  <2> HIDE DEF m
  <2> QED
    BY <1>1, <1>2, <1>3, <2>1 DEF BufOK
<1>4. m.snddata \in Nat /\ (m.snddata > 0 => m.front = Len(wire))
  <2> HIDE DEF m
  <2> QED
    BY <1>1, Bounds DEF BufOK
<1> HIDE DEF m
<1>5. Len(wire) < total => m.snddata > 0 /\ m.front = Len(wire)
  BY <1>2, <1>3, <1>4
<1> QED
  BY <1>2, <1>5 DEF m

\* Sending adds to what left.
LEMMA SendSomeAdds ==
  ASSUME BufInv, NEW n \in 1 .. BufferSize, SendSome(n)
  PROVE  total' = total /\ Len(wire') \in Len(wire) + 1 .. total
<1> DEFINE m == MessageTaken
<1>1. BufOK(m.queue, total, m.front, m.snddata, wire)
  BY TakenOK
<1> HIDE DEF m
<1>2. /\ n \in 1 .. m.snddata /\ wire' = wire \o [i \in 1 .. n |-> m.front + i]
      /\ total' = total
  BY Zenon DEF SendSome, m
<1>3. Len(wire) + n <= total
  BY <1>1, <1>2, BufSend
<1>4. Len(wire') = Len(wire) + n
  <2>1. m.front \in Nat /\ n \in Nat /\ wire \in Seq(Nat)
    BY <1>1, Bounds DEF BufOK
  <2>2. [i \in 1 .. n |-> m.front + i] \in Seq(Nat) /\ Len([i \in 1 .. n |-> m.front + i]) = n
    <3>1. \A i \in 1 .. n : m.front + i \in Nat
      BY <2>1
    <3> QED
      BY <2>1, <3>1
  <2> QED
    BY <1>2, <2>1, <2>2
<1>5. Len(wire) \in Nat /\ total \in Nat
  BY OutstandingAtHand
<1> QED
  BY <1>2, <1>3, <1>4, <1>5

\* No step but Close takes back what left or what was queued.
LEMMA NothingTakenBack ==
  ASSUME SendInv, [Next]_vars, ~Close
  PROVE  Len(wire') >= Len(wire) /\ total' >= total
<1>1. /\ TypeOK /\ BufInv /\ out \in Packets /\ src \in Packets
      /\ Aligned(out) /\ Aligned(src)
      /\ Len(wire) \in Nat /\ total \in Nat
  BY OutstandingAtHand DEF SendInv, TypeOK
<1>2. CASE UNCHANGED <<total, wire>>
  BY <1>1, <1>2
<1>3. ASSUME NEW n \in 1 .. BufferSize, SendSome(n)
      PROVE  Len(wire') >= Len(wire) /\ total' >= total
  BY <1>1, <1>3, SendSomeAdds
<1>4. ASSUME NEW pk \in Packets, Aligned(pk), ~hung, SendHere(pk)
      PROVE  Len(wire') >= Len(wire) /\ total' >= total
  <2>1. wire' = wire /\ (total' = total \/ total' > total) /\ BufInv'
    BY <1>1, <1>4, SendHereKeeps
  <2>2. total' \in Nat
    BY <2>1 DEF BufInv, BufOK
  <2> QED
    BY <1>1, <2>1, <2>2
<1>5. ASSUME NEW size \in Nat, SendHere(Built(size)), ~hung
      PROVE  Len(wire') >= Len(wire) /\ total' >= total
  BY <1>4, <1>5, BuiltAligned
<1>6. CASE (\E size \in Sizes : Answer(size)) \/ HeartBeat
  BY <1>5, <1>6, Bounds DEF Answer, HeartBeat, Handling, Turn, Running
<1>7. CASE Resend \/ CastHere
  BY <1>1, <1>4, <1>7 DEF Resend, CastHere, Handling, Turn, Running
<1>8. CASE \/ UNCHANGED vars \/ Open \/ PeerReset \/ SendNothing \/ SendError
           \/ HandleQuietly \/ Keep \/ CastToOther \/ EndCast
           \/ \E size \in Sizes, others \in 0 .. OtherClients : StartCast(size, others)
  <2>1. UNCHANGED <<total, wire>>
    BY <1>8, Zenon DEF vars, bufVars, Open, PeerReset, SendNothing, SendError,
                       HandleQuietly, Keep, CastToOther, EndCast, StartCast
  <2> QED
    BY <1>2, <2>1
<1> QED
  BY <1>3, <1>6, <1>7, <1>8, Zenon DEF Next, Thread, Environment

\* In an open slot there is never a reason of the server's own for a queued byte
\* to stay: it is ready to be sent, moves up with each send, and is not taken back
\* (Server::Send, server.cpp:931-973; AddToSendQueue, client.cpp:239).
THEOREM QueuedBytesMoveUp == Spec => [][BytesComeCloser]_vars
<1>1. ASSUME SendInv, [Next]_vars PROVE [BytesComeCloser]_vars
  <2>1. BufInv
    BY <1>1 DEF SendInv
  <2>2. /\ Len(wire) <= total
        /\ Len(wire) < total => MessageTaken.snddata > 0 /\ MessageTaken.front = Len(wire)
    BY <2>1, OutstandingAtHand
  <2>3. (\E n \in 1 .. BufferSize : SendSome(n)) =>
           total' = total /\ Len(wire') \in Len(wire) + 1 .. total
    BY <2>1, SendSomeAdds, Zenon
  <2>4. ~Close => Len(wire') >= Len(wire) /\ total' >= total
    BY <1>1, NothingTakenBack
  <2> QED
    BY <2>2, <2>3, <2>4 DEF BytesComeCloser
<1> QED
  BY <1>1, SendInvariant, PTL DEF Spec
===============================================================================
