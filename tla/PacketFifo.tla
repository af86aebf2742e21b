------------------------------ MODULE PacketFifo ------------------------------
(***************************************************************************)
(* What the receive path does for one connection after another: packets    *)
(* reach the dispatcher whole, in the order of the stream, one dispatch    *)
(* for each.  A packet that fills the buffer is itself lost: the packet    *)
(* dispatched before it is dispatched once more in its place.              *)
(***************************************************************************)
EXTENDS Naturals, Sequences

VARIABLES
  sent,  \* the packets the peer has written: whether each fills the buffer
  got    \* the numbers of the packets dispatched, in order; 0 is an empty one

fifoVars == <<sent, got>>

FifoInit == sent = <<>> /\ got = <<>>

Put == \E fills \in BOOLEAN : sent' = Append(sent, fills) /\ UNCHANGED got

\* The packet dispatched last.
Latest == IF got = <<>> THEN 0 ELSE got[Len(got)]

GetNext ==
  /\ Len(got) < Len(sent) /\ ~sent[Len(got) + 1]
  /\ got' = Append(got, Len(got) + 1)
  /\ UNCHANGED sent

GetLatestAgain ==
  /\ Len(got) < Len(sent) /\ sent[Len(got) + 1]
  /\ got' = Append(got, Latest)
  /\ UNCHANGED sent

\* The slot passes to another connection; what was not dispatched is lost.
Drop == sent' = <<>> /\ got' = <<>>

FifoNext == Put \/ GetNext \/ GetLatestAgain \/ Drop

FifoSpec == FifoInit /\ [][FifoNext]_fifoVars
===============================================================================
