------------------------------ MODULE ByteStream ------------------------------
(* What the send path promises of one connection after another: the bytes   *)
(* that leave the socket are the bytes queued, each once and in their order. *)
EXTENDS Naturals, Sequences

VARIABLES
  accepted,   \* bytes queued on this connection
  delivered   \* their positions, as they left

streamVars == <<accepted, delivered>>

StreamInit == accepted = 0 /\ delivered = <<>>

Accept == accepted' > accepted /\ UNCHANGED delivered

\* A chunk of n bytes, the ones that come next.
Deliver(n) ==
  /\ Len(delivered) + n <= accepted
  /\ delivered' = delivered \o [i \in 1 .. n |-> Len(delivered) + i]
  /\ UNCHANGED accepted

\* The slot passes to another connection; what had not left is lost.
Reset == accepted' = 0 /\ delivered' = <<>>

StreamNext == Accept \/ (\E n \in 1 .. accepted : Deliver(n)) \/ Reset

StreamSpec == StreamInit /\ [][StreamNext]_streamVars
===============================================================================
