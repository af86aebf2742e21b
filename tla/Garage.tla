-------------------------------- MODULE Garage --------------------------------
(* What a garage promises: every bay of a player holds one car or none, and *)
(* a request does to the bays what its name says.  Of a garage in which a   *)
(* bay has got two cars nothing is promised any more.                       *)

CONSTANTS Players, Bays, Cars, None

VARIABLES
  park,   \* what every bay holds
  mixed   \* the players of whose garages nothing is promised

garageVars == <<park, mixed>>

Init ==
  /\ park = [l \in Players |-> [b \in Bays |-> None]]
  /\ mixed = {}

\* A car is parked in a bay, in place of the one that was there.
Put(l, b, c) ==
  /\ l \notin mixed
  /\ park' = [park EXCEPT ![l][b] = c]
  /\ UNCHANGED mixed

Take(l, b) ==
  /\ l \notin mixed
  /\ park' = [park EXCEPT ![l][b] = None]
  /\ UNCHANGED mixed

Swap(l, a, b) ==
  /\ l \notin mixed
  /\ park' = [park EXCEPT ![l][a] = park[l][b], ![l][b] = park[l][a]]
  /\ UNCHANGED mixed

\* A move is a swap with a bay that holds no car, or there is no car to move.
Move(l, a, b) ==
  \/ park[l][b] = None /\ Swap(l, a, b)
  \/ (a = b \/ park[l][a] = None) /\ UNCHANGED garageVars

\* Only the garage of this player changes.
Mix(l) ==
  /\ mixed' = mixed \cup {l}
  /\ \E any \in [Bays -> Cars \cup {None}] : park' = [park EXCEPT ![l] = any]

Next ==
  \E l \in Players :
    \/ \E b \in Bays :
         \/ \E c \in Cars : Put(l, b, c)
         \/ Take(l, b)
         \/ \E a \in Bays : Swap(l, a, b)
    \/ Mix(l)

Spec == Init /\ [][Next]_garageVars
===============================================================================
