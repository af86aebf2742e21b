----------------------------- MODULE ClientTable -----------------------------
(* What the table of clients promises: a bounded set of battle servers, each *)
(* logged in with at most one key and no key shared, and nobody is let go    *)
(* who was not condemned before, nor does one log in after that.            *)
EXTENDS Naturals, FiniteSets

CONSTANTS ClientLimit, Peers, Keys, NulKeys

VARIABLES
  clients,  \* the connected battle servers
  logins,   \* the key each one has authenticated with, as pairs
  doomed    \* those that are to be disconnected

tableVars == <<clients, logins, doomed>>

TableInit == clients = {} /\ logins = {} /\ doomed = {}

Admit(p) ==
  /\ p \notin clients
  /\ Cardinality(clients) < ClientLimit
  /\ clients' = clients \cup {p}
  /\ UNCHANGED <<logins, doomed>>

Authenticate(p, k) ==
  /\ p \in clients \ doomed
  /\ \A login \in logins : login[1] # p /\ (login[2] # k \/ k \in NulKeys)
  /\ logins' = logins \cup {<<p, k>>}
  /\ UNCHANGED <<clients, doomed>>

\* A broadcast may condemn many at once.
Doom ==
  /\ doomed \subseteq doomed' /\ doomed' \subseteq clients
  /\ UNCHANGED <<clients, logins>>

Drop(p) ==
  /\ p \in doomed
  /\ clients' = clients \ {p}
  /\ doomed' = doomed \ {p}
  /\ logins' = {login \in logins : login[1] # p}

TableNext ==
  \/ \E p \in Peers : Admit(p) \/ Drop(p) \/ \E k \in Keys : Authenticate(p, k)
  \/ Doom

TableSpec == TableInit /\ [][TableNext]_tableVars
===============================================================================
