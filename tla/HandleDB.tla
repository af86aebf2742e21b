------------------------------- MODULE HandleDB -------------------------------
(***************************************************************************)
(* Handles: a client asks whether a handle is free (handle check), and a    *)
(* later Save Client Data stores it for the license it names.  Between the   *)
(* two anything happens, other checks and saves included, and nothing is     *)
(* reserved; a license may have several sessions.  The battle servers are    *)
(* outside: one saves, for a session, the handle that a login told or that   *)
(* a check found free.                                                     *)
(***************************************************************************)
EXTENDS AccountText

CONSTANTS
  Players,   \* the licenses
  Sessions   \* the clients that are logged in at a time

Handles == [word : Words, spelling : Spellings]

ASSUME HandleConstantsOK == None \notin Handles \cup Players

VARIABLES
  handle,      \* the column of account_data: a handle or None
  session,     \* what a battle server knows of a client: its license and its handle
  overlapped,  \* history: two players and a word, one of whom was told that it is free while
               \* a session of the other held it
  misread      \* history: a player and a word, when the query that found it free had failed

handleVars == <<handle, session, overlapped, misread>>

NoSession == [player |-> None, handle |-> None]

HandleInit ==
  /\ handle = [l \in Players |-> None]
  /\ session = [s \in Sessions |-> NoSession]
  /\ overlapped = {} /\ misread = {}

TakenSpelling(h) == \E l \in Players : handle[l] = h

\* hex(lower(handle)) is compared with the lower-case handle.
Taken(h) == \E l \in Players : handle[l] # None /\ handle[l].word = h.word

\* Nothing keeps a player from a second session.
Login(s, l) ==
  /\ session' = [session EXCEPT ![s] = [player |-> l, handle |-> handle[l]]]
  /\ UNCHANGED <<handle, overlapped, misread>>

\* The others of whom a session holds the word, saved or not.
Rivals(l, h) ==
  {k \in Players \ {l} :
     \E s \in Sessions : /\ session[s].player = k /\ session[s].handle # None
                         /\ session[s].handle.word = h.word}

\* The handle is free, or its query failed.  The request names no license, and is
\* answered whether the player has a handle or not; one that is taken, or that is not
\* answered because the database cannot be opened, leaves the client what it has.
CheckFree(s, l, h) ==
  /\ session[s].player = l
  /\ \E ok \in Outcomes("query") :
       /\ ~(ok /\ Taken(h))
       /\ misread' = IF ok THEN misread ELSE misread \cup {<<l, h.word>>}
  /\ session' = [session EXCEPT ![s].handle = h]
  /\ overlapped' = overlapped \cup {<<{k, l}, h.word>> : k \in Rivals(l, h)}
  /\ UNCHANGED handle

\* Save Client Data writes the handle it is sent, even none, whoever has it by now.
Save(s, l) ==
  /\ session[s].player = l
  /\ \E ok \in Outcomes("update") :
       handle' = IF ok THEN [handle EXCEPT ![l] = session[s].handle] ELSE handle
  /\ UNCHANGED <<session, overlapped, misread>>

HandleNext ==
  \E s \in Sessions, l \in Players :
    \/ Login(s, l)
    \/ \E h \in Handles : CheckFree(s, l, h)
    \/ Save(s, l)

HandleSpec == HandleInit /\ [][HandleNext]_handleVars

-------------------------------------------------------------------------------
\* Two players have one handle, up to its spelling, only if one of them was told that it
\* is free while a session of the other held it - unsaved, or left over from before a
\* change - or when the query had failed (ClientAuthPackets.cpp:429,
\* ClientRequestsPackets.cpp:76).
HandlesClashOnlyIfRaced ==
  \A k, l \in Players :
    k # l /\ handle[k] # None /\ handle[l] # None /\ handle[k].word = handle[l].word =>
      \/ <<{k, l}, handle[k].word>> \in overlapped
      \/ {<<k, handle[k].word>>, <<l, handle[k].word>>} \cap misread # {}
===============================================================================
