------------------------------- MODULE TeamBook -------------------------------
(* What teams promise: a player is in one team or none, comes into one by   *)
(* founding it or because a battle server knows it, and is removed from it   *)
(* by its leader; what a leader does concerns no other team.  A founder is   *)
(* alone at first, under a name of the team's own, as long as no query for   *)
(* a name has failed.                                                       *)

CONSTANTS Accounts, Words, Spellings, Settings, Areas, None

VARIABLES
  team,    \* the team each account is in, or None
  area,    \* its access to the team area
  rows,    \* leader, name and settings of every team
  known,   \* the teams that battle servers know
  unsure   \* a query for a name has failed

bookVars == <<team, area, rows, known, unsure>>

BookInit ==
  /\ team = [l \in Accounts |-> None]
  /\ area = [l \in Accounts |-> 0]
  /\ rows = [t \in {} |-> None]
  /\ known = {}
  /\ unsure = FALSE

\* The rows get one more.
NewTeam(l, t, name) ==
  \E s \in Settings :
    rows' = [u \in DOMAIN rows \cup {t} |->
               IF u = t THEN [leader |-> l, name |-> name, settings |-> s] ELSE rows[u]]

\* The founder is the only member, or the last statement failed and there is none.
Found(l, name) ==
  /\ team[l] = None
  /\ \A u \in DOMAIN rows : rows[u].name.word # name.word
  /\ \E t \in DOMAIN rows' \ DOMAIN rows :
       NewTeam(l, t, name) /\ team' \in {team, [team EXCEPT ![l] = t]}
  /\ UNCHANGED <<area, known, unsure>>

\* With two teams of a name the founder may be put into the other one.
FoundUnsure(l, name) ==
  /\ team[l] = None
  /\ unsure'
  /\ rows' = rows \/ \E t \in DOMAIN rows' \ DOMAIN rows : NewTeam(l, t, name)
  /\ \E t \in DOMAIN rows' \cup {None} : team' = [team EXCEPT ![l] = t]
  /\ UNCHANGED <<area, known>>

Leads(l) == team[l] # None /\ rows[team[l]].leader = l

Members(l) == {m \in Accounts : team[m] = team[l]}

Configure(l, s) ==
  /\ Leads(l)
  /\ rows' = [t \in DOMAIN rows |->
                IF rows[t].leader = l THEN [rows[t] EXCEPT !.settings = s] ELSE rows[t]]
  /\ known' = known \cup {team[l]}
  /\ UNCHANGED <<team, area, unsure>>

Dismiss(l, out) ==
  /\ Leads(l) /\ out \subseteq Members(l)
  /\ team' = [m \in Accounts |-> IF m \in out THEN None ELSE team[m]]
  /\ known' \in {known, known \cup {team[l]}}
  /\ UNCHANGED <<area, rows, unsure>>

Disband(l) ==
  /\ Leads(l)
  /\ team' = [m \in Accounts |-> IF m \in Members(l) THEN None ELSE team[m]]
  /\ rows' = [t \in DOMAIN rows \ {team[l]} |-> rows[t]]
  /\ known' = known \ {team[l]}
  /\ UNCHANGED <<area, unsure>>

Admit(l, m, access) ==
  /\ Leads(l) /\ m \in Members(l)
  /\ area' = [area EXCEPT ![m] = access]
  /\ UNCHANGED <<team, rows, known, unsure>>

Learn(l) ==
  /\ team[l] # None
  /\ known' = known \cup {team[l]}
  /\ UNCHANGED <<team, area, rows, unsure>>

\* A battle server says which team a player is in.
Join(l, t) ==
  /\ team' = [team EXCEPT ![l] = t]
  /\ UNCHANGED <<area, rows, known, unsure>>

BookNext ==
  \E l \in Accounts :
    \/ \E name \in [word : Words, spelling : Spellings] : Found(l, name) \/ FoundUnsure(l, name)
    \/ \E s \in Settings : Configure(l, s)
    \/ \E out \in SUBSET Members(l) : Dismiss(l, out)
    \/ Disband(l)
    \/ \E m \in Accounts, access \in Areas : Admit(l, m, access)
    \/ Learn(l)
    \/ \E t \in known \cup {None} : Join(l, t)

BookSpec == BookInit /\ [][BookNext]_bookVars
===============================================================================
