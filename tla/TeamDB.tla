-------------------------------- MODULE TeamDB --------------------------------
(***************************************************************************)
(* Teams: the team requests of ClientRequests (create, change, delete, team *)
(* area, remove a member), what logins and Get Team Data tell the battle     *)
(* servers, and the team a battle server writes back when it saves a player. *)
(*                                                                         *)
(* A request is a series of SQL statements of their own, not a transaction,  *)
(* and the code looks at no error: a statement that fails (the database is   *)
(* locked by another process, say) changes nothing, and a query that fails   *)
(* looks like one that found no row.  The database is SQLite.               *)
(***************************************************************************)
EXTENDS Integers, FiniteSets

CONSTANTS
  Accounts,        \* the licenses of account_data
  Words, Spellings,\* a team name is a word in one of its spellings: lower case, mixed, ...
  Settings,        \* the values of flags and comment together
  Areas,           \* the values of teamarea
  None,            \* NULL
  MaxFaults,       \* the statements of one request that may fail
  MaxTeams         \* bound: teams created

ASSUME ConstantsOK ==
  /\ None \notin Nat
  /\ Areas \subseteq Nat /\ 0 \in Areas /\ Settings # {}
  /\ MaxFaults \in Nat /\ MaxTeams \in Nat

Names == [word : Words, spelling : Spellings]

TeamRows == [leader : Accounts, name : Names, settings : Settings]

VARIABLES
  teamid, teamarea,  \* the columns of account_data
  teams,             \* team_data, by teamid
  nextId,            \* what AUTOINCREMENT gives next
  told,              \* the team ids that answers have told the battle servers
  last,              \* history: who made the last request, and its result
  missed,            \* history: a query for a team name has failed
  dismissed          \* history: removed from its team, and not saved since

vars == <<teamid, teamarea, teams, nextId, told, last, missed, dismissed>>

Requests == [kind : {"create", "other"}, by : Accounts \cup {None}, result : 0 .. 3]

Live == DOMAIN teams

TypeOK ==
  /\ teamid \in [Accounts -> Nat \cup {None}]
  /\ teamarea \in [Accounts -> Areas]
  /\ teams \in [Live -> TeamRows]
  /\ Live \subseteq 1 .. nextId - 1
  /\ nextId \in Nat \ {0}
  /\ told \subseteq 0 .. nextId - 1
  /\ last \in Requests
  /\ missed \in BOOLEAN
  /\ dismissed \subseteq Accounts

Init ==
  /\ teamid = [l \in Accounts |-> None]
  /\ teamarea = [l \in Accounts |-> 0]
  /\ teams = [t \in {} |-> None]
  /\ nextId = 1
  /\ told = {}
  /\ last = [kind |-> "other", by |-> None, result |-> 0]
  /\ missed = FALSE
  /\ dismissed = {}

\* Which of the n statements of a request succeed.
Outcomes(n) == {ok \in [1 .. n -> BOOLEAN] : Cardinality({i \in 1 .. n : ~ok[i]}) <= MaxFaults}

Answer(kind, l, result) == last' = [kind |-> kind, by |-> l, result |-> result]

-------------------------------------------------------------------------------
(* Create Team: look for the account, look for the name, insert the row,    *)
(* read its id back by its name, and write that to the account.             *)

ClashNever(name) == FALSE

ClashSpelling(name) == \E t \in Live : teams[t].name = name

\* HEX(LOWER(teamname)) compared with the lower-case name.
Clash(name) == \E t \in Live : teams[t].name.word = name.word

AutoIdReused == CHOOSE i \in 1 .. nextId : i \notin Live /\ \A j \in 1 .. i - 1 : j \in Live

AutoId == nextId

\* flags = 0 and no comment.
Fresh == CHOOSE s \in Settings : TRUE

WithTeam(l, name) ==
  [t \in Live \cup {AutoId} |->
     IF t = AutoId THEN [leader |-> l, name |-> name, settings |-> Fresh] ELSE teams[t]]

\* The first row with exactly this name.
FirstNamed(rows, name, t) ==
  /\ t \in DOMAIN rows /\ rows[t].name = name
  /\ \A u \in DOMAIN rows : rows[u].name = name => t <= u

\* The account's teamid is NULL; '' is no integer, and 0 is not NULL.
CreateTeam(l, name) ==
  \E ok \in Outcomes(5) :
    LET rows  == IF ok[3] THEN WithTeam(l, name) ELSE teams
        found == ok[4] /\ \E t \in DOMAIN rows : rows[t].name = name
    IN
    /\ teamid[l] = None /\ ok[1]
    /\ ~(ok[2] /\ Clash(name))
    /\ nextId <= MaxTeams
    /\ teams' = rows
    /\ nextId' = IF ok[3] THEN nextId + 1 ELSE nextId
    /\ missed' = (missed \/ ~ok[2])
    /\ IF found /\ ok[5]
         THEN \E t \in DOMAIN rows :
                FirstNamed(rows, name, t) /\ teamid' = [teamid EXCEPT ![l] = t]
         ELSE teamid' = teamid
    /\ Answer("create", l, IF found THEN 0 ELSE 1)
    /\ told' = told \cup {0}   \* the id in the answer is always 0
    /\ dismissed' = IF found /\ ok[5] THEN dismissed \ {l} ELSE dismissed
    /\ UNCHANGED teamarea

\* The account is in a team, or the name is taken.
CreateRefused(l, name) ==
  \E ok \in Outcomes(2) :
    LET free == ok[1] /\ teamid[l] = None IN
    /\ ~free \/ (ok[2] /\ Clash(name))
    /\ Answer("create", l, IF free THEN 1 ELSE 2)
    /\ told' = told \cup {0}
    /\ UNCHANGED <<teamid, teamarea, teams, nextId, missed, dismissed>>

-------------------------------------------------------------------------------
(* The requests of a leader.                                               *)

Leads(l) == teamid[l] \in Live /\ teams[teamid[l]].leader = l

\* The two queries that begin each of them: the account's team, then the row of
\* that team led by the account.
Result(l, ok) ==
  IF ~(ok[1] /\ teamid[l] # None) THEN 2
  ELSE IF ~(ok[2] /\ Leads(l)) THEN 3
  ELSE 0

\* The id in the answer.
Told(l, ok) == told' = told \cup {IF ok[1] /\ teamid[l] # None THEN teamid[l] ELSE 0}

\* Update Team Invite Type and Update Team Comment: every row the account leads.
SetTeam(l, settings) ==
  \E ok \in Outcomes(3) :
    /\ teams' = IF Result(l, ok) = 0 /\ ok[3]
                  THEN [t \in Live |-> IF teams[t].leader = l
                                         THEN [teams[t] EXCEPT !.settings = settings]
                                         ELSE teams[t]]
                  ELSE teams
    /\ Answer("other", l, Result(l, ok))
    /\ Told(l, ok)
    /\ UNCHANGED <<teamid, teamarea, nextId, missed, dismissed>>

NullOr(m) == IF teamarea[m] = 0 THEN 1 ELSE None

\* SET teamid = NULL AND teamarea = 0 is one assignment, of NULL AND (teamarea = 0):
\* NULL or 0; teamarea stays.
NullAnd(m) == IF teamarea[m] = 0 THEN None ELSE 0

Dismiss(members) ==
  /\ teamid' = [m \in Accounts |-> IF m \in members THEN NullAnd(m) ELSE teamid[m]]
  /\ dismissed' = dismissed \cup members

DeleteTeam(l) ==
  \E ok \in Outcomes(4) :
    /\ IF Result(l, ok) = 0 /\ ok[3]
         THEN teams' = [t \in Live \ {teamid[l]} |-> teams[t]]
         ELSE teams' = teams
    /\ IF Result(l, ok) = 0 /\ ok[4]
         THEN Dismiss({m \in Accounts : teamid[m] = teamid[l]})
         ELSE UNCHANGED <<teamid, dismissed>>
    /\ Answer("other", l, Result(l, ok))
    /\ Told(l, ok)
    /\ UNCHANGED <<teamarea, nextId, missed>>

InTeamOfAnybody(l, m) == TRUE

\* WHERE license = memberID AND teamid = the leader's.
InTeamOf(l, m) == teamid[m] = teamid[l]

\* Adjust Team Area sends no answer.
AdjustArea(l, m, access) ==
  \E ok \in Outcomes(4) :
    /\ teamarea' = IF Result(l, ok) = 0 /\ ok[3] /\ InTeamOf(l, m) /\ ok[4]
                     THEN [teamarea EXCEPT ![m] = access]
                     ELSE teamarea
    /\ Answer("other", l, 0)
    /\ UNCHANGED <<teamid, teams, nextId, told, missed, dismissed>>

\* The teamcount that the last two statements store is never read.
RemoveMember(l, m) ==
  \E ok \in Outcomes(4) :
    LET found == l # m /\ Result(l, ok) = 0 /\ ok[3] /\ InTeamOf(l, m) IN
    /\ IF found /\ ok[4] THEN Dismiss({m}) ELSE UNCHANGED <<teamid, dismissed>>
    /\ Answer("other", l, IF found THEN 0 ELSE 1)
    /\ UNCHANGED <<teamarea, teams, nextId, told, missed>>

\* The database does not open.
NotOpened(l) ==
  /\ MaxFaults > 0
  /\ Answer("create", l, 1) \/ Answer("other", l, 1)
  /\ told' \in {told, told \cup {0}}   \* Remove Member answers no id
  /\ UNCHANGED <<teamid, teamarea, teams, nextId, missed, dismissed>>

-------------------------------------------------------------------------------
(* What the battle servers learn, and what they save.                      *)

\* Get Team Data: a broadcast for an account in no team, or in a team that exists.
GetTeamData(l) ==
  \E ok \in Outcomes(2) :
    /\ told' = IF ok[1] /\ ok[2] /\ teamid[l] \in Live THEN told \cup {teamid[l]} ELSE told
    /\ Answer("other", l, 0)
    /\ UNCHANGED <<teamid, teamarea, teams, nextId, missed, dismissed>>

\* The answer to a login holds teamid, whether that team exists or not.
Login(l) ==
  /\ told' = IF teamid[l] # None THEN told \cup {teamid[l]} ELSE told
  /\ Answer("other", l, 0)
  /\ UNCHANGED <<teamid, teamarea, teams, nextId, missed, dismissed>>

\* Save Client Data: the team the battle server has for the player now, one it
\* was told of at some time or none (a negative number).
Save(l, team) ==
  /\ team \in told \cup {None}
  /\ \E ok \in Outcomes(1) :
       IF ok[1]
         THEN /\ teamid' = [teamid EXCEPT ![l] = team]
              /\ dismissed' = dismissed \ {l}
         ELSE UNCHANGED <<teamid, dismissed>>
  /\ Answer("other", l, 0)
  /\ UNCHANGED <<teamarea, teams, nextId, told, missed>>

-------------------------------------------------------------------------------
Next ==
  \E l \in Accounts :
    \/ \E name \in Names : CreateTeam(l, name) \/ CreateRefused(l, name)
    \/ \E settings \in Settings : SetTeam(l, settings)
    \/ DeleteTeam(l)
    \/ \E m \in Accounts, access \in Areas : AdjustArea(l, m, access)
    \/ \E m \in Accounts : RemoveMember(l, m)
    \/ NotOpened(l)
    \/ GetTeamData(l) \/ Login(l)
    \/ \E team \in 0 .. MaxTeams : Save(l, team)
    \/ Save(l, None)

Spec == Init /\ [][Next]_vars

-------------------------------------------------------------------------------
\* No two teams have names that differ in spelling only, as long as no query for a
\* name has failed (ClientRequestsPackets.cpp:290-301).
NamesUnique ==
  missed \/ \A t, u \in Live : teams[t].name.word = teams[u].name.word => t = u

\* Whoever is answered that a team was created leads a new team, and is in it or,
\* when the last statement failed, in none; never in the team of another with that
\* name (the id is read back by name, ClientRequestsPackets.cpp:305).
CreatedIsLed ==
  [][last'.kind = "create" /\ last'.result = 0 /\ ~missed' =>
       \E t \in DOMAIN teams' \ Live :
         teams'[t].leader = last'.by /\ teamid'[last'.by] \in {t, None}]_vars

\* A request changes the account that makes it, the accounts of a team that the
\* requester leads, and rows the requester leads; nothing else, whatever member it
\* names and however stale the ids it was saved with (ClientRequestsPackets.cpp:451-739).
OnlyLeaderActs ==
  [][/\ \A m \in Accounts :
          teamid'[m] # teamid[m] \/ teamarea'[m] # teamarea[m] =>
            last'.by = m \/ (teamid[m] \in Live /\ teams[teamid[m]].leader = last'.by)
     /\ \A t \in Live :
          (t \notin DOMAIN teams' \/ teams'[t] # teams[t]) => teams[t].leader = last'.by]_vars

\* An id of a deleted team that an account still has, or a battle server may
\* still save, never names a later team (team_data's AUTOINCREMENT).
StaleIdsStayDead ==
  [][\A i \in told \cup {teamid[l] : l \in Accounts} : i \notin Live => i \notin DOMAIN teams']_vars

\* A member that was removed, or whose team was deleted, is in no team until a
\* battle server saves the player again or the player creates one: whatever number
\* the Boolean assigned to teamid is, no team has it (ClientRequestsPackets.cpp:478, :709).
DismissedAreOut == \A l \in dismissed : teamid[l] \notin Live

\* The team requests implement TeamBook, whatever statements fail: an id of no live
\* team counts as none, and one that is still known when its team is gone never
\* makes anybody a member of a later team (ClientRequestsPackets.cpp:272-739).
Membership == [l \in Accounts |-> IF teamid[l] \in Live THEN teamid[l] ELSE None]

Book == INSTANCE TeamBook WITH team <- Membership, area <- teamarea, rows <- teams,
                               known <- told \cap Live, unsure <- missed
TeamsAsPromised == Book!BookSpec
===============================================================================
