----------------------------- MODULE TeamDBProofs -----------------------------
(* Theorems about TeamDB, for any accounts, names and failures.             *)
EXTENDS TeamDB, TLAPS

\* Every id in account_data was given to a team at some time.
IdsIssued == \A l \in Accounts : teamid[l] \in {None} \cup 0 .. nextId - 1

TeamInv == TypeOK /\ IdsIssued

LEMMA InitTeam == Init => TeamInv /\ NamesUnique
<1> SUFFICES ASSUME Init PROVE TeamInv /\ NamesUnique
  OBVIOUS
<1>1. Live = {} /\ teams \in [Live -> TeamRows]
  BY DEF Init, Live
<1>2. NamesUnique
  BY <1>1 DEF NamesUnique
<1>3. last \in Requests
  BY DEF Init, Requests
<1>4. TypeOK
  <2>1. teamid \in [Accounts -> Nat \cup {None}] /\ teamarea \in [Accounts -> Areas]
    BY ConstantsOK DEF Init
  <2>2. /\ Live \subseteq 1 .. nextId - 1 /\ nextId \in Nat \ {0} /\ told \subseteq 0 .. nextId - 1
        /\ dismissed \subseteq Accounts
    BY <1>1 DEF Init
  <2>3. missed \in BOOLEAN
    BY Zenon DEF Init
  <2> QED
    BY <1>1, <1>3, <2>1, <2>2, <2>3 DEF TypeOK
<1>5. IdsIssued
  BY DEF Init, IdsIssued
<1> QED
  BY <1>2, <1>4, <1>5 DEF TeamInv

\* What a new row leaves of the table.
LEMMA WithTeamRows ==
  ASSUME TypeOK, NEW l \in Accounts, NEW name \in Names
  PROVE  /\ DOMAIN WithTeam(l, name) = Live \cup {nextId}
         /\ nextId \notin Live
         /\ WithTeam(l, name)[nextId].leader = l /\ WithTeam(l, name)[nextId].name = name
         /\ \A t \in Live : WithTeam(l, name)[t] = teams[t]
         /\ WithTeam(l, name) \in [Live \cup {nextId} -> TeamRows]
<1>1. nextId \in Nat \ {0} /\ Live \subseteq 1 .. nextId - 1 /\ teams \in [Live -> TeamRows]
  BY DEF TypeOK
<1>2. nextId \notin Live
  BY <1>1
<1>3. [leader |-> l, name |-> name, settings |-> Fresh] \in TeamRows
  BY ConstantsOK DEF TeamRows, Fresh
<1> QED
  BY <1>1, <1>2, <1>3 DEF WithTeam, AutoId

\* The parts of a successful lookup: what CreateTeam does to each variable.
LEMMA CreateParts ==
  ASSUME missed \in BOOLEAN, NEW l, NEW name, CreateTeam(l, name)
  PROVE  /\ teamid[l] = None
         /\ \/ teams' = teams /\ nextId' = nextId
            \/ teams' = WithTeam(l, name) /\ nextId' = nextId + 1
         /\ missed' \/ ~Clash(name)
         /\ missed' \in BOOLEAN /\ (missed => missed')
         /\ \/ teamid' = teamid
            \/ \E t \in DOMAIN teams' : FirstNamed(teams', name, t) /\ teamid' = [teamid EXCEPT ![l] = t]
         /\ \/ Answer("create", l, 0) /\ \E t \in DOMAIN teams' : teams'[t].name = name
            \/ Answer("create", l, 1)
         /\ told' = told \cup {0}
         /\ dismissed' \in {dismissed, dismissed \ {l}}
         /\ teamarea' = teamarea
<1>1. PICK ok \in Outcomes(5) :
        LET rows  == IF ok[3] THEN WithTeam(l, name) ELSE teams
            found == ok[4] /\ \E t \in DOMAIN rows : rows[t].name = name
        IN
        /\ teamid[l] = None /\ ok[1]
        /\ ~(ok[2] /\ Clash(name))
        /\ nextId <= MaxTeams
        /\ teams' = rows
        /\ nextId' = IF ok[3] THEN nextId + 1 ELSE nextId
        /\ missed' = (missed \/ ~ok[2])
        /\ IF found /\ ok[5]
             THEN \E t \in DOMAIN rows :
                    FirstNamed(rows, name, t) /\ teamid' = [teamid EXCEPT ![l] = t]
             ELSE teamid' = teamid
        /\ Answer("create", l, IF found THEN 0 ELSE 1)
        /\ told' = told \cup {0}
        /\ dismissed' = IF found /\ ok[5] THEN dismissed \ {l} ELSE dismissed
        /\ UNCHANGED teamarea
  BY DEF CreateTeam
<1> DEFINE rows  == IF ok[3] THEN WithTeam(l, name) ELSE teams
           found == ok[4] /\ \E t \in DOMAIN rows : rows[t].name = name
<1>2. teams' = rows
  BY <1>1
<1>3. ok[2] \in BOOLEAN /\ ok[3] \in BOOLEAN
  BY DEF Outcomes
<1>4. /\ \/ teams' = teams /\ nextId' = nextId
         \/ teams' = WithTeam(l, name) /\ nextId' = nextId + 1
  BY <1>1, <1>3
<1>5. missed' \/ ~Clash(name)
  BY <1>1, <1>3
<1>6. missed' \in BOOLEAN /\ (missed => missed')
  BY <1>1, <1>3
<1>7. \/ teamid' = teamid
      \/ \E t \in DOMAIN teams' : FirstNamed(teams', name, t) /\ teamid' = [teamid EXCEPT ![l] = t]
  BY <1>1, <1>2
<1>8. \/ Answer("create", l, 0) /\ \E t \in DOMAIN teams' : teams'[t].name = name
      \/ Answer("create", l, 1)
  <2>1. CASE found
    BY <1>1, <1>2, <2>1
  <2>2. CASE ~found
    BY <1>1, <1>2, <2>2
  <2> QED
    BY <2>1, <2>2
<1> QED
  BY <1>1, <1>4, <1>5, <1>6, <1>7, <1>8

-------------------------------------------------------------------------------
\* A step that adds no row and renames none.
LEMMA RowsKept ==
  ASSUME TeamInv, NamesUnique, nextId' = nextId, missed' = missed,
         NEW D \in SUBSET Live, teams' \in [D -> TeamRows],
         \A t \in D : teams'[t].name = teams[t].name
  PROVE  /\ teams' \in [DOMAIN teams' -> TeamRows]
         /\ DOMAIN teams' \subseteq 1 .. nextId' - 1
         /\ nextId' \in Nat \ {0}
         /\ missed' \in BOOLEAN
         /\ NamesUnique'
<1>1. DOMAIN teams' = D
  OBVIOUS
<1>2. D \subseteq 1 .. nextId - 1 /\ nextId \in Nat \ {0} /\ missed \in BOOLEAN
  BY DEF TeamInv, TypeOK
<1>3. NamesUnique'
  BY <1>1 DEF NamesUnique, Live
<1> QED
  BY <1>1, <1>2, <1>3

LEMMA TeamInvNext ==
  ASSUME TypeOK', IdsIssued'
  PROVE  TeamInv'
BY DEF TeamInv

\* The requests of a leader, and what becomes of the rows.
LEMMA ResultLeads ==
  ASSUME NEW l, NEW ok
  PROVE  /\ Result(l, ok) \in 0 .. 3
         /\ Result(l, ok) = 0 => Leads(l)
BY DEF Result

LEMMA AnswerTyped ==
  ASSUME NEW kind \in {"create", "other"}, NEW l \in Accounts, NEW r \in 0 .. 3, Answer(kind, l, r)
  PROVE  last' \in Requests
BY DEF Answer, Requests

LEMMA ToldTyped ==
  ASSUME TeamInv, NEW l \in Accounts, NEW ok, Told(l, ok)
  PROVE  told' \subseteq 0 .. nextId - 1
<1>1. nextId \in Nat \ {0} /\ told \subseteq 0 .. nextId - 1
  BY DEF TeamInv, TypeOK
<1>2. teamid[l] # None => teamid[l] \in 0 .. nextId - 1
  BY DEF TeamInv, IdsIssued
<1>3. 0 \in 0 .. nextId - 1
  BY <1>1
<1> QED
  BY <1>1, <1>2, <1>3, Zenon DEF Told

LEMMA DismissTyped ==
  ASSUME TeamInv, NEW members \in SUBSET Accounts, Dismiss(members), nextId' = nextId
  PROVE  /\ teamid' \in [Accounts -> Nat \cup {None}]
         /\ IdsIssued'
         /\ dismissed' \subseteq Accounts
<1>1. nextId \in Nat \ {0}
  BY DEF TeamInv, TypeOK
<1>2. \A m \in Accounts : NullAnd(m) \in {None, 0}
  BY DEF NullAnd
<1>3. \A m \in Accounts : teamid[m] \in Nat \cup {None} /\ teamid[m] \in {None} \cup 0 .. nextId - 1
  BY DEF TeamInv, TypeOK, IdsIssued
<1>4. /\ teamid' = [m \in Accounts |-> IF m \in members THEN NullAnd(m) ELSE teamid[m]]
      /\ dismissed' = dismissed \cup members
  BY DEF Dismiss
<1>5. \A m \in Accounts : teamid'[m] \in {None} \cup 0 .. nextId - 1 /\ teamid'[m] \in Nat \cup {None}
  BY <1>1, <1>2, <1>3, <1>4
<1>6. teamid' \in [Accounts -> Nat \cup {None}]
  BY <1>4, <1>5
<1> QED
  BY <1>4, <1>5, <1>6 DEF IdsIssued, TeamInv, TypeOK

LEMMA CreateKeeps ==
  ASSUME TeamInv, NamesUnique, NEW l \in Accounts, NEW name \in Names, CreateTeam(l, name)
  PROVE  TeamInv' /\ NamesUnique'
<1>1. TypeOK /\ IdsIssued /\ missed \in BOOLEAN /\ nextId \in Nat \ {0}
  BY DEF TeamInv, TypeOK
<1>2. /\ teamid[l] = None
      /\ \/ teams' = teams /\ nextId' = nextId
         \/ teams' = WithTeam(l, name) /\ nextId' = nextId + 1
      /\ missed' \/ ~Clash(name)
      /\ missed' \in BOOLEAN /\ (missed => missed')
      /\ \/ teamid' = teamid
         \/ \E t \in DOMAIN teams' : FirstNamed(teams', name, t) /\ teamid' = [teamid EXCEPT ![l] = t]
      /\ Answer("create", l, 0) \/ Answer("create", l, 1)
      /\ told' = told \cup {0}
      /\ dismissed' \in {dismissed, dismissed \ {l}}
      /\ teamarea' = teamarea
  BY <1>1, CreateParts
<1>3. last' \in Requests
  BY <1>2, AnswerTyped
<1>4. /\ nextId' \in Nat \ {0} /\ nextId <= nextId'
      /\ teams' \in [DOMAIN teams' -> TeamRows]
      /\ DOMAIN teams' \subseteq 1 .. nextId' - 1
      /\ NamesUnique'
  <2>1. CASE teams' = teams /\ nextId' = nextId
    <3>1. NamesUnique'
      BY <1>2, <2>1 DEF NamesUnique, Live
    <3> QED
      BY <1>1, <2>1, <3>1 DEF TypeOK, Live
  <2>2. CASE teams' = WithTeam(l, name) /\ nextId' = nextId + 1
    <3>1. /\ DOMAIN teams' = Live \cup {nextId} /\ nextId \notin Live
          /\ teams'[nextId].name = name
          /\ \A t \in Live : teams'[t] = teams[t]
          /\ teams' \in [Live \cup {nextId} -> TeamRows]
      <4> DEFINE rows == WithTeam(l, name)
      <4>1. /\ DOMAIN rows = Live \cup {nextId} /\ nextId \notin Live
            /\ rows[nextId].name = name
            /\ \A t \in Live : rows[t] = teams[t]
            /\ rows \in [Live \cup {nextId} -> TeamRows]
        BY <1>1, WithTeamRows
      <4>2. teams' = rows
        BY <2>2
      <4> HIDE DEF rows
      <4> QED
        BY <4>1, <4>2
    <3>2. Live \subseteq 1 .. nextId - 1
      BY <1>1 DEF TypeOK
    <3>3. DOMAIN teams' \subseteq 1 .. nextId' - 1
      BY <1>1, <2>2, <3>1, <3>2
    <3>4. NamesUnique'
      <4> SUFFICES ASSUME ~missed', NEW t \in DOMAIN teams', NEW u \in DOMAIN teams',
                          teams'[t].name.word = teams'[u].name.word
                   PROVE  t = u
        BY DEF NamesUnique, Live
      <4>1. ~missed /\ ~Clash(name)
        BY <1>1, <1>2
      <4>2. CASE t \in Live /\ u \in Live
        BY <3>1, <4>1, <4>2 DEF NamesUnique
      <4>3. CASE t = nextId /\ u = nextId
        BY <4>3
      <4>4. CASE t \in Live /\ u = nextId
        BY <3>1, <4>1, <4>4 DEF Clash
      <4>5. CASE t = nextId /\ u \in Live
        BY <3>1, <4>1, <4>5 DEF Clash
      <4> QED
        BY <3>1, <4>2, <4>3, <4>4, <4>5
    <3> QED
      BY <1>1, <2>2, <3>1, <3>3, <3>4
  <2> QED
    BY <1>2, <2>1, <2>2
<1>5. teamid' \in [Accounts -> Nat \cup {None}] /\ IdsIssued'
  <2>1. \A m \in Accounts : teamid[m] \in {None} \cup 0 .. nextId' - 1
    BY <1>1, <1>4 DEF IdsIssued
  <2>2. CASE teamid' = teamid
    BY <1>1, <2>1, <2>2 DEF TypeOK, IdsIssued
  <2>3. ASSUME NEW t \in DOMAIN teams', teamid' = [teamid EXCEPT ![l] = t]
        PROVE  teamid' \in [Accounts -> Nat \cup {None}] /\ IdsIssued'
    <3>1. t \in 0 .. nextId' - 1 /\ t \in Nat
      BY <1>4
    <3>2. teamid \in [Accounts -> Nat \cup {None}]
      BY <1>1 DEF TypeOK
    <3>3. \A m \in Accounts : teamid'[m] = IF m = l THEN t ELSE teamid[m]
      BY <2>3, <3>2
    <3> QED
      BY <2>1, <2>3, <3>1, <3>2, <3>3 DEF IdsIssued
  <2> QED
    BY <1>2, <2>2, <2>3
<1>6. TypeOK'
  <2>1. told' \subseteq 0 .. nextId' - 1
    BY <1>1, <1>2, <1>4 DEF TypeOK
  <2>2. teamarea' \in [Accounts -> Areas] /\ dismissed' \subseteq Accounts /\ missed' \in BOOLEAN
    BY <1>1, <1>2 DEF TypeOK
  <2> QED
    BY <1>3, <1>4, <1>5, <2>1, <2>2 DEF TypeOK, Live
<1> QED
  BY <1>4, <1>5, <1>6, TeamInvNext

LEMMA SetKeeps ==
  ASSUME TeamInv, NamesUnique, NEW l \in Accounts, NEW settings \in Settings, SetTeam(l, settings)
  PROVE  TeamInv' /\ NamesUnique'
<1>1. PICK ok \in Outcomes(3) :
        /\ teams' = IF Result(l, ok) = 0 /\ ok[3]
                      THEN [t \in Live |-> IF teams[t].leader = l
                                             THEN [teams[t] EXCEPT !.settings = settings]
                                             ELSE teams[t]]
                      ELSE teams
        /\ Answer("other", l, Result(l, ok))
        /\ Told(l, ok)
        /\ UNCHANGED <<teamid, teamarea, nextId, missed, dismissed>>
  BY DEF SetTeam
<1>2. last' \in Requests
  BY <1>1, ResultLeads, AnswerTyped
<1>3. told' \subseteq 0 .. nextId - 1
  BY <1>1, ToldTyped
<1>4. teams' \in [Live -> TeamRows] /\ \A t \in Live : teams'[t].name = teams[t].name
  BY <1>1 DEF TeamInv, TypeOK, TeamRows
<1>5. /\ teams' \in [DOMAIN teams' -> TeamRows] /\ DOMAIN teams' \subseteq 1 .. nextId' - 1
      /\ nextId' \in Nat \ {0} /\ missed' \in BOOLEAN /\ NamesUnique'
  BY <1>1, <1>4, RowsKept
<1>6. TypeOK'
  BY <1>1, <1>2, <1>3, <1>5 DEF TeamInv, TypeOK, Live
<1>7. IdsIssued'
  BY <1>1 DEF TeamInv, IdsIssued
<1> QED
  BY <1>5, <1>6, <1>7, TeamInvNext

LEMMA DeleteKeeps ==
  ASSUME TeamInv, NamesUnique, NEW l \in Accounts, DeleteTeam(l)
  PROVE  TeamInv' /\ NamesUnique'
<1>1. PICK ok \in Outcomes(4) :
        /\ IF Result(l, ok) = 0 /\ ok[3]
             THEN teams' = [t \in Live \ {teamid[l]} |-> teams[t]]
             ELSE teams' = teams
        /\ IF Result(l, ok) = 0 /\ ok[4]
             THEN Dismiss({m \in Accounts : teamid[m] = teamid[l]})
             ELSE UNCHANGED <<teamid, dismissed>>
        /\ Answer("other", l, Result(l, ok))
        /\ Told(l, ok)
        /\ UNCHANGED <<teamarea, nextId, missed>>
  BY DEF DeleteTeam
<1>2. last' \in Requests
  BY <1>1, ResultLeads, AnswerTyped
<1>3. told' \subseteq 0 .. nextId - 1
  BY <1>1, ToldTyped
<1>4. \E D \in SUBSET Live : teams' \in [D -> TeamRows] /\ \A t \in D : teams'[t].name = teams[t].name
  BY <1>1 DEF TeamInv, TypeOK
<1>5. /\ teams' \in [DOMAIN teams' -> TeamRows] /\ DOMAIN teams' \subseteq 1 .. nextId' - 1
      /\ nextId' \in Nat \ {0} /\ missed' \in BOOLEAN /\ NamesUnique'
  BY <1>1, <1>4, RowsKept
<1>6. teamid' \in [Accounts -> Nat \cup {None}] /\ IdsIssued' /\ dismissed' \subseteq Accounts
  <2>1. CASE Dismiss({m \in Accounts : teamid[m] = teamid[l]})
    BY <1>1, <2>1, DismissTyped
  <2>2. CASE UNCHANGED <<teamid, dismissed>>
    BY <1>1, <2>2 DEF TeamInv, TypeOK, IdsIssued
  <2> QED
    BY <1>1, <2>1, <2>2
<1>7. TypeOK'
  BY <1>1, <1>2, <1>3, <1>5, <1>6 DEF TeamInv, TypeOK, Live
<1> QED
  BY <1>5, <1>6, <1>7, TeamInvNext

LEMMA RemoveKeeps ==
  ASSUME TeamInv, NamesUnique, NEW l \in Accounts, NEW m \in Accounts, RemoveMember(l, m)
  PROVE  TeamInv' /\ NamesUnique'
<1>1. /\ Dismiss({m}) \/ UNCHANGED <<teamid, dismissed>>
      /\ Answer("other", l, 0) \/ Answer("other", l, 1)
      /\ UNCHANGED <<teamarea, teams, nextId, told, missed>>
  BY DEF RemoveMember
<1>2. last' \in Requests
  BY <1>1, AnswerTyped
<1>3. teamid' \in [Accounts -> Nat \cup {None}] /\ IdsIssued' /\ dismissed' \subseteq Accounts
  <2>1. CASE Dismiss({m})
    BY <1>1, <2>1, DismissTyped
  <2>2. CASE UNCHANGED <<teamid, dismissed>>
    BY <1>1, <2>2 DEF TeamInv, TypeOK, IdsIssued
  <2> QED
    BY <1>1, <2>1, <2>2
<1>4. TypeOK'
  BY <1>1, <1>2, <1>3 DEF TeamInv, TypeOK, Live
<1>5. NamesUnique'
  BY <1>1 DEF NamesUnique, Live
<1> QED
  BY <1>3, <1>4, <1>5, TeamInvNext

LEMMA SaveKeeps ==
  ASSUME TeamInv, NamesUnique, NEW l \in Accounts, NEW team, Save(l, team)
  PROVE  TeamInv' /\ NamesUnique'
<1>1. /\ team \in told \cup {None}
      /\ \/ teamid' = [teamid EXCEPT ![l] = team] /\ dismissed' = dismissed \ {l}
         \/ UNCHANGED <<teamid, dismissed>>
      /\ Answer("other", l, 0)
      /\ UNCHANGED <<teamarea, teams, nextId, told, missed>>
  BY DEF Save
<1>2. last' \in Requests
  BY <1>1, AnswerTyped
<1>3. team \in {None} \cup 0 .. nextId - 1 /\ team \in Nat \cup {None}
  BY <1>1 DEF TeamInv, TypeOK
<1>4. teamid' \in [Accounts -> Nat \cup {None}] /\ IdsIssued' /\ dismissed' \subseteq Accounts
  BY <1>1, <1>3 DEF TeamInv, TypeOK, IdsIssued
<1>5. TypeOK'
  BY <1>1, <1>2, <1>4 DEF TeamInv, TypeOK, Live
<1>6. NamesUnique'
  BY <1>1 DEF NamesUnique, Live
<1> QED
  BY <1>4, <1>5, <1>6, TeamInvNext

\* The requests that at most tell an id or set a team area.
LEMMA OthersKeep ==
  ASSUME TeamInv, NamesUnique, NEW l \in Accounts,
         \/ \E name \in Names : CreateRefused(l, name)
         \/ \E m \in Accounts, access \in Areas : AdjustArea(l, m, access)
         \/ NotOpened(l) \/ GetTeamData(l) \/ Login(l)
  PROVE  TeamInv' /\ NamesUnique'
<1>1. UNCHANGED <<teamid, teams, nextId, missed, dismissed>>
  BY DEF CreateRefused, AdjustArea, NotOpened, GetTeamData, Login
<1>2. \E kind \in {"create", "other"}, r \in 0 .. 3 : Answer(kind, l, r)
  <2>1. ASSUME NEW name \in Names, CreateRefused(l, name)
        PROVE  Answer("create", l, 1) \/ Answer("create", l, 2)
    BY <2>1, Zenon DEF CreateRefused
  <2>2. ASSUME NEW m \in Accounts, NEW access \in Areas, AdjustArea(l, m, access)
        PROVE  Answer("other", l, 0)
    BY <2>2 DEF AdjustArea
  <2>3. NotOpened(l) => Answer("create", l, 1) \/ Answer("other", l, 1)
    BY DEF NotOpened
  <2>4. GetTeamData(l) \/ Login(l) => Answer("other", l, 0)
    BY DEF GetTeamData, Login
  <2>5. /\ 0 \in 0 .. 3 /\ 1 \in 0 .. 3 /\ 2 \in 0 .. 3
    OBVIOUS
  <2> QED
    BY <2>1, <2>2, <2>3, <2>4, <2>5, Zenon
<1>3. last' \in Requests
  BY <1>2, AnswerTyped
<1>4. told' \subseteq 0 .. nextId - 1
  <2>1. nextId \in Nat \ {0} /\ told \subseteq 0 .. nextId - 1 /\ Live \subseteq 1 .. nextId - 1
    BY DEF TeamInv, TypeOK
  <2>2. 0 \in 0 .. nextId - 1 /\ 1 .. nextId - 1 \subseteq 0 .. nextId - 1
    BY <2>1
  <2>3. teamid[l] # None => teamid[l] \in 0 .. nextId - 1
    BY DEF TeamInv, IdsIssued
  <2>4. \/ told' = told \/ told' = told \cup {0}
        \/ told' = told \cup {teamid[l]} /\ teamid[l] \in Live
        \/ told' = told \cup {teamid[l]} /\ teamid[l] # None
    BY Zenon DEF CreateRefused, AdjustArea, NotOpened, GetTeamData, Login
  <2> QED
    BY <2>1, <2>2, <2>3, <2>4, Zenon
<1>5. teamarea' \in [Accounts -> Areas]
  <2>1. teamarea \in [Accounts -> Areas]
    BY DEF TeamInv, TypeOK
  <2>2. \/ teamarea' = teamarea
        \/ \E m \in Accounts, access \in Areas : teamarea' = [teamarea EXCEPT ![m] = access]
    BY Zenon DEF CreateRefused, AdjustArea, NotOpened, GetTeamData, Login
  <2> QED
    BY <2>1, <2>2
<1>6. TypeOK'
  BY <1>1, <1>3, <1>4, <1>5 DEF TeamInv, TypeOK, Live
<1>7. IdsIssued' /\ NamesUnique'
  BY <1>1 DEF TeamInv, IdsIssued, NamesUnique, Live
<1> QED
  BY <1>6, <1>7, TeamInvNext

LEMMA NextTeam == TeamInv /\ NamesUnique /\ [Next]_vars => TeamInv' /\ NamesUnique'
<1> SUFFICES ASSUME TeamInv, NamesUnique, [Next]_vars
             PROVE  TeamInv' /\ NamesUnique'
  OBVIOUS
<1>1. CASE UNCHANGED vars
  BY <1>1 DEF vars, TeamInv, TypeOK, IdsIssued, NamesUnique, Live
<1>2. ASSUME NEW l \in Accounts, NEW name \in Names, CreateTeam(l, name)
      PROVE  TeamInv' /\ NamesUnique'
  BY <1>2, CreateKeeps
<1>3. ASSUME NEW l \in Accounts, NEW settings \in Settings, SetTeam(l, settings)
      PROVE  TeamInv' /\ NamesUnique'
  BY <1>3, SetKeeps
<1>4. ASSUME NEW l \in Accounts, DeleteTeam(l)
      PROVE  TeamInv' /\ NamesUnique'
  BY <1>4, DeleteKeeps
<1>5. ASSUME NEW l \in Accounts, NEW m \in Accounts, RemoveMember(l, m)
      PROVE  TeamInv' /\ NamesUnique'
  BY <1>5, RemoveKeeps
<1>6. ASSUME NEW l \in Accounts, NEW team, Save(l, team)
      PROVE  TeamInv' /\ NamesUnique'
  BY <1>6, SaveKeeps
<1>7. ASSUME NEW l \in Accounts,
             \/ \E name \in Names : CreateRefused(l, name)
             \/ \E m \in Accounts, access \in Areas : AdjustArea(l, m, access)
             \/ NotOpened(l) \/ GetTeamData(l) \/ Login(l)
      PROVE  TeamInv' /\ NamesUnique'
  BY <1>7, OthersKeep
<1> QED
  BY <1>1, <1>2, <1>3, <1>4, <1>5, <1>6, <1>7, Zenon DEF Next

LEMMA TeamInvariant == Spec => [](TeamInv /\ NamesUnique)
<1>1. Init => TeamInv /\ NamesUnique
  BY InitTeam
<1>2. (TeamInv /\ NamesUnique) /\ [Next]_vars => (TeamInv /\ NamesUnique)'
  BY NextTeam
<1> QED
  BY <1>1, <1>2, PTL DEF Spec

\* Every column of account_data and team_data keeps its type, whatever fails.
THEOREM TeamTypeCorrect == Spec => []TypeOK
<1>1. TeamInv => TypeOK
  BY DEF TeamInv
<1> QED
  BY <1>1, TeamInvariant, PTL

\* Two teams never have names that differ in spelling only, as long as no query for
\* a name failed (the check before the insert, ClientRequestsPackets.cpp:288-301).
THEOREM NamesStayUnique == Spec => []NamesUnique
BY TeamInvariant, PTL

-------------------------------------------------------------------------------
(* The action properties.                                                  *)

\* The only row that ever joins the table has the id nextId.
LEMMA RowsJoin ==
  ASSUME TypeOK, [Next]_vars
  PROVE  DOMAIN teams' \subseteq Live \cup {nextId}
<1>1. CASE UNCHANGED vars
  BY <1>1 DEF vars, Live
<1>2. ASSUME NEW l \in Accounts, NEW name \in Names, CreateTeam(l, name)
      PROVE  DOMAIN teams' \subseteq Live \cup {nextId}
  <2>1. missed \in BOOLEAN
    BY DEF TypeOK
  <2>2. teams' = teams \/ teams' = WithTeam(l, name)
    BY <1>2, <2>1, CreateParts
  <2>3. DOMAIN WithTeam(l, name) = Live \cup {nextId}
    BY WithTeamRows
  <2> QED
    BY <2>2, <2>3 DEF Live
<1>3. ASSUME NEW l \in Accounts, NEW settings \in Settings, SetTeam(l, settings)
      PROVE  DOMAIN teams' \subseteq Live
  BY <1>3 DEF SetTeam, Live
<1>4. ASSUME NEW l \in Accounts, DeleteTeam(l)
      PROVE  DOMAIN teams' \subseteq Live
  BY <1>4 DEF DeleteTeam, Live
<1>5. ASSUME NEW l \in Accounts,
             \/ \E name \in Names : CreateRefused(l, name)
             \/ \E m \in Accounts, access \in Areas : AdjustArea(l, m, access)
             \/ \E m \in Accounts : RemoveMember(l, m)
             \/ NotOpened(l) \/ GetTeamData(l) \/ Login(l)
             \/ \E team \in 0 .. MaxTeams : Save(l, team)
             \/ Save(l, None)
      PROVE  teams' = teams
  BY <1>5 DEF CreateRefused, AdjustArea, RemoveMember, NotOpened, GetTeamData, Login, Save
<1>6. teams' = teams => DOMAIN teams' \subseteq Live
  BY DEF Live
<1> QED
  BY <1>1, <1>2, <1>3, <1>4, <1>5, <1>6, Zenon DEF Next

\* An id whose team is gone never names a later team, in however old a copy of the
\* player's data a battle server has it (AUTOINCREMENT, "SBOL DB Server.h":22).
THEOREM StaleIdsNeverRevive == Spec => StaleIdsStayDead
<1>1. TeamInv /\ [Next]_vars =>
        [\A i \in told \cup {teamid[l] : l \in Accounts} : i \notin Live => i \notin DOMAIN teams']_vars
  <2> SUFFICES ASSUME TeamInv, [Next]_vars,
                      NEW i \in told \cup {teamid[l] : l \in Accounts}, i \notin Live
               PROVE  i \notin DOMAIN teams'
    OBVIOUS
  <2>1. DOMAIN teams' \subseteq Live \cup {nextId}
    BY RowsJoin DEF TeamInv
  <2>2. nextId \in Nat \ {0} /\ told \subseteq 0 .. nextId - 1
    BY DEF TeamInv, TypeOK
  <2>3. i \in {None} \cup 0 .. nextId - 1
    BY <2>2 DEF TeamInv, IdsIssued
  <2>4. i # nextId
    BY <2>2, <2>3, ConstantsOK
  <2> QED
    BY <2>1, <2>4
<1> QED
  BY <1>1, TeamInvariant, PTL DEF Spec, StaleIdsStayDead

\* Whoever is answered that a team was created leads a new team and is in no other
\* (Create Team reads the id back by name, ClientRequestsPackets.cpp:294-316).
THEOREM CreatorsLead == Spec => CreatedIsLed
<1> DEFINE Led == last'.kind = "create" /\ last'.result = 0 /\ ~missed' =>
                    \E t \in DOMAIN teams' \ Live :
                      teams'[t].leader = last'.by /\ teamid'[last'.by] \in {t, None}
<1>1. ASSUME TeamInv, NEW l \in Accounts, NEW name \in Names, CreateTeam(l, name)
      PROVE  Led
  <2> SUFFICES ASSUME last'.kind = "create", last'.result = 0, ~missed'
               PROVE  \E t \in DOMAIN teams' \ Live :
                        teams'[t].leader = last'.by /\ teamid'[last'.by] \in {t, None}
    OBVIOUS
  <2>1. TypeOK /\ missed \in BOOLEAN /\ teamid \in [Accounts -> Nat \cup {None}]
    BY <1>1 DEF TeamInv, TypeOK
  <2>2. /\ teamid[l] = None
        /\ teams' = teams \/ teams' = WithTeam(l, name)
        /\ ~Clash(name)
        /\ \/ teamid' = teamid
           \/ \E t \in DOMAIN teams' :
                FirstNamed(teams', name, t) /\ teamid' = [teamid EXCEPT ![l] = t]
        /\ last'.by = l /\ \E t \in DOMAIN teams' : teams'[t].name = name
    <3>1. ~Answer("create", l, 1)
      BY DEF Answer
    <3>2. Answer("create", l, 0) => last'.by = l
      BY DEF Answer
    <3> QED
      BY <1>1, <2>1, <3>1, <3>2, CreateParts
  <2>3. \A t \in Live : teams[t].name # name
    BY <2>2 DEF Clash
  <2>4. teams' = WithTeam(l, name)
    BY <2>2, <2>3 DEF Live
  <2>5. /\ DOMAIN teams' = Live \cup {nextId} /\ nextId \notin Live
        /\ teams'[nextId].leader = l
        /\ \A t \in Live : teams'[t] = teams[t]
    <3> DEFINE rows == WithTeam(l, name)
    <3>1. /\ DOMAIN rows = Live \cup {nextId} /\ nextId \notin Live
          /\ rows[nextId].leader = l
          /\ \A t \in Live : rows[t] = teams[t]
      BY <2>1, WithTeamRows
    <3>2. teams' = rows
      BY <2>4
    <3> HIDE DEF rows
    <3> QED
      BY <3>1, <3>2
  <2>6. \A t \in DOMAIN teams' : FirstNamed(teams', name, t) => t = nextId
    BY <2>3, <2>5 DEF FirstNamed
  <2>7. teamid'[l] \in {nextId, None}
    BY <2>1, <2>2, <2>6
  <2> QED
    BY <2>2, <2>5, <2>7
<1>2. ASSUME NEW l \in Accounts, NEW name \in Names, CreateRefused(l, name)
      PROVE  last'.result # 0
  <2>1. Answer("create", l, 1) \/ Answer("create", l, 2)
    BY <1>2, Zenon DEF CreateRefused
  <2> QED
    BY <2>1 DEF Answer
<1>3. ASSUME NEW l \in Accounts, NotOpened(l)
      PROVE  last'.result # 0
  BY <1>3 DEF NotOpened, Answer
<1>4. ASSUME NEW l \in Accounts,
             \/ \E settings \in Settings : SetTeam(l, settings)
             \/ DeleteTeam(l)
             \/ \E m \in Accounts, access \in Areas : AdjustArea(l, m, access)
             \/ \E m \in Accounts : RemoveMember(l, m)
             \/ GetTeamData(l) \/ Login(l)
             \/ \E team \in 0 .. MaxTeams : Save(l, team)
             \/ Save(l, None)
      PROVE  last'.kind # "create"
  <2>1. \E r : Answer("other", l, r)
    BY <1>4, Zenon DEF SetTeam, DeleteTeam, AdjustArea, RemoveMember, GetTeamData, Login, Save
  <2> QED
    BY <2>1 DEF Answer
<1>5. TeamInv /\ [Next]_vars => [Led]_vars
  <2> HIDE DEF Led
  <2>1. last'.result # 0 \/ last'.kind # "create" => Led
    BY DEF Led
  <2> QED
    BY <1>1, <1>2, <1>3, <1>4, <2>1, Zenon DEF Next
<1> QED
  BY <1>5, TeamInvariant, PTL DEF Spec, CreatedIsLed

\* What a request by l may do to the accounts and to the rows.
MayChange(l) ==
  /\ \A m \in Accounts :
       teamid'[m] # teamid[m] \/ teamarea'[m] # teamarea[m] =>
         m = l \/ (teamid[m] \in Live /\ teams[teamid[m]].leader = l)
  /\ \A t \in Live :
       (t \notin DOMAIN teams' \/ teams'[t] # teams[t]) => teams[t].leader = l

\* Dismissing members of a team that l leads.
LEMMA DismissMay ==
  ASSUME TypeOK, NEW l \in Accounts, Leads(l), NEW members \in SUBSET Accounts,
         \A m \in members : teamid[m] = teamid[l], Dismiss(members)
  PROVE  \A m \in Accounts :
           teamid'[m] # teamid[m] => teamid[m] \in Live /\ teams[teamid[m]].leader = l
<1>1. \A m \in Accounts : teamid'[m] # teamid[m] => m \in members
  BY DEF Dismiss
<1> QED
  BY <1>1 DEF Leads

LEMMA CreateMay ==
  ASSUME TypeOK, NEW l \in Accounts, NEW name \in Names, CreateTeam(l, name)
  PROVE  MayChange(l) /\ last'.by = l
<1>1. missed \in BOOLEAN /\ teamid \in [Accounts -> Nat \cup {None}]
  BY DEF TypeOK
<1>2. /\ teams' = teams \/ teams' = WithTeam(l, name)
      /\ \/ teamid' = teamid
         \/ \E t \in DOMAIN teams' :
              FirstNamed(teams', name, t) /\ teamid' = [teamid EXCEPT ![l] = t]
      /\ Answer("create", l, 0) \/ Answer("create", l, 1)
      /\ teamarea' = teamarea
  BY <1>1, CreateParts
<1>3. last'.by = l
  BY <1>2 DEF Answer
<1>4. \A m \in Accounts : teamid'[m] # teamid[m] => m = l
  BY <1>1, <1>2
<1>5. \A t \in Live : t \in DOMAIN teams' /\ teams'[t] = teams[t]
  <2>1. CASE teams' = teams
    BY <2>1 DEF Live
  <2>2. CASE teams' = WithTeam(l, name)
    <3> DEFINE rows == WithTeam(l, name)
    <3>1. DOMAIN rows = Live \cup {nextId} /\ \A t \in Live : rows[t] = teams[t]
      BY WithTeamRows
    <3>2. teams' = rows
      BY <2>2
    <3> HIDE DEF rows
    <3> QED
      BY <3>1, <3>2
  <2> QED
    BY <1>2, <2>1, <2>2
<1> QED
  BY <1>2, <1>3, <1>4, <1>5 DEF MayChange

LEMMA LeaderMay ==
  ASSUME TypeOK, NEW l \in Accounts,
         \/ \E settings \in Settings : SetTeam(l, settings)
         \/ DeleteTeam(l)
         \/ \E m \in Accounts, access \in Areas : AdjustArea(l, m, access)
         \/ \E m \in Accounts : RemoveMember(l, m)
  PROVE  MayChange(l) /\ last'.by = l
<1>0. /\ teamid \in [Accounts -> Nat \cup {None}] /\ teamarea \in [Accounts -> Areas]
      /\ teams \in [Live -> TeamRows]
  BY DEF TypeOK
<1>1. last'.by = l
  <2>1. \E r : Answer("other", l, r)
    BY Zenon DEF SetTeam, DeleteTeam, AdjustArea, RemoveMember
  <2> QED
    BY <2>1 DEF Answer
<1>2. ASSUME NEW settings \in Settings, SetTeam(l, settings)
      PROVE  MayChange(l)
  <2>1. UNCHANGED <<teamid, teamarea>>
    BY <1>2 DEF SetTeam
  <2>2. \A t \in Live : (t \notin DOMAIN teams' \/ teams'[t] # teams[t]) => teams[t].leader = l
    BY <1>2 DEF SetTeam, Live
  <2> QED
    BY <2>1, <2>2 DEF MayChange
<1>3. ASSUME DeleteTeam(l)
      PROVE  MayChange(l)
  <2>1. PICK ok \in Outcomes(4) :
          /\ IF Result(l, ok) = 0 /\ ok[3]
               THEN teams' = [t \in Live \ {teamid[l]} |-> teams[t]]
               ELSE teams' = teams
          /\ IF Result(l, ok) = 0 /\ ok[4]
               THEN Dismiss({m \in Accounts : teamid[m] = teamid[l]})
               ELSE UNCHANGED <<teamid, dismissed>>
          /\ teamarea' = teamarea
    BY <1>3 DEF DeleteTeam
  <2>2. Result(l, ok) = 0 => Leads(l)
    BY ResultLeads
  <2>3. \A m \in Accounts :
          teamid'[m] # teamid[m] => teamid[m] \in Live /\ teams[teamid[m]].leader = l
    <3>1. CASE Result(l, ok) = 0 /\ ok[4]
      <4> DEFINE members == {m \in Accounts : teamid[m] = teamid[l]}
      <4>1. Dismiss(members) /\ members \in SUBSET Accounts /\ \A m \in members : teamid[m] = teamid[l]
        BY <2>1, <3>1
      <4> HIDE DEF members
      <4> QED
        BY <2>2, <3>1, <4>1, DismissMay
    <3>2. CASE ~(Result(l, ok) = 0 /\ ok[4])
      BY <2>1, <3>2
    <3> QED
      BY <3>1, <3>2
  <2>4. \A t \in Live : (t \notin DOMAIN teams' \/ teams'[t] # teams[t]) => teams[t].leader = l
    <3>1. CASE teams' = teams
      BY <3>1 DEF Live
    <3>2. CASE Leads(l) /\ teams' = [t \in Live \ {teamid[l]} |-> teams[t]]
      BY <3>2 DEF Leads
    <3> QED
      BY <2>1, <2>2, <3>1, <3>2
  <2> QED
    BY <2>1, <2>3, <2>4 DEF MayChange
<1>4. ASSUME NEW m \in Accounts, NEW access \in Areas, AdjustArea(l, m, access)
      PROVE  MayChange(l)
  <2>1. PICK ok \in Outcomes(4) :
          /\ teamarea' = IF Result(l, ok) = 0 /\ ok[3] /\ InTeamOf(l, m) /\ ok[4]
                           THEN [teamarea EXCEPT ![m] = access]
                           ELSE teamarea
          /\ UNCHANGED <<teamid, teams>>
    BY <1>4 DEF AdjustArea
  <2>2. Result(l, ok) = 0 => Leads(l)
    BY ResultLeads
  <2>3. \A n \in Accounts :
          teamarea'[n] # teamarea[n] => Leads(l) /\ teamid[n] = teamid[l]
    BY <1>0, <2>1, <2>2 DEF InTeamOf
  <2> QED
    BY <2>1, <2>3 DEF MayChange, Leads, Live
<1>5. ASSUME NEW m \in Accounts, RemoveMember(l, m)
      PROVE  MayChange(l)
  <2>1. PICK ok \in Outcomes(4) :
          /\ IF l # m /\ Result(l, ok) = 0 /\ ok[3] /\ InTeamOf(l, m) /\ ok[4]
               THEN Dismiss({m}) ELSE UNCHANGED <<teamid, dismissed>>
          /\ UNCHANGED <<teamarea, teams>>
    BY <1>5 DEF RemoveMember
  <2>2. Result(l, ok) = 0 => Leads(l)
    BY ResultLeads
  <2>3. \A n \in Accounts :
          teamid'[n] # teamid[n] => teamid[n] \in Live /\ teams[teamid[n]].leader = l
    <3>1. CASE Leads(l) /\ InTeamOf(l, m) /\ Dismiss({m})
      BY <3>1, DismissMay DEF InTeamOf
    <3>2. CASE teamid' = teamid
      BY <3>2
    <3> QED
      BY <2>1, <2>2, <3>1, <3>2
  <2> QED
    BY <2>1, <2>3 DEF MayChange, Live
<1> QED
  BY <1>1, <1>2, <1>3, <1>4, <1>5

LEMMA OthersMay ==
  ASSUME TypeOK, NEW l \in Accounts,
         \/ \E name \in Names : CreateRefused(l, name)
         \/ NotOpened(l) \/ GetTeamData(l) \/ Login(l)
         \/ \E team \in 0 .. MaxTeams : Save(l, team)
         \/ Save(l, None)
  PROVE  MayChange(l) /\ last'.by = l
<1>1. last'.by = l
  BY DEF CreateRefused, NotOpened, GetTeamData, Login, Save, Answer
<1>2. UNCHANGED <<teams, teamarea>>
  BY DEF CreateRefused, NotOpened, GetTeamData, Login, Save
<1>3. teamid' = teamid \/ \E team : teamid' = [teamid EXCEPT ![l] = team]
  BY Zenon DEF CreateRefused, NotOpened, GetTeamData, Login, Save
<1>4. teamid \in [Accounts -> Nat \cup {None}]
  BY DEF TypeOK
<1> QED
  BY <1>1, <1>2, <1>3, <1>4 DEF MayChange, Live

\* A request touches the account that makes it and, of the others, only the members
\* and the rows of teams the requester leads, whatever member it names
\* (the WHERE clauses of ClientRequestsPackets.cpp:451-739).
THEOREM OnlyLeadersAct == Spec => OnlyLeaderActs
<1> DEFINE Acts ==
      /\ \A m \in Accounts :
           teamid'[m] # teamid[m] \/ teamarea'[m] # teamarea[m] =>
             last'.by = m \/ (teamid[m] \in Live /\ teams[teamid[m]].leader = last'.by)
      /\ \A t \in Live :
           (t \notin DOMAIN teams' \/ teams'[t] # teams[t]) => teams[t].leader = last'.by
<1>1. ASSUME NEW l \in Accounts, MayChange(l), last'.by = l
      PROVE  Acts
  BY <1>1 DEF MayChange
<1>2. TypeOK /\ [Next]_vars => [Acts]_vars
  <2> HIDE DEF Acts
  <2> QED
    BY <1>1, CreateMay, LeaderMay, OthersMay, Zenon DEF Next
<1> QED
  BY <1>2, TeamTypeCorrect, PTL DEF Spec, OnlyLeaderActs

-------------------------------------------------------------------------------
\* What a dismissed account has for its team: 0 is no team's id.
DismissedZero == \A l \in dismissed : teamid[l] \in {None, 0}

LEMMA DismissedStep ==
  ASSUME TypeOK, DismissedZero, Next
  PROVE  DismissedZero'
<1>1. teamid \in [Accounts -> Nat \cup {None}] /\ dismissed \subseteq Accounts /\ missed \in BOOLEAN
  BY DEF TypeOK
<1>2. ASSUME NEW members \in SUBSET Accounts, Dismiss(members)
      PROVE  DismissedZero'
  BY <1>1, <1>2 DEF Dismiss, NullAnd, DismissedZero
<1>3. ASSUME UNCHANGED <<teamid, dismissed>>
      PROVE  DismissedZero'
  BY <1>3 DEF DismissedZero
<1>4. ASSUME NEW l \in Accounts, NEW team,
             teamid' = [teamid EXCEPT ![l] = team], dismissed' = dismissed \ {l}
      PROVE  DismissedZero'
  BY <1>1, <1>4 DEF DismissedZero
<1>5. ASSUME NEW l \in Accounts, NEW name \in Names, CreateTeam(l, name)
      PROVE  DismissedZero'
  <2>1. \/ teamid' = teamid /\ dismissed' \in {dismissed, dismissed \ {l}}
        \/ \E t : teamid' = [teamid EXCEPT ![l] = t] /\ dismissed' = dismissed \ {l}
    BY <1>5 DEF CreateTeam
  <2> QED
    BY <1>4, <2>1 DEF DismissedZero
<1>6. ASSUME NEW l \in Accounts, DeleteTeam(l)
      PROVE  DismissedZero'
  <2> DEFINE members == {m \in Accounts : teamid[m] = teamid[l]}
  <2>1. Dismiss(members) \/ UNCHANGED <<teamid, dismissed>>
    BY <1>6 DEF DeleteTeam
  <2>2. members \in SUBSET Accounts
    OBVIOUS
  <2> HIDE DEF members
  <2> QED
    BY <1>2, <1>3, <2>1, <2>2
<1>7. ASSUME NEW l \in Accounts, NEW m \in Accounts, RemoveMember(l, m)
      PROVE  DismissedZero'
  <2>1. Dismiss({m}) \/ UNCHANGED <<teamid, dismissed>>
    BY <1>7 DEF RemoveMember
  <2> QED
    BY <1>2, <1>3, <2>1
<1>8. ASSUME NEW l \in Accounts, NEW team, Save(l, team)
      PROVE  DismissedZero'
  <2>1. \/ teamid' = [teamid EXCEPT ![l] = team] /\ dismissed' = dismissed \ {l}
        \/ UNCHANGED <<teamid, dismissed>>
    BY <1>8 DEF Save
  <2> QED
    BY <1>3, <1>4, <2>1
<1>9. ASSUME NEW l \in Accounts,
             \/ \E name \in Names : CreateRefused(l, name)
             \/ \E settings \in Settings : SetTeam(l, settings)
             \/ \E m \in Accounts, access \in Areas : AdjustArea(l, m, access)
             \/ NotOpened(l) \/ GetTeamData(l) \/ Login(l)
      PROVE  UNCHANGED <<teamid, dismissed>>
  BY <1>9 DEF CreateRefused, SetTeam, AdjustArea, NotOpened, GetTeamData, Login
<1> QED
  BY <1>3, <1>5, <1>6, <1>7, <1>8, <1>9, Zenon DEF Next

\* Whoever was dismissed is in no team until a save or a Create Team says otherwise,
\* although the statement that dismisses assigns a Boolean (ClientRequestsPackets.cpp:478).
THEOREM DismissedStayOut == Spec => []DismissedAreOut
<1>1. Init => DismissedZero
  BY DEF Init, DismissedZero
<1>2. TypeOK /\ DismissedZero /\ [Next]_vars => DismissedZero'
  <2>1. DismissedZero /\ UNCHANGED vars => DismissedZero'
    BY DEF DismissedZero, vars
  <2> QED
    BY <2>1, DismissedStep
<1>3. TypeOK /\ DismissedZero => DismissedAreOut
  <2>1. TypeOK => Live \subseteq Nat \ {0}
    BY DEF TypeOK
  <2> QED
    BY <2>1, ConstantsOK DEF DismissedZero, DismissedAreOut
<1> QED
  BY <1>1, <1>2, <1>3, TeamTypeCorrect, PTL DEF Spec

-------------------------------------------------------------------------------
(* The team requests implement TeamBook.                                   *)

\* The numbers that are no team's: what a dismissal assigns, what an answer says of
\* no team, and the number that the next team gets, which nobody has seen.
LEMMA NoTeams ==
  ASSUME TeamInv
  PROVE  /\ None \notin Live /\ 0 \notin Live /\ nextId \notin Live
         /\ nextId \notin told /\ nextId # None
         /\ \A m \in Accounts : teamid[m] # nextId
<1>1. nextId \in Nat \ {0} /\ Live \subseteq 1 .. nextId - 1 /\ told \subseteq 0 .. nextId - 1
  BY DEF TeamInv, TypeOK
<1>2. \A m \in Accounts : teamid[m] \in {None} \cup 0 .. nextId - 1
  BY DEF TeamInv, IdsIssued
<1>3. nextId \notin 1 .. nextId - 1 /\ nextId \notin 0 .. nextId - 1 /\ 0 \notin 1 .. nextId - 1
  BY <1>1
<1>4. None \notin 1 .. nextId - 1 /\ nextId # None
  BY <1>1, ConstantsOK
<1>5. \A m \in Accounts : teamid[m] # nextId
  BY <1>2, <1>3, <1>4
<1> QED
  BY <1>1, <1>3, <1>4, <1>5

LEMMA LeaderInBook ==
  ASSUME TeamInv, NEW l \in Accounts, Leads(l)
  PROVE  /\ teamid[l] \in Live /\ Membership[l] = teamid[l] /\ teamid[l] # None
         /\ Book!Leads(l)
         /\ Book!Members(l) = {m \in Accounts : teamid[m] = teamid[l]}
<1>1. teamid[l] \in Live /\ Membership[l] = teamid[l] /\ teamid[l] # None
  BY NoTeams DEF Leads, Membership
<1>2. Book!Leads(l)
  BY <1>1 DEF Leads, Book!Leads
<1>3. \A m \in Accounts : Membership[m] = Membership[l] <=> teamid[m] = teamid[l]
  BY <1>1 DEF Membership
<1> QED
  BY <1>1, <1>2, <1>3 DEF Book!Members

\* What a request tells of the requester's own team.
LEMMA BookLearns ==
  ASSUME TeamInv, NEW l \in Accounts, UNCHANGED <<teamid, teamarea, teams, missed>>,
         told' \in {told, told \cup {0}, told \cup {teamid[l]}}
  PROVE  Book!Learn(l) \/ UNCHANGED Book!bookVars
<1>1. Live' = Live /\ Membership' = Membership
  BY DEF Live, Membership
<1>2. CASE told' \cap Live' = told \cap Live
  BY <1>1, <1>2 DEF Book!bookVars
<1>3. CASE told' \cap Live' # told \cap Live
  <2>1. told' = told \cup {teamid[l]} /\ teamid[l] \in Live
    BY <1>1, <1>3, NoTeams
  <2>2. Membership[l] = teamid[l] /\ Membership[l] # None
    BY <2>1, NoTeams DEF Membership
  <2>3. told' \cap Live' = (told \cap Live) \cup {Membership[l]}
    BY <1>1, <2>1, <2>2
  <2> QED
    BY <1>1, <2>2, <2>3 DEF Book!Learn
<1> QED
  BY <1>2, <1>3

\* The rows and the players after a Create Team that found no reason to refuse.
LEMMA CreateInBook ==
  ASSUME TeamInv, NamesUnique, NEW l \in Accounts, NEW name \in Names, CreateTeam(l, name)
  PROVE  Book!Found(l, name) \/ Book!FoundUnsure(l, name) \/ UNCHANGED Book!bookVars
<1>1. missed \in BOOLEAN /\ TypeOK
  BY DEF TeamInv, TypeOK
<1>2. /\ teamid[l] = None
      /\ missed' \/ ~Clash(name)
      /\ missed' \in BOOLEAN /\ (missed => missed')
      /\ told' = told \cup {0} /\ teamarea' = teamarea
  BY <1>1, CreateParts
<1>3. teams' = teams \/ teams' = WithTeam(l, name)
  BY <1>1, CreateParts
<1>4. \/ teamid' = teamid
      \/ \E t \in DOMAIN teams' : FirstNamed(teams', name, t) /\ teamid' = [teamid EXCEPT ![l] = t]
  BY <1>1, CreateParts
<1>5. Live \subseteq Live' /\ Live' \subseteq Live \cup {nextId} /\ Live' = DOMAIN teams'
  BY <1>1, <1>3, WithTeamRows DEF Live
<1>6. told' \cap Live' = told \cap Live
  <2>1. told' = told \cup {0} /\ 0 \notin Live' /\ nextId \notin told
    BY <1>1, <1>2, <1>5, NoTeams DEF TypeOK
  <2> QED
    BY <1>5, <2>1
<1>7. teamid \in [Accounts -> Nat \cup {None}]
  BY <1>1 DEF TypeOK
<1>8. PICK x \in Live' \cup {None} :
        /\ Membership' = [Membership EXCEPT ![l] = x]
        /\ x = None \/ teams'[x].name = name
  <2>1. \A m \in Accounts \ {l} : teamid'[m] = teamid[m]
    BY <1>4, <1>7
  <2>2. \A m \in Accounts \ {l} : teamid'[m] \in Live' <=> teamid[m] \in Live
    BY <1>5, <2>1, NoTeams
  <2>3. \A m \in Accounts \ {l} : Membership'[m] = Membership[m]
    BY <2>1, <2>2 DEF Membership
  <2>4. Membership' = [Membership EXCEPT ![l] = Membership'[l]]
    BY <2>3 DEF Membership
  <2>5. CASE teamid' = teamid
    <3>1. Membership'[l] = None
      BY <1>2, <2>5 DEF Membership
    <3> QED
      BY <2>4, <3>1
  <2>6. ASSUME NEW t \in DOMAIN teams', FirstNamed(teams', name, t),
               teamid' = [teamid EXCEPT ![l] = t]
        PROVE  Membership'[l] = t /\ t \in Live' /\ teams'[t].name = name
    <3>1. t \in Live' /\ teamid'[l] = t
      BY <1>5, <1>7, <2>6
    <3> QED
      BY <2>6, <3>1 DEF Membership, FirstNamed
  <2> QED
    BY <1>4, <2>4, <2>5, <2>6
<1>9. Membership[l] = None
  BY <1>2, NoTeams DEF Membership
<1>10. ASSUME teams' = WithTeam(l, name)
       PROVE  /\ nextId \in DOMAIN teams' \ DOMAIN teams
              /\ Book!NewTeam(l, nextId, name)
  <2>1. Fresh \in Settings
    BY ConstantsOK DEF Fresh
  <2>2. nextId \in DOMAIN teams' \ DOMAIN teams
    BY <1>1, <1>10, WithTeamRows DEF Live
  <2>3. Book!NewTeam(l, nextId, name)
    BY <1>10, <2>1 DEF Book!NewTeam, WithTeam, AutoId, Live
  <2> QED
    BY <2>2, <2>3
<1>11. CASE missed'
  <2>1. x \in DOMAIN teams' \cup {None}
    BY <1>5
  <2>2. teams' = teams \/ \E t \in DOMAIN teams' \ DOMAIN teams : Book!NewTeam(l, t, name)
    BY <1>3, <1>10
  <2>3. Book!FoundUnsure(l, name)
    BY <1>2, <1>6, <1>8, <1>9, <1>11, <2>1, <2>2, Zenon DEF Book!FoundUnsure
  <2> QED
    BY <2>3
<1>12. CASE ~missed'
  <2>1. ~Clash(name) /\ missed' = missed
    BY <1>1, <1>2, <1>12
  <2>2. \A u \in Live : teams[u].name.word # name.word
    BY <2>1 DEF Clash
  <2>3. CASE teams' = teams
    <3>1. x = None
      BY <1>8, <2>2, <2>3 DEF Live
    <3>2. Membership' = Membership
      BY <1>8, <1>9, <3>1 DEF Membership
    <3> QED
      BY <1>2, <1>6, <2>1, <2>3, <3>2 DEF Book!bookVars
  <2>4. CASE teams' = WithTeam(l, name)
    <3>1. x = None \/ x = nextId
      <4>1. \A u \in Live : teams'[u] = teams[u]
        BY <1>1, <2>4, WithTeamRows
      <4> QED
        BY <1>5, <1>8, <2>2, <4>1
    <3>2. x = None => Membership' = Membership
      BY <1>8, <1>9 DEF Membership
    <3>3. Membership' \in {Membership, [Membership EXCEPT ![l] = nextId]}
      BY <1>8, <3>1, <3>2
    <3>4. \A u \in DOMAIN teams : teams[u].name.word # name.word
      BY <2>2 DEF Live
    <3>5. Book!Found(l, name)
      BY <1>2, <1>6, <1>9, <1>10, <2>1, <2>4, <3>3, <3>4, Zenon DEF Book!Found
    <3> QED
      BY <3>5
  <2> QED
    BY <1>3, <2>3, <2>4
<1> QED
  BY <1>11, <1>12

\* What the requester's answer tells when the two queries went well.
LEMMA ToldOwn ==
  ASSUME NEW l, NEW ok, Result(l, ok) = 0, Told(l, ok)
  PROVE  told' = told \cup {teamid[l]}
BY DEF Result, Told

LEMMA ToldSome ==
  ASSUME NEW l, NEW ok, Told(l, ok)
  PROVE  told' \in {told, told \cup {0}, told \cup {teamid[l]}}
BY DEF Told

LEMMA SetInBook ==
  ASSUME TeamInv, NEW l \in Accounts, NEW settings \in Settings, SetTeam(l, settings)
  PROVE  Book!Configure(l, settings) \/ Book!Learn(l) \/ UNCHANGED Book!bookVars
<1>1. PICK ok \in Outcomes(3) :
        /\ teams' = IF Result(l, ok) = 0 /\ ok[3]
                      THEN [t \in Live |-> IF teams[t].leader = l
                                             THEN [teams[t] EXCEPT !.settings = settings]
                                             ELSE teams[t]]
                      ELSE teams
        /\ Told(l, ok)
        /\ UNCHANGED <<teamid, teamarea, missed>>
  BY DEF SetTeam
<1>2. CASE Result(l, ok) = 0 /\ ok[3]
  <2>1. Leads(l) /\ told' = told \cup {teamid[l]}
    BY <1>1, <1>2, ResultLeads, ToldOwn
  <2>2. /\ teamid[l] \in Live /\ Membership[l] = teamid[l] /\ Book!Leads(l)
    BY <2>1, LeaderInBook
  <2>3. teams' = [t \in DOMAIN teams |-> IF teams[t].leader = l
                                           THEN [teams[t] EXCEPT !.settings = settings]
                                           ELSE teams[t]]
    BY <1>1, <1>2 DEF Live
  <2>4. Live' = Live
    BY <2>3 DEF Live
  <2>5. Membership' = Membership
    BY <1>1, <2>4 DEF Membership
  <2>6. told' \cap Live' = (told \cap Live) \cup {Membership[l]}
    BY <2>1, <2>2, <2>4
  <2>7. Book!Configure(l, settings)
    BY <1>1, <2>2, <2>3, <2>5, <2>6, Zenon DEF Book!Configure
  <2> QED
    BY <2>7
<1>3. CASE ~(Result(l, ok) = 0 /\ ok[3])
  <2>1. UNCHANGED <<teamid, teamarea, teams, missed>>
    BY <1>1, <1>3
  <2>2. told' \in {told, told \cup {0}, told \cup {teamid[l]}}
    BY <1>1, ToldSome
  <2> QED
    BY <2>1, <2>2, BookLearns
<1> QED
  BY <1>2, <1>3

\* The members that a statement dismisses are in no team, whatever it assigns.
LEMMA DismissInBook ==
  ASSUME TeamInv, NEW members \in SUBSET Accounts, Dismiss(members), Live' \subseteq Live
  PROVE  Membership' = [m \in Accounts |-> IF m \in members \/ teamid[m] \notin Live' THEN None
                                           ELSE teamid[m]]
<1>1. teamid' = [m \in Accounts |-> IF m \in members THEN NullAnd(m) ELSE teamid[m]]
  BY DEF Dismiss
<1>2. \A m \in Accounts : NullAnd(m) \notin Live'
  BY NoTeams DEF NullAnd
<1> QED
  BY <1>1, <1>2 DEF Membership

LEMMA DeleteInBook ==
  ASSUME TeamInv, NEW l \in Accounts, DeleteTeam(l)
  PROVE  \/ Book!Disband(l)
         \/ \E out \in SUBSET Book!Members(l) : Book!Dismiss(l, out)
         \/ Book!Learn(l)
         \/ UNCHANGED Book!bookVars
<1> DEFINE members == {m \in Accounts : teamid[m] = teamid[l]}
<1>1. PICK ok \in Outcomes(4) :
        /\ IF Result(l, ok) = 0 /\ ok[3]
             THEN teams' = [t \in Live \ {teamid[l]} |-> teams[t]]
             ELSE teams' = teams
        /\ IF Result(l, ok) = 0 /\ ok[4]
             THEN Dismiss(members)
             ELSE UNCHANGED <<teamid, dismissed>>
        /\ Told(l, ok)
        /\ UNCHANGED <<teamarea, missed>>
  BY DEF DeleteTeam
<1>2. members \in SUBSET Accounts
  OBVIOUS
<1>3. ASSUME Result(l, ok) = 0
      PROVE  /\ Book!Leads(l) /\ Book!Members(l) = members
             /\ told' = told \cup {teamid[l]}
             /\ teamid[l] \in Live /\ Membership[l] = teamid[l]
  BY <1>1, <1>3, ResultLeads, ToldOwn, LeaderInBook
<1> HIDE DEF members
<1>4. CASE Result(l, ok) = 0 /\ ok[3]
  <2>1. teams' = [t \in DOMAIN teams \ {Membership[l]} |-> teams[t]]
    BY <1>1, <1>3, <1>4 DEF Live
  <2>2. Live' = Live \ {teamid[l]}
    BY <1>1, <1>4 DEF Live
  <2>3. Membership' = [m \in Accounts |-> IF m \in members \/ teamid[m] \notin Live' THEN None
                                          ELSE teamid[m]]
    <3>1. CASE ok[4]
      BY <1>1, <1>2, <1>4, <2>2, <3>1, DismissInBook
    <3>2. CASE ~ok[4]
      <4>1. teamid' = teamid
        BY <1>1, <3>2
      <4> QED
        BY <2>2, <4>1 DEF Membership, members
    <3> QED
      BY <3>1, <3>2
  <2>4. Membership' = [m \in Accounts |-> IF m \in members THEN None ELSE Membership[m]]
    BY <2>2, <2>3 DEF Membership, members
  <2>5. told' \cap Live' = (told \cap Live) \ {Membership[l]}
    BY <1>3, <1>4, <2>2
  <2>6. Book!Disband(l)
    BY <1>1, <1>3, <1>4, <2>1, <2>4, <2>5, Zenon DEF Book!Disband
  <2> QED
    BY <2>6
<1>5. CASE Result(l, ok) = 0 /\ ~ok[3] /\ ok[4]
  <2>1. teams' = teams /\ Live' = Live
    BY <1>1, <1>5 DEF Live
  <2>2. Dismiss(members)
    BY <1>1, <1>5
  <2>3. Membership' = [m \in Accounts |-> IF m \in members \/ teamid[m] \notin Live' THEN None
                                          ELSE teamid[m]]
    BY <1>2, <2>1, <2>2, DismissInBook
  <2>4. Membership' = [m \in Accounts |-> IF m \in members THEN None ELSE Membership[m]]
    BY <2>1, <2>3 DEF Membership
  <2>5. told' \cap Live' = (told \cap Live) \cup {Membership[l]}
    BY <1>3, <1>5, <2>1
  <2>6. Book!Dismiss(l, members)
    BY <1>1, <1>3, <1>5, <2>1, <2>4, <2>5, Zenon DEF Book!Dismiss
  <2>7. members \in SUBSET Book!Members(l)
    BY <1>3, <1>5
  <2> QED
    BY <2>6, <2>7
<1>6. CASE ~(Result(l, ok) = 0 /\ (ok[3] \/ ok[4]))
  <2>1. UNCHANGED <<teamid, teamarea, teams, missed>>
    BY <1>1, <1>6
  <2>2. told' \in {told, told \cup {0}, told \cup {teamid[l]}}
    BY <1>1, ToldSome
  <2> QED
    BY <2>1, <2>2, BookLearns
<1> QED
  BY <1>4, <1>5, <1>6

LEMMA RemoveInBook ==
  ASSUME TeamInv, NEW l \in Accounts, NEW m \in Accounts, RemoveMember(l, m)
  PROVE  \/ \E out \in SUBSET Book!Members(l) : Book!Dismiss(l, out)
         \/ UNCHANGED Book!bookVars
<1>1. /\ UNCHANGED <<teamarea, teams, told, missed>>
      /\ \/ Dismiss({m}) /\ Leads(l) /\ teamid[m] = teamid[l]
         \/ UNCHANGED teamid
  BY ResultLeads DEF RemoveMember, InTeamOf
<1>2. Live' = Live /\ told' \cap Live' = told \cap Live
  BY <1>1 DEF Live
<1>3. CASE UNCHANGED teamid
  <2>1. Membership' = Membership
    BY <1>2, <1>3 DEF Membership
  <2> QED
    BY <1>1, <1>2, <2>1 DEF Book!bookVars
<1>4. CASE Dismiss({m}) /\ Leads(l) /\ teamid[m] = teamid[l]
  <2>1. Book!Leads(l) /\ {m} \in SUBSET Book!Members(l)
    BY <1>4, LeaderInBook
  <2>2. Membership' = [k \in Accounts |-> IF k \in {m} \/ teamid[k] \notin Live' THEN None
                                          ELSE teamid[k]]
    BY <1>2, <1>4, DismissInBook
  <2>3. Membership' = [k \in Accounts |-> IF k \in {m} THEN None ELSE Membership[k]]
    BY <1>2, <2>2 DEF Membership
  <2>4. Book!Dismiss(l, {m})
    BY <1>1, <1>2, <2>1, <2>3, Zenon DEF Book!Dismiss
  <2> QED
    BY <2>1, <2>4
<1> QED
  BY <1>1, <1>3, <1>4

LEMMA AreaInBook ==
  ASSUME TeamInv, NEW l \in Accounts, NEW m \in Accounts, NEW access \in Areas,
         AdjustArea(l, m, access)
  PROVE  Book!Admit(l, m, access) \/ UNCHANGED Book!bookVars
<1>1. /\ UNCHANGED <<teamid, teams, told, missed>>
      /\ \/ Leads(l) /\ teamid[m] = teamid[l] /\ teamarea' = [teamarea EXCEPT ![m] = access]
         \/ UNCHANGED teamarea
  BY ResultLeads DEF AdjustArea, InTeamOf
<1>2. Live' = Live /\ told' \cap Live' = told \cap Live
  BY <1>1 DEF Live
<1>3. Membership' = Membership
  BY <1>1, <1>2 DEF Membership
<1>4. CASE UNCHANGED teamarea
  BY <1>1, <1>2, <1>3, <1>4 DEF Book!bookVars
<1>5. CASE Leads(l) /\ teamid[m] = teamid[l] /\ teamarea' = [teamarea EXCEPT ![m] = access]
  <2>1. Book!Leads(l) /\ m \in Book!Members(l)
    BY <1>5, LeaderInBook
  <2> QED
    BY <1>1, <1>2, <1>3, <1>5, <2>1, Zenon DEF Book!Admit
<1> QED
  BY <1>1, <1>4, <1>5

\* A battle server saves the id of a team it knows, or one that is nobody's.
LEMMA SaveInBook ==
  ASSUME TeamInv, NEW l \in Accounts, NEW t, Save(l, t)
  PROVE  \/ \E k \in (told \cap Live) \cup {None} : Book!Join(l, k)
         \/ UNCHANGED Book!bookVars
<1>1. /\ t \in told \cup {None}
      /\ teamid' = [teamid EXCEPT ![l] = t] \/ UNCHANGED teamid
      /\ UNCHANGED <<teamarea, teams, told, missed>>
  BY DEF Save
<1>2. Live' = Live /\ told' \cap Live' = told \cap Live
  BY <1>1 DEF Live
<1>3. CASE UNCHANGED teamid
  <2>1. Membership' = Membership
    BY <1>2, <1>3 DEF Membership
  <2> QED
    BY <1>1, <1>2, <2>1 DEF Book!bookVars
<1>4. CASE teamid' = [teamid EXCEPT ![l] = t]
  <2>1. PICK k : k = IF t \in Live THEN t ELSE None
    OBVIOUS
  <2>2. k \in (told \cap Live) \cup {None}
    BY <1>1, <2>1
  <2>3. teamid \in [Accounts -> Nat \cup {None}]
    BY DEF TeamInv, TypeOK
  <2>4. Membership' = [Membership EXCEPT ![l] = k]
    BY <1>2, <1>4, <2>1, <2>3 DEF Membership
  <2>5. Book!Join(l, k)
    BY <1>1, <1>2, <2>4, Zenon DEF Book!Join
  <2> QED
    BY <2>2, <2>5
<1> QED
  BY <1>1, <1>3, <1>4

\* The requests that only answer.
LEMMA OthersInBook ==
  ASSUME TeamInv, NEW l \in Accounts,
         \/ \E name \in Names : CreateRefused(l, name)
         \/ NotOpened(l) \/ GetTeamData(l) \/ Login(l)
  PROVE  Book!Learn(l) \/ UNCHANGED Book!bookVars
<1>1. UNCHANGED <<teamid, teamarea, teams, missed>>
  BY DEF CreateRefused, NotOpened, GetTeamData, Login
<1>2. told' \in {told, told \cup {0}, told \cup {teamid[l]}}
  BY DEF CreateRefused, NotOpened, GetTeamData, Login
<1> QED
  BY <1>1, <1>2, BookLearns

LEMMA BookStep ==
  ASSUME TeamInv, NamesUnique, Next
  PROVE  Book!BookNext \/ UNCHANGED Book!bookVars
<1> USE DEF Book!BookNext
<1>1. ASSUME NEW l \in Accounts, NEW name \in Names, CreateTeam(l, name)
      PROVE  Book!BookNext \/ UNCHANGED Book!bookVars
  BY <1>1, CreateInBook DEF Names
<1>2. ASSUME NEW l \in Accounts, NEW settings \in Settings, SetTeam(l, settings)
      PROVE  Book!BookNext \/ UNCHANGED Book!bookVars
  BY <1>2, SetInBook
<1>3. ASSUME NEW l \in Accounts, DeleteTeam(l)
      PROVE  Book!BookNext \/ UNCHANGED Book!bookVars
  BY <1>3, DeleteInBook
<1>4. ASSUME NEW l \in Accounts, NEW m \in Accounts, NEW access \in Areas,
             AdjustArea(l, m, access)
      PROVE  Book!BookNext \/ UNCHANGED Book!bookVars
  BY <1>4, AreaInBook
<1>5. ASSUME NEW l \in Accounts, NEW m \in Accounts, RemoveMember(l, m)
      PROVE  Book!BookNext \/ UNCHANGED Book!bookVars
  BY <1>5, RemoveInBook
<1>6. ASSUME NEW l \in Accounts, NEW t, Save(l, t)
      PROVE  Book!BookNext \/ UNCHANGED Book!bookVars
  BY <1>6, SaveInBook
<1>7. ASSUME NEW l \in Accounts,
             \/ \E name \in Names : CreateRefused(l, name)
             \/ NotOpened(l) \/ GetTeamData(l) \/ Login(l)
      PROVE  Book!BookNext \/ UNCHANGED Book!bookVars
  BY <1>7, OthersInBook
<1> HIDE DEF Book!BookNext
<1> QED
  BY <1>1, <1>2, <1>3, <1>4, <1>5, <1>6, <1>7, Zenon DEF Next

\* Teams keep what TeamBook promises, for any number of players and teams and any
\* statements that fail: leaders act on their own team only, whoever is out is out,
\* and an old id brings nobody into a team founded later.
THEOREM TeamsKeepTheirPromise == Spec => TeamsAsPromised
<1>1. Init => Book!BookInit
  <2> SUFFICES ASSUME Init PROVE Book!BookInit
    OBVIOUS
  <2>1. Live = {}
    BY DEF Init, Live
  <2>2. Membership = [l \in Accounts |-> None] /\ told \cap Live = {}
    BY <2>1 DEF Membership
  <2> QED
    BY <2>2, Zenon DEF Init, Book!BookInit
<1>2. TeamInv /\ NamesUnique /\ [Next]_vars => [Book!BookNext]_(Book!bookVars)
  <2>1. ASSUME UNCHANGED vars PROVE UNCHANGED Book!bookVars
    BY <2>1 DEF vars, Book!bookVars, Membership, Live
  <2> QED
    BY <2>1, BookStep
<1> QED
  BY <1>1, <1>2, TeamInvariant, PTL DEF Spec, TeamsAsPromised, Book!BookSpec
===============================================================================
