------------------------------- MODULE PlayerDB -------------------------------
(***************************************************************************)
(* The data of the players: what a battle server saves (Save Client Data),  *)
(* the garage requests, and what a login tells the battle server.           *)
(*                                                                         *)
(* A save is a series of statements without a transaction.  A statement     *)
(* that fails changes nothing and is not noticed, a query that fails looks  *)
(* like one without rows, and the server may die between two statements.    *)
(* Every statement names one license, so the tables are functions of it.    *)
(***************************************************************************)
EXTENDS Integers, Sequences, FiniteSets

CONSTANTS
  Players,    \* the licenses
  Barred,     \* those whose column "state" has the bit that refuses logins
  Sessions,   \* the games that battle servers run for players
  Bays, Cars, \* cars stand for carID, KMs, condition and carData together
  Values,     \* what a player may have in a section, but Blank
  Blank,      \* no rivals, no items, no sign
  None,       \* no car, no session
  Sections,   \* bound: the tables of AllSections that the instance follows
  Faults,     \* the statements that may fail: "query", "update"
  MaxRows,    \* bound: rows of a player in a section before a save
  MaxGarage,  \* bound: cars of a player before a save
  MaxCars     \* bound: cars in a save

\* rival_data, item_data, sign_data.
AllSections == {"rival", "items", "sign"}

ASSUME ConstantsOK ==
  /\ Players # {} /\ Barred \subseteq Players
  /\ Blank \notin Values
  /\ None \notin Cars
  /\ Sections \subseteq AllSections
  /\ Faults \subseteq {"query", "update"}
  /\ MaxRows \in Nat /\ MaxGarage \in Nat /\ MaxCars \in Nat

VARIABLES
  known,    \* account_data: the account was saved, and has a handle
  lots,     \* account_data: garagecount is not 0
  plan,     \* account_data: garagedata is not NULL
  rows,     \* rival_data, item_data and sign_data, in the order of rowid
  garage,   \* garage_data, in the order of rowid
  session,  \* what a battle server holds for a player
  job,      \* the Save Client Data being executed
  tangled,  \* history: players with cars put into a bay that held another
  torn,     \* history: players of whose saves a statement failed or was never reached
  misled,   \* history: players at whose logins a query failed
  doubled,  \* history: players who had two sessions
  exposed   \* history: players who got something to show behind a session's back

tables == <<known, lots, plan, rows, garage>>
history == <<tangled, torn, misled, doubled, exposed>>
vars == <<tables, session, job, history>>

Contents == Values \cup {Blank}

SectionRows == [val : Contents, blocked : BOOLEAN]

CarRows == [bay : Bays, car : Cars, impounded : BOOLEAN]

Parts == [Sections -> Contents]

Steps == AllSections \cup {"idle", "account", "garages", "cars", "done"}

Jobs == [step : Steps, player : Players, parts : Parts, lots : BOOLEAN,
         cars : Seq([bay : Bays, car : Cars]), at : Nat, clean : BOOLEAN]

TypeOK ==
  /\ known \in [Players -> BOOLEAN]
  /\ lots \in [Players -> BOOLEAN]
  /\ plan \in [Players -> BOOLEAN]
  /\ rows \in [Sections -> [Players -> Seq(SectionRows)]]
  /\ garage \in [Players -> Seq(CarRows)]
  /\ session \in [Sessions -> [on : BOOLEAN, player : Players, parts : Parts]]
  /\ job \in Jobs
  /\ job.step = "cars" => job.at \in 1 .. Len(job.cars) + 1
  /\ tangled \subseteq Players /\ torn \subseteq Players
  /\ misled \subseteq Players /\ doubled \subseteq Players /\ exposed \subseteq Players

NoParts == [sec \in Sections |-> Blank]

SomePlayer == CHOOSE l \in Players : TRUE

NoJob == [step |-> "idle", player |-> SomePlayer, parts |-> NoParts, lots |-> FALSE,
          cars |-> <<>>, at |-> 1, clean |-> TRUE]

NoSession == [on |-> FALSE, player |-> SomePlayer, parts |-> NoParts]

Init ==
  /\ known = [l \in Players |-> FALSE]
  /\ lots = [l \in Players |-> FALSE]
  /\ plan = [l \in Players |-> FALSE]
  /\ rows = [sec \in Sections |-> [l \in Players |-> <<>>]]
  /\ garage = [l \in Players |-> <<>>]
  /\ session = [s \in Sessions |-> NoSession]
  /\ job = NoJob
  /\ tangled = {} /\ torn = {} /\ misled = {} /\ doubled = {} /\ exposed = {}

\* Whether a statement of this kind succeeds.
Outcomes(kind) == IF kind \in Faults THEN BOOLEAN ELSE {TRUE}

-------------------------------------------------------------------------------
(* Rows.                                                                   *)

\* item_data has a column "blocked"; in the other sections no row is blocked.
Open(sec, l) == {i \in DOMAIN rows[sec][l] : ~rows[sec][l][i].blocked}

First(S) == CHOOSE i \in S : \A j \in S : i <= j

\* What a query for the section finds: its first row.
Stored(sec, l) == IF Open(sec, l) = {} THEN Blank ELSE rows[sec][l][First(Open(sec, l))].val

Shown(l) == {i \in DOMAIN garage[l] : ~garage[l][i].impounded}

InBay(l, b) == {i \in Shown(l) : garage[l][i].bay = b}

-------------------------------------------------------------------------------
(* Sessions: a player logs in, plays and leaves.                           *)

\* A plan of garages that should be there but is not fails the login.
Admitted(l) == lots[l] => plan[l]

ToldOfFirstRow(l, missing) ==
  [sec \in Sections |->
     IF sec \in missing \/ (~known[l] /\ sec # "rival") \/ rows[sec][l] = <<>>
       THEN Blank ELSE rows[sec][l][1].val]

\* A query that fails answers a blank section; without a handle only rivals are told.
ToldMissing(l, missing) ==
  [sec \in Sections |->
     IF sec \in missing \/ (~known[l] /\ sec # "rival") THEN Blank ELSE Stored(sec, l)]

\* Nothing in the code writes "state".
Login(s, l) ==
  /\ job.step = "idle"
  /\ ~session[s].on
  /\ l \notin Barred
  /\ Admitted(l)
  /\ \E missing \in IF "query" \in Faults THEN SUBSET Sections ELSE {{}} :
       /\ session' = [session EXCEPT ![s] =
                        [on |-> TRUE, player |-> l, parts |-> ToldMissing(l, missing)]]
       /\ misled' = IF missing = {} THEN misled ELSE misled \cup {l}
  /\ doubled' = IF \E t \in Sessions : session[t].on /\ session[t].player = l
                  THEN doubled \cup {l} ELSE doubled
  /\ UNCHANGED <<tables, job, tangled, torn, exposed>>

Play(s, sec, v) ==
  /\ session[s].on
  /\ session' = [session EXCEPT ![s].parts[sec] = v]
  /\ UNCHANGED <<tables, job, history>>

Leave(s) ==
  /\ session[s].on
  /\ session' = [session EXCEPT ![s] = NoSession]
  /\ UNCHANGED <<tables, job, history>>

-------------------------------------------------------------------------------
(* Save Client Data, statement by statement.                               *)

StartSave(s, some, cars) ==
  /\ job.step = "idle"
  /\ session[s].on
  /\ \A sec \in Sections : Len(rows[sec][session[s].player]) <= MaxRows
  /\ Len(garage[session[s].player]) <= MaxGarage
  /\ job' = [step |-> "account", player |-> session[s].player, parts |-> session[s].parts,
             lots |-> some, cars |-> cars, at |-> 1, clean |-> TRUE]
  /\ UNCHANGED <<tables, session, history>>

\* The order of the statements.
After == [account |-> "rival", rival |-> "garages", garages |-> "cars",
          cars |-> "items", items |-> "sign", sign |-> "done"]

\* The step is over; ok says whether all its statements succeeded.
Finish(ok) ==
  /\ job' = [job EXCEPT !.step = After[job.step], !.clean = @ /\ ok]
  /\ torn' = IF ok THEN torn ELSE torn \cup {job.player}
  /\ UNCHANGED <<session, misled, doubled, exposed>>

SaveAccount ==
  /\ job.step = "account"
  /\ \E ok \in Outcomes("update") :
       /\ IF ok THEN /\ known' = [known EXCEPT ![job.player] = TRUE]
                     /\ lots' = [lots EXCEPT ![job.player] = job.lots]
                ELSE UNCHANGED <<known, lots>>
       /\ Finish(ok)
  /\ UNCHANGED <<plan, rows, garage, tangled>>

UpsertAny(sec, l, v, found) ==
  IF found /\ rows[sec][l] # <<>>
    THEN [i \in DOMAIN rows[sec][l] |->
            IF i \in Open(sec, l) THEN [rows[sec][l][i] EXCEPT !.val = v] ELSE rows[sec][l][i]]
    ELSE Append(rows[sec][l], [val |-> v, blocked |-> FALSE])

\* SELECT, then UPDATE every open row or INSERT one.
Upsert(sec, l, v, found) ==
  IF found /\ Open(sec, l) # {}
    THEN [i \in DOMAIN rows[sec][l] |->
            IF i \in Open(sec, l) THEN [rows[sec][l][i] EXCEPT !.val = v] ELSE rows[sec][l][i]]
    ELSE Append(rows[sec][l], [val |-> v, blocked |-> FALSE])

SaveSection(sec) ==
  /\ job.step = sec
  /\ \E found \in Outcomes("query"), ok \in Outcomes("update") :
       /\ rows' = IF ok THEN [rows EXCEPT ![sec][job.player] =
                                Upsert(sec, job.player, job.parts[sec], found)]
                        ELSE rows
       /\ Finish(found /\ ok)
  /\ UNCHANGED <<known, lots, plan, garage, tangled>>

\* Bound: a section that the instance does not follow.
PassOver(sec) ==
  /\ job.step = sec
  /\ Finish(TRUE)
  /\ UNCHANGED <<tables, tangled>>

SaveGaragesNever ==
  /\ job.step = "garages"
  /\ Finish(TRUE)
  /\ UNCHANGED <<tables, tangled>>

SaveGarages ==
  /\ job.step = "garages"
  /\ IF job.lots
       THEN \E ok \in Outcomes("update") :
              /\ plan' = IF ok THEN [plan EXCEPT ![job.player] = TRUE] ELSE plan
              /\ Finish(ok)
       ELSE plan' = plan /\ Finish(TRUE)
  /\ UNCHANGED <<known, lots, rows, garage, tangled>>

UpsertCarAny(l, b, c, found) ==
  IF found /\ {i \in DOMAIN garage[l] : garage[l][i].bay = b} # {}
    THEN [i \in DOMAIN garage[l] |->
            IF i \in InBay(l, b) THEN [garage[l][i] EXCEPT !.car = c] ELSE garage[l][i]]
    ELSE Append(garage[l], [bay |-> b, car |-> c, impounded |-> FALSE])

UpsertImpounded(l, b, c, found) ==
  IF found /\ InBay(l, b) # {}
    THEN [i \in DOMAIN garage[l] |->
            IF garage[l][i].bay = b THEN [garage[l][i] EXCEPT !.car = c] ELSE garage[l][i]]
    ELSE Append(garage[l], [bay |-> b, car |-> c, impounded |-> FALSE])

\* SELECT ... AND impounded = 0, then UPDATE ... AND impounded <> 1, or INSERT.
UpsertCar(l, b, c, found) ==
  IF found /\ InBay(l, b) # {}
    THEN [i \in DOMAIN garage[l] |->
            IF i \in InBay(l, b) THEN [garage[l][i] EXCEPT !.car = c] ELSE garage[l][i]]
    ELSE Append(garage[l], [bay |-> b, car |-> c, impounded |-> FALSE])

SaveCar ==
  LET l == job.player
      c == job.cars[job.at]
  IN
  /\ job.step = "cars"
  /\ job.at <= Len(job.cars)
  /\ \E found \in Outcomes("query"), ok \in Outcomes("update") :
       /\ garage' = IF ok THEN [garage EXCEPT ![l] = UpsertCar(l, c.bay, c.car, found)]
                          ELSE garage
       /\ tangled' = IF ok /\ ~found /\ InBay(l, c.bay) # {} THEN tangled \cup {l} ELSE tangled
       /\ job' = [job EXCEPT !.at = @ + 1, !.clean = @ /\ found /\ ok]
       /\ torn' = IF found /\ ok THEN torn ELSE torn \cup {l}
  /\ UNCHANGED <<known, lots, plan, rows, session, misled, doubled, exposed>>

NoMoreCars ==
  /\ job.step = "cars"
  /\ job.at > Len(job.cars)
  /\ Finish(TRUE)
  /\ UNCHANGED <<tables, tangled>>

EndSave ==
  /\ job.step = "done"
  /\ job' = NoJob
  /\ UNCHANGED <<tables, session, history>>

\* The server dies and is started again; what was executed stays.
Crash ==
  /\ job.step # "idle"
  /\ job' = NoJob
  /\ torn' = torn \cup {job.player}
  /\ UNCHANGED <<tables, session, tangled, misled, doubled, exposed>>

-------------------------------------------------------------------------------
(* The garage requests, and the administrator.  One that fails changes      *)
(* nothing.                                                                *)

\* Every row of the player moves, impounded or not.
Rebay(l, new) ==
  [garage EXCEPT ![l] = [i \in DOMAIN garage[l] |-> [garage[l][i] EXCEPT !.bay = new[@]]]]

SwappedInTurn(a, b) == [c \in Bays |-> IF c \in {a, b} THEN a ELSE c]

Swapped(a, b) == [c \in Bays |-> IF c = a THEN b ELSE IF c = b THEN a ELSE c]

SwapCars(l, a, b) ==
  /\ job.step = "idle"
  /\ garage' = Rebay(l, Swapped(a, b))
  /\ UNCHANGED <<known, lots, plan, rows, session, job, history>>

Moved(a, b) == [c \in Bays |-> IF c = a THEN b ELSE c]

MoveCar(l, a, b) ==
  /\ job.step = "idle"
  /\ garage' = Rebay(l, Moved(a, b))
  /\ tangled' = IF a # b /\ InBay(l, a) # {} /\ InBay(l, b) # {} THEN tangled \cup {l} ELSE tangled
  /\ UNCHANGED <<known, lots, plan, rows, session, job, torn, misled, doubled, exposed>>

Outside(b, row) == row.bay # b

\* Deletes impounded cars of the bay, too; old tells where the rows that are left were.
RemoveCar(l, b) ==
  LET left == {i \in DOMAIN garage[l] : Outside(b, garage[l][i])} IN
  /\ job.step = "idle"
  /\ \E old \in [1 .. Cardinality(left) -> left] :
       /\ \A i, j \in DOMAIN old : i < j => old[i] < old[j]
       /\ garage' = [garage EXCEPT ![l] = [i \in DOMAIN old |-> garage[l][old[i]]]]
  /\ UNCHANGED <<known, lots, plan, rows, session, job, history>>

Impound(l, i) ==
  /\ job.step = "idle"
  /\ i \in Shown(l)
  /\ garage' = [garage EXCEPT ![l][i].impounded = TRUE]
  /\ UNCHANGED <<known, lots, plan, rows, session, job, history>>

Release(l, i) ==
  LET others == InBay(l, garage[l][i].bay) IN
  /\ job.step = "idle"
  /\ i \in DOMAIN garage[l] /\ garage[l][i].impounded
  /\ garage' = [garage EXCEPT ![l][i].impounded = FALSE]
  /\ tangled' = IF others = {} THEN tangled ELSE tangled \cup {l}
  /\ UNCHANGED <<known, lots, plan, rows, session, job, torn, misled, doubled, exposed>>

\* A session was told that there are no items, and now there are some.
Exposes(l) ==
  /\ Stored("items", l) = Blank /\ Stored("items", l)' # Blank
  /\ \E s \in Sessions : session[s].on /\ session[s].player = l

SetBlocked(l, i, blocked) ==
  /\ job.step = "idle"
  /\ rows' = [rows EXCEPT !["items"][l][i].blocked = blocked]
  /\ exposed' = IF Exposes(l) THEN exposed \cup {l} ELSE exposed
  /\ UNCHANGED <<known, lots, plan, garage, session, job, tangled, torn, misled, doubled>>

BlockItems(l, i) == i \in Open("items", l) /\ SetBlocked(l, i, TRUE)

UnblockItems(l, i) == i \in DOMAIN rows["items"][l] \ Open("items", l) /\ SetBlocked(l, i, FALSE)

-------------------------------------------------------------------------------
SaveStep ==
  \/ SaveAccount
  \/ \E sec \in Sections : SaveSection(sec)
  \/ \E sec \in AllSections \ Sections : PassOver(sec)
  \/ SaveGarages
  \/ SaveCar \/ NoMoreCars
  \/ EndSave

CarLists == UNION {[1 .. n -> [bay : Bays, car : Cars]] : n \in 0 .. MaxCars}

Next ==
  \/ \E s \in Sessions :
       \/ \E l \in Players : Login(s, l)
       \/ \E sec \in Sections, v \in Values : Play(s, sec, v)
       \/ Leave(s)
       \/ \E some \in BOOLEAN, cars \in CarLists : StartSave(s, some, cars)
  \/ SaveStep
  \/ Crash
  \/ \E l \in Players :
       \/ \E a, b \in Bays : SwapCars(l, a, b) \/ MoveCar(l, a, b)
       \/ \E b \in Bays : RemoveCar(l, b)
       \/ \E i \in DOMAIN garage[l] : Impound(l, i) \/ Release(l, i)
       \/ "items" \in Sections /\ \E i \in DOMAIN rows["items"][l] :
            BlockItems(l, i) \/ UnblockItems(l, i)

Spec == Init /\ [][Next]_vars

-------------------------------------------------------------------------------
\* A bay shows one car at most, whatever is saved, swapped, impounded and lost in
\* crashes, until a car is put beside another: by a query that failed, or by a
\* move or release into an occupied bay.  A login reads a car's data by its bay
\* (ClientAuthPackets.cpp:214), so two cars in a bay are told as one mixed with the other.
BaysHoldOneCar ==
  \A l \in Players \ tangled : \A i, j \in Shown(l) :
    garage[l][i].bay = garage[l][j].bay => i = j

\* The car of bay b in the packet: the last one for that bay.
LastFor(k) == \A n \in DOMAIN job.cars : job.cars[n].bay = job.cars[k].bay => n <= k

\* After a save whose statements all succeeded, the next login is told what was
\* saved, whatever rows earlier failures, blocks and impounded cars left behind
\* (written by ClientRequestsPackets.cpp:68-225, read by ClientAuthPackets.cpp:60-299).
CleanSaveSticks ==
  LET l == job.player IN
  job.step = "done" /\ job.clean =>
    /\ known[l] /\ lots[l] = job.lots /\ Admitted(l)
    /\ \A sec \in Sections : Stored(sec, l) = job.parts[sec]
    /\ \A k \in DOMAIN job.cars : LastFor(k) =>
         /\ InBay(l, job.cars[k].bay) # {}
         /\ \A i \in InBay(l, job.cars[k].bay) : garage[l][i].car = job.cars[k].car

\* A player is locked out - garagecount says there are garages, garagedata has none,
\* and the login fails (ClientAuthPackets.cpp:176) - only between the two statements
\* of a save, or after a save of which a statement failed or was never reached.
LockedOutOnlyByTornSave ==
  \A l \in Players : ~Admitted(l) =>
    l \in torn \/ (job.player = l /\ job.step \in {"rival", "garages"})

\* No save changes an impounded car, even one in a bay that the save writes
\* (ClientRequestsPackets.cpp:136, :149).
ImpoundedUntouched ==
  [][job.step # "idle" =>
       \A l \in Players : \A i \in DOMAIN garage[l] : garage[l][i].impounded =>
         i \in DOMAIN garage'[l] /\ garage'[l][i] = garage[l][i]]_vars

\* What a player has is overwritten with blanks only if a query failed at a login, a
\* statement of a save failed, the player was logged in twice, or an administrator
\* brought items to light, by a block lifted or set, while a session ran that had been
\* told of none: what a login did not read (ClientAuthPackets.cpp:62, :242, :275) the
\* next save stores, in every row that is open by then (ClientRequestsPackets.cpp:174-182).
BlanksHaveACause ==
  [][\A sec \in Sections, l \in Players :
       job.step # "idle" /\ Stored(sec, l) # Blank /\ Stored(sec, l)' = Blank =>
         l \in misled \cup torn \cup doubled \cup exposed]_vars

Promise == INSTANCE Garage
  WITH park <- [l \in Players |-> [b \in Bays |->
                  IF InBay(l, b) = {} THEN None ELSE garage[l][First(InBay(l, b))].car]],
       mixed <- tangled

KeepsPromise ==
  /\ SaveCar /\ job.player \notin tangled' =>
       \/ UNCHANGED garage
       \/ Promise!Put(job.player, job.cars[job.at].bay, job.cars[job.at].car)
  /\ \A l \in Players \ tangled' :
       /\ \A a, b \in Bays : SwapCars(l, a, b) => Promise!Swap(l, a, b)
       /\ \A a, b \in Bays : MoveCar(l, a, b) => Promise!Move(l, a, b)
       /\ \A b \in Bays : RemoveCar(l, b) => Promise!Take(l, b)

\* Until a car is put beside another, a garage is what Garage promises: each request
\* does to the bays of its player what its name says and nothing else, whatever
\* impounded cars lie in them and wherever saves failed (ClientRequestsPackets.cpp:130-269).
GarageAsPromised == Promise!Init /\ [][KeepsPromise]_vars /\ Promise!Spec
===============================================================================
