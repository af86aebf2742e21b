--------------------------- MODULE PlayerDBProofs ---------------------------
(***************************************************************************)
(* Proofs about the data of the players (PlayerDB.tla), for any number of    *)
(* players, sessions, bays, cars and rows, whatever statements fail and      *)
(* wherever the server dies.                                               *)
(***************************************************************************)
EXTENDS PlayerDB, SequenceTheorems, FunctionTheorems, FiniteSetTheorems, WellFoundedInduction,
        TLAPS

\* A set of numbers that is not empty has a first one.
LEMMA FirstIsFirst ==
  ASSUME NEW S \in SUBSET Nat, S # {}
  PROVE  First(S) \in S /\ \A j \in S : First(S) <= j
<1>1. PICK x \in S : \A y \in S : ~(<<y, x>> \in OpToRel(<, Nat))
  BY NatLessThanWellFounded, WFMin
<1>2. \A y \in S : ~(y < x)
  BY <1>1 DEF OpToRel
<1>3. \A y \in S : x <= y
  BY <1>2
<1> QED
  BY <1>3, Zenon DEF First

LEMMA RowNumbers ==
  ASSUME TypeOK
  PROVE  /\ \A sec \in Sections, l \in Players :
              /\ rows[sec][l] \in Seq(SectionRows)
              /\ DOMAIN rows[sec][l] = 1 .. Len(rows[sec][l])
              /\ Len(rows[sec][l]) \in Nat
              /\ \A i \in DOMAIN rows[sec][l] : rows[sec][l][i] \in SectionRows
         /\ \A l \in Players :
              /\ garage[l] \in Seq(CarRows)
              /\ DOMAIN garage[l] = 1 .. Len(garage[l])
              /\ Len(garage[l]) \in Nat
              /\ \A i \in DOMAIN garage[l] : garage[l][i] \in CarRows
  BY DEF TypeOK

\* What a query for a section finds is blank or one of its open rows.
LEMMA StoredIs ==
  ASSUME TypeOK, NEW sec \in Sections, NEW l \in Players
  PROVE  /\ Stored(sec, l) \in Contents
         /\ Open(sec, l) # {} =>
              \E i \in Open(sec, l) : Stored(sec, l) = rows[sec][l][i].val
<1>1. Open(sec, l) \in SUBSET Nat
  BY RowNumbers DEF Open
<1>2. \A i \in Open(sec, l) : rows[sec][l][i].val \in Contents
  BY RowNumbers DEF Open, SectionRows
<1>3. CASE Open(sec, l) = {}
  BY <1>3, Zenon DEF Stored, Contents
<1>4. CASE Open(sec, l) # {}
  <2>1. First(Open(sec, l)) \in Open(sec, l)
    BY <1>1, <1>4, FirstIsFirst
  <2>2. Stored(sec, l) = rows[sec][l][First(Open(sec, l))].val
    BY <1>4, Zenon DEF Stored
  <2> QED
    BY <1>2, <2>1, <2>2
<1> QED
  BY <1>3, <1>4

-----------------------------------------------------------------------------
(* Types, variable by variable.                                            *)

AccountTypes ==
  /\ known \in [Players -> BOOLEAN]
  /\ lots \in [Players -> BOOLEAN]
  /\ plan \in [Players -> BOOLEAN]

RowTypes == rows \in [Sections -> [Players -> Seq(SectionRows)]]

GarageTypes == garage \in [Players -> Seq(CarRows)]

SessionTypes == session \in [Sessions -> [on : BOOLEAN, player : Players, parts : Parts]]

JobTypes ==
  /\ job \in Jobs
  /\ job.step = "cars" => job.at \in 1 .. Len(job.cars) + 1

HistoryTypes ==
  /\ tangled \subseteq Players /\ torn \subseteq Players
  /\ misled \subseteq Players /\ doubled \subseteq Players /\ exposed \subseteq Players

LEMMA TypeParts ==
  TypeOK <=> /\ AccountTypes /\ RowTypes /\ GarageTypes /\ SessionTypes /\ JobTypes
             /\ HistoryTypes
  BY Zenon DEF TypeOK, AccountTypes, RowTypes, GarageTypes, SessionTypes, JobTypes, HistoryTypes

LEMMA NothingTyped == NoParts \in Parts /\ SomePlayer \in Players /\ Sections \subseteq AllSections
  BY ConstantsOK DEF NoParts, Parts, Contents, SomePlayer

LEMMA NoJobTyped == NoJob \in Jobs /\ NoJob.step = "idle"
<1>1. <<>> \in Seq([bay : Bays, car : Cars])
  OBVIOUS
<1> QED
  BY <1>1, NothingTyped DEF NoJob, Jobs, Steps

LEMMA NoSessionTyped == NoSession \in [on : BOOLEAN, player : Players, parts : Parts]
  BY NothingTyped DEF NoSession

\* The types hold in the tables as they are created.
LEMMA TypeInit == Init => TypeOK
<1> SUFFICES ASSUME Init PROVE TypeOK
  OBVIOUS
<1>1. AccountTypes /\ RowTypes /\ GarageTypes /\ HistoryTypes
  BY DEF Init, AccountTypes, RowTypes, GarageTypes, HistoryTypes
<1>2. SessionTypes
  BY NoSessionTyped DEF Init, SessionTypes
<1>3. JobTypes
  BY NoJobTyped DEF Init, JobTypes
<1> QED
  BY <1>1, <1>2, <1>3, TypeParts

\* The step after a step of a save, its outcome noted.
LEMMA FinishTyped ==
  ASSUME TypeOK, NEW ok \in BOOLEAN, job.step \in {"account", "garages", "cars"} \cup AllSections,
         Finish(ok)
  PROVE  /\ job' \in Jobs
         /\ job'.step = After[job.step]
         /\ job'.player = job.player /\ job'.parts = job.parts /\ job'.lots = job.lots
         /\ job'.cars = job.cars /\ job'.at = job.at
         /\ job'.clean = (job.clean /\ ok)
         /\ torn' = (IF ok THEN torn ELSE torn \cup {job.player})
         /\ session' = session /\ misled' = misled /\ doubled' = doubled /\ exposed' = exposed
<1>1. job \in Jobs
  BY DEF TypeOK
<1>2. After[job.step] \in Steps
  BY DEF After, Steps, AllSections
<1> QED
  BY <1>1, <1>2 DEF Finish, Jobs

\* A save begins with the account, at the first of its cars.
LEMMA FinishJobTyped ==
  ASSUME TypeOK, NEW ok \in BOOLEAN, job.step \in {"account", "garages", "cars"} \cup AllSections,
         Finish(ok), job.step = "garages" => job.at = 1
  PROVE  JobTypes' /\ SessionTypes'
<1>1. SessionTypes'
  BY FinishTyped DEF TypeOK, SessionTypes
<1>2. job'.step = "cars" => job.step = "garages"
  BY FinishTyped DEF After, AllSections
<1>3. Len(job.cars) \in Nat
  BY DEF TypeOK, Jobs
<1>4. job'.step = "cars" => job'.at \in 1 .. Len(job'.cars) + 1
  BY <1>2, <1>3, FinishTyped
<1> QED
  BY <1>1, <1>4, FinishTyped DEF JobTypes
\* No car is saved before the step of the cars.
AtFirst == job.step \in {"account", "rival", "garages"} => job.at = 1

TypeInv == TypeOK /\ AtFirst

LEMMA SessionsTyped ==
  ASSUME TypeOK
  PROVE  /\ \A missing : \A l \in Players :
              [on |-> TRUE, player |-> l, parts |-> ToldMissing(l, missing)]
                \in [on : BOOLEAN, player : Players, parts : Parts]
         /\ \A s \in Sessions : session[s].player \in Players /\ session[s].parts \in Parts
<1>1. ASSUME NEW l \in Players, NEW missing PROVE ToldMissing(l, missing) \in Parts
  <2>1. \A sec \in Sections : Stored(sec, l) \in Contents /\ Blank \in Contents
    BY StoredIs DEF Contents
  <2> QED
    BY <2>1, Zenon DEF ToldMissing, Parts
<1>2. \A s \in Sessions : session[s].player \in Players /\ session[s].parts \in Parts
  BY DEF TypeOK
<1> QED
  BY <1>1, <1>2

LEMMA LoginTyped ==
  ASSUME TypeInv, NEW s \in Sessions, NEW l \in Players, Login(s, l)
  PROVE  TypeInv'
<1>1. PICK missing : session' = [session EXCEPT ![s] =
                        [on |-> TRUE, player |-> l, parts |-> ToldMissing(l, missing)]]
  BY DEF Login
<1>2. SessionTypes'
  BY <1>1, SessionsTyped DEF SessionTypes, TypeInv, TypeOK
<1>3. misled' \subseteq Players /\ doubled' \subseteq Players /\ exposed' = exposed
  BY DEF Login, TypeInv, TypeOK
<1>4. UNCHANGED <<known, lots, plan, rows, garage, job, tangled, torn>>
  BY DEF Login, tables
<1> QED
  BY <1>2, <1>3, <1>4 DEF TypeInv, TypeOK, SessionTypes, AtFirst

LEMMA PlayTyped ==
  ASSUME TypeInv, NEW s \in Sessions, NEW sec \in Sections, NEW v \in Values, Play(s, sec, v)
  PROVE  TypeInv'
<1>1. session[s] \in [on : BOOLEAN, player : Players, parts : Parts]
  BY DEF TypeInv, TypeOK
<1>2. [session[s] EXCEPT !.parts[sec] = v] \in [on : BOOLEAN, player : Players, parts : Parts]
  BY <1>1 DEF Parts, Contents
<1>3. session' = [session EXCEPT ![s] = [session[s] EXCEPT !.parts[sec] = v]]
  BY DEF Play, TypeInv, TypeOK
<1>4. SessionTypes'
  BY <1>2, <1>3 DEF SessionTypes, TypeInv, TypeOK
<1> QED
  BY <1>4 DEF Play, tables, history, TypeInv, TypeOK, SessionTypes, AtFirst

LEMMA LeaveTyped ==
  ASSUME TypeInv, NEW s \in Sessions, Leave(s)
  PROVE  TypeInv'
<1>1. SessionTypes'
  BY NoSessionTyped DEF Leave, SessionTypes, TypeInv, TypeOK
<1> QED
  BY <1>1 DEF Leave, tables, history, TypeInv, TypeOK, SessionTypes, AtFirst

LEMMA StartSaveTyped ==
  ASSUME TypeInv, NEW s \in Sessions, NEW some \in BOOLEAN, NEW cars \in CarLists,
         StartSave(s, some, cars)
  PROVE  TypeInv'
<1>1. cars \in Seq([bay : Bays, car : Cars])
  <2>1. PICK n \in 0 .. MaxCars : cars \in [1 .. n -> [bay : Bays, car : Cars]]
    BY DEF CarLists
  <2>2. n \in Nat
    BY ConstantsOK
  <2> QED
    BY <2>1, <2>2, SeqDef, Zenon
<1>2. job' \in Jobs /\ job'.step = "account" /\ job'.at = 1
  BY <1>1, SessionsTyped DEF StartSave, Jobs, Steps, TypeInv
<1> QED
  BY <1>2 DEF StartSave, tables, history, TypeInv, TypeOK, AtFirst

LEMMA SaveAccountTyped ==
  ASSUME TypeInv, SaveAccount
  PROVE  TypeInv'
<1>0. job.player \in Players /\ job.lots \in BOOLEAN /\ job.at = 1
  BY DEF TypeInv, TypeOK, Jobs, AtFirst, SaveAccount
<1>1. PICK ok \in BOOLEAN : Finish(ok)
  BY DEF SaveAccount, Outcomes
<1>2. JobTypes' /\ SessionTypes'
  BY <1>0, <1>1, FinishJobTyped DEF SaveAccount, TypeInv
<1>3. /\ job'.at = 1 /\ misled' = misled /\ doubled' = doubled /\ exposed' = exposed
      /\ torn' \subseteq Players
  BY <1>0, <1>1, FinishTyped DEF SaveAccount, TypeInv, TypeOK
<1>4. known' \in [Players -> BOOLEAN] /\ lots' \in [Players -> BOOLEAN]
  BY <1>0 DEF SaveAccount, TypeInv, TypeOK
<1>5. UNCHANGED <<plan, rows, garage, tangled>>
  BY DEF SaveAccount
<1> QED
  BY <1>2, <1>3, <1>4, <1>5 DEF JobTypes, SessionTypes, TypeInv, TypeOK, AtFirst

\* What SELECT and then UPDATE or INSERT leave of a section are rows again.
LEMMA UpsertTyped ==
  ASSUME TypeOK, NEW sec \in Sections, NEW l \in Players, NEW v \in Contents, NEW found
  PROVE  Upsert(sec, l, v, found) \in Seq(SectionRows)
<1>1. [val |-> v, blocked |-> FALSE] \in SectionRows
  BY DEF SectionRows
<1>2. \A r \in SectionRows : [r EXCEPT !.val = v] \in SectionRows
  BY DEF SectionRows
<1>3. Append(rows[sec][l], [val |-> v, blocked |-> FALSE]) \in Seq(SectionRows)
  BY <1>1, RowNumbers
<1>4. [i \in DOMAIN rows[sec][l] |->
         IF i \in Open(sec, l) THEN [rows[sec][l][i] EXCEPT !.val = v] ELSE rows[sec][l][i]]
        \in Seq(SectionRows)
  BY <1>2, RowNumbers
<1> QED
  BY <1>3, <1>4, Zenon DEF Upsert

LEMMA SaveSectionTyped ==
  ASSUME TypeInv, NEW sec \in Sections, SaveSection(sec)
  PROVE  TypeInv'
<1>0. job.player \in Players /\ job.parts[sec] \in Contents /\ job.step \in AllSections
  BY NothingTyped DEF TypeInv, TypeOK, Jobs, Parts, SaveSection
<1>1. PICK found \in BOOLEAN, ok \in BOOLEAN :
        /\ rows' = IF ok THEN [rows EXCEPT ![sec][job.player] =
                                 Upsert(sec, job.player, job.parts[sec], found)]
                         ELSE rows
        /\ Finish(found /\ ok)
  BY DEF SaveSection, Outcomes
<1>2. JobTypes' /\ SessionTypes'
  BY <1>0, <1>1, FinishJobTyped DEF AllSections, TypeInv
<1>3. /\ job'.at = job.at /\ job'.step = After[job.step]
      /\ misled' = misled /\ doubled' = doubled /\ exposed' = exposed /\ torn' \subseteq Players
  BY <1>0, <1>1, FinishTyped DEF TypeInv, TypeOK
<1>4. RowTypes'
  <2>1. Upsert(sec, job.player, job.parts[sec], found) \in Seq(SectionRows)
    BY <1>0, UpsertTyped DEF TypeInv
  <2> QED
    BY <1>0, <1>1, <2>1 DEF RowTypes, TypeInv, TypeOK
<1>5. UNCHANGED <<known, lots, plan, garage, tangled>>
  BY DEF SaveSection
<1>6. AtFirst'
  BY <1>0, <1>3 DEF AtFirst, TypeInv, After, AllSections
<1> QED
  BY <1>2, <1>3, <1>4, <1>5, <1>6 DEF JobTypes, SessionTypes, RowTypes, TypeInv, TypeOK

LEMMA PassTyped ==
  ASSUME TypeInv, \/ \E sec \in AllSections \ Sections : PassOver(sec)
                  \/ SaveGarages \/ NoMoreCars
  PROVE  TypeInv'
<1>1. PICK ok \in BOOLEAN : Finish(ok)
  BY DEF PassOver, SaveGarages, NoMoreCars, Outcomes
<1>0. job.player \in Players /\ job.step \in AllSections \cup {"garages", "cars"}
  BY DEF TypeInv, TypeOK, Jobs, PassOver, SaveGarages, NoMoreCars
<1>2. JobTypes' /\ SessionTypes'
  BY <1>0, <1>1, FinishJobTyped DEF TypeInv, AtFirst
<1>3. /\ job'.at = job.at /\ job'.step = After[job.step]
      /\ misled' = misled /\ doubled' = doubled /\ exposed' = exposed /\ torn' \subseteq Players
  BY <1>0, <1>1, FinishTyped DEF TypeInv, TypeOK
<1>4. plan' \in [Players -> BOOLEAN]
  BY <1>0 DEF PassOver, SaveGarages, NoMoreCars, tables, TypeInv, TypeOK
<1>5. UNCHANGED <<known, lots, rows, garage, tangled>>
  BY DEF PassOver, SaveGarages, NoMoreCars, tables
<1>6. AtFirst'
  BY <1>0, <1>3 DEF AtFirst, TypeInv, After, AllSections
<1> QED
  BY <1>2, <1>3, <1>4, <1>5, <1>6 DEF JobTypes, SessionTypes, TypeInv, TypeOK
\* What UPDATE makes of the cars of a bay, and what INSERT makes of the garage.
Replaced(l, b, c) ==
  [i \in DOMAIN garage[l] |->
     IF i \in InBay(l, b) THEN [garage[l][i] EXCEPT !.car = c] ELSE garage[l][i]]

Added(l, b, c) == Append(garage[l], [bay |-> b, car |-> c, impounded |-> FALSE])

LEMMA ReplacedIs ==
  ASSUME TypeOK, NEW l \in Players, NEW b \in Bays, NEW c \in Cars
  PROVE  /\ Replaced(l, b, c) \in Seq(CarRows)
         /\ DOMAIN Replaced(l, b, c) = DOMAIN garage[l]
         /\ \A i \in DOMAIN garage[l] :
              /\ Replaced(l, b, c)[i].bay = garage[l][i].bay
              /\ Replaced(l, b, c)[i].impounded = garage[l][i].impounded
              /\ i \notin InBay(l, b) => Replaced(l, b, c)[i] = garage[l][i]
              /\ i \in InBay(l, b) => Replaced(l, b, c)[i].car = c
<1>0. /\ garage[l] \in Seq(CarRows) /\ Len(garage[l]) \in Nat
      /\ DOMAIN garage[l] = 1 .. Len(garage[l])
      /\ \A i \in DOMAIN garage[l] : garage[l][i] \in CarRows
  BY RowNumbers
<1>1. \A r \in CarRows : /\ [r EXCEPT !.car = c] \in CarRows /\ [r EXCEPT !.car = c].bay = r.bay
                         /\ [r EXCEPT !.car = c].impounded = r.impounded
                         /\ [r EXCEPT !.car = c].car = c
  BY DEF CarRows
<1>2. Replaced(l, b, c) \in Seq(CarRows)
  BY <1>0, <1>1 DEF Replaced
<1> QED
  BY <1>0, <1>1, <1>2 DEF Replaced

LEMMA AddedIs ==
  ASSUME TypeOK, NEW l \in Players, NEW b \in Bays, NEW c \in Cars
  PROVE  /\ Added(l, b, c) \in Seq(CarRows)
         /\ DOMAIN Added(l, b, c) = DOMAIN garage[l] \cup {Len(garage[l]) + 1}
         /\ Len(garage[l]) + 1 \notin DOMAIN garage[l]
         /\ Added(l, b, c)[Len(garage[l]) + 1] = [bay |-> b, car |-> c, impounded |-> FALSE]
         /\ \A i \in DOMAIN garage[l] : Added(l, b, c)[i] = garage[l][i]
<1>0. /\ garage[l] \in Seq(CarRows) /\ Len(garage[l]) \in Nat
      /\ DOMAIN garage[l] = 1 .. Len(garage[l])
  BY RowNumbers
<1> DEFINE row == [bay |-> b, car |-> c, impounded |-> FALSE]
<1>1. row \in CarRows /\ Added(l, b, c) = Append(garage[l], row)
  BY DEF CarRows, Added
<1> HIDE DEF row
<1>2. /\ Added(l, b, c) \in Seq(CarRows) /\ DOMAIN Added(l, b, c) = 1 .. Len(garage[l]) + 1
      /\ Added(l, b, c)[Len(garage[l]) + 1] = row
      /\ \A i \in DOMAIN garage[l] : Added(l, b, c)[i] = garage[l][i]
  BY <1>0, <1>1
<1> QED
  BY <1>0, <1>2 DEF row

\* The car that a save is at.
LEMMA CarSaved ==
  ASSUME TypeOK, SaveCar
  PROVE  /\ job \in Jobs /\ job.player \in Players
         /\ job.cars \in Seq([bay : Bays, car : Cars])
         /\ Len(job.cars) \in Nat /\ job.at \in 1 .. Len(job.cars)
         /\ job.cars[job.at] \in [bay : Bays, car : Cars]
<1>1. /\ job \in Jobs /\ job.player \in Players
      /\ job.cars \in Seq([bay : Bays, car : Cars])
  BY DEF TypeOK, Jobs
<1>2. Len(job.cars) \in Nat
  BY <1>1
<1>3. job.at \in 1 .. Len(job.cars)
  BY <1>2 DEF TypeOK, SaveCar
<1>4. job.cars[job.at] \in [bay : Bays, car : Cars]
  BY <1>1, <1>3, ElementOfSeq, Zenon
<1> QED
  BY <1>1, <1>2, <1>3, <1>4

\* What the save of a car does to the garages: nothing, an UPDATE of the rows of the
\* bay, or an INSERT, which tangles a garage that had a car there.
LEMMA SaveCarIs ==
  ASSUME TypeOK, SaveCar
  PROVE  LET l == job.player
             b == job.cars[job.at].bay
             c == job.cars[job.at].car
         IN
         \/ garage' = garage /\ tangled' = tangled
         \/ /\ garage' = [garage EXCEPT ![l] = Replaced(l, b, c)]
            /\ tangled' = tangled
            /\ InBay(l, b) # {}
         \/ /\ garage' = [garage EXCEPT ![l] = Added(l, b, c)]
            /\ tangled' = IF InBay(l, b) # {} THEN tangled \cup {l} ELSE tangled
  BY Zenon DEF SaveCar, Outcomes, UpsertCar, Replaced, Added

LEMMA SaveCarTyped ==
  ASSUME TypeInv, SaveCar
  PROVE  TypeInv'
<1>0. /\ job.player \in Players /\ job \in Jobs /\ job.at \in 1 .. Len(job.cars)
      /\ job.cars[job.at] \in [bay : Bays, car : Cars]
  BY CarSaved DEF TypeInv
<1>1. PICK found \in BOOLEAN, ok \in BOOLEAN :
        job' = [job EXCEPT !.at = @ + 1, !.clean = @ /\ found /\ ok]
  BY DEF SaveCar, Outcomes
<1>2. GarageTypes'
  <2> DEFINE l == job.player
             b == job.cars[job.at].bay
             c == job.cars[job.at].car
  <2>1. l \in Players /\ b \in Bays /\ c \in Cars /\ TypeOK
    BY <1>0 DEF TypeInv
  <2>2. \/ garage' = garage
        \/ garage' = [garage EXCEPT ![l] = Replaced(l, b, c)]
        \/ garage' = [garage EXCEPT ![l] = Added(l, b, c)]
    BY <2>1, SaveCarIs, Zenon
  <2> HIDE DEF l, b, c
  <2>3. Replaced(l, b, c) \in Seq(CarRows)
    BY <2>1, ReplacedIs
  <2>4. Added(l, b, c) \in Seq(CarRows)
    BY <2>1, AddedIs
  <2> QED
    BY <2>1, <2>2, <2>3, <2>4 DEF GarageTypes, TypeOK
<1>3. JobTypes' /\ AtFirst'
  <2>1. (job.clean /\ found /\ ok) \in BOOLEAN
    OBVIOUS
  <2> DEFINE clean == job.clean /\ found /\ ok
  <2>2. job' = [job EXCEPT !.at = job.at + 1, !.clean = clean] /\ clean \in BOOLEAN
    BY <1>1, <2>1
  <2> HIDE DEF clean
  <2>3. /\ job' \in Jobs /\ job'.step = job.step /\ job'.cars = job.cars
        /\ job'.at = job.at + 1
    <3>1. job.at + 1 \in Nat
      BY <1>0 DEF Jobs
    <3> DEFINE next == job.at + 1
    <3>2. job' = [job EXCEPT !.at = next, !.clean = clean] /\ next \in Nat
      BY <2>2, <3>1
    <3> HIDE DEF next
    <3>3. job' \in Jobs /\ job'.step = job.step /\ job'.cars = job.cars /\ job'.at = next
      BY <1>0, <2>2, <3>2 DEF Jobs
    <3> QED
      BY <3>3 DEF next
  <2>4. job.step = "cars" /\ Len(job.cars) \in Nat
    BY CarSaved DEF SaveCar, TypeInv
  <2> QED
    BY <1>0, <2>3, <2>4 DEF JobTypes, AtFirst
<1>4. tangled' \subseteq Players /\ torn' \subseteq Players
  BY <1>0 DEF SaveCar, TypeInv, TypeOK
<1>5. UNCHANGED <<known, lots, plan, rows, session, misled, doubled, exposed>>
  BY DEF SaveCar
<1> QED
  BY <1>2, <1>3, <1>4, <1>5 DEF GarageTypes, JobTypes, TypeInv, TypeOK

LEMMA SaveOverTyped ==
  ASSUME TypeInv, EndSave \/ Crash
  PROVE  TypeInv'
<1>1. job' = NoJob /\ UNCHANGED <<tables, session, tangled, misled, doubled, exposed>>
  BY DEF EndSave, Crash, history
<1>2. torn' \subseteq Players
  BY DEF EndSave, Crash, history, TypeInv, TypeOK, Jobs
<1>3. JobTypes' /\ AtFirst'
  BY <1>1, NoJobTyped DEF JobTypes, AtFirst
<1> QED
  BY <1>1, <1>2, <1>3 DEF tables, JobTypes, TypeInv, TypeOK

\* Rows that get other bays stay rows.
LEMMA RebayIs ==
  ASSUME TypeOK, NEW l \in Players, NEW new \in [Bays -> Bays], garage' = Rebay(l, new)
  PROVE  /\ GarageTypes'
         /\ \A p \in Players : p # l => garage'[p] = garage[p]
         /\ DOMAIN garage'[l] = DOMAIN garage[l]
         /\ \A i \in DOMAIN garage[l] :
              /\ garage'[l][i].bay = new[garage[l][i].bay]
              /\ garage'[l][i].car = garage[l][i].car
              /\ garage'[l][i].impounded = garage[l][i].impounded
<1> DEFINE moved == [i \in DOMAIN garage[l] |->
                       [garage[l][i] EXCEPT !.bay = new[garage[l][i].bay]]]
<1>0. /\ garage[l] \in Seq(CarRows) /\ Len(garage[l]) \in Nat
      /\ DOMAIN garage[l] = 1 .. Len(garage[l])
      /\ \A i \in DOMAIN garage[l] : garage[l][i] \in CarRows
      /\ garage \in [Players -> Seq(CarRows)]
  BY RowNumbers DEF TypeOK
<1>1. \A r \in CarRows : /\ [r EXCEPT !.bay = new[r.bay]] \in CarRows
                         /\ [r EXCEPT !.bay = new[r.bay]].bay = new[r.bay]
                         /\ [r EXCEPT !.bay = new[r.bay]].car = r.car
                         /\ [r EXCEPT !.bay = new[r.bay]].impounded = r.impounded
  BY DEF CarRows
<1>2. garage' = [garage EXCEPT ![l] = moved]
  BY <1>0 DEF Rebay
<1>3. moved \in Seq(CarRows) /\ DOMAIN moved = DOMAIN garage[l]
  BY <1>0, <1>1
<1>4. \A i \in DOMAIN garage[l] :
        /\ moved[i].bay = new[garage[l][i].bay] /\ moved[i].car = garage[l][i].car
        /\ moved[i].impounded = garage[l][i].impounded
  BY <1>0, <1>1
<1> HIDE DEF moved
<1> QED
  BY <1>0, <1>2, <1>3, <1>4 DEF GarageTypes

LEMMA BaysPermuted ==
  ASSUME NEW a \in Bays, NEW b \in Bays
  PROVE  Swapped(a, b) \in [Bays -> Bays] /\ Moved(a, b) \in [Bays -> Bays]
  BY DEF Swapped, Moved

\* What removing leaves: rows that were there before, each once, of other bays.
LEMMA RemoveCarIs ==
  ASSUME TypeOK, NEW l \in Players, NEW b \in Bays, RemoveCar(l, b)
  PROVE  /\ GarageTypes'
         /\ \A p \in Players : p # l => garage'[p] = garage[p]
         /\ \E old \in Bijection(DOMAIN garage'[l], {i \in DOMAIN garage[l] : garage[l][i].bay # b}) :
              \A i \in DOMAIN garage'[l] : garage'[l][i] = garage[l][old[i]]
<1> DEFINE left == {i \in DOMAIN garage[l] : garage[l][i].bay # b}
<1>0. /\ garage[l] \in Seq(CarRows) /\ Len(garage[l]) \in Nat
      /\ DOMAIN garage[l] = 1 .. Len(garage[l])
      /\ \A i \in DOMAIN garage[l] : garage[l][i] \in CarRows
      /\ garage \in [Players -> Seq(CarRows)]
  BY RowNumbers DEF TypeOK
<1>1. PICK old \in [1 .. Cardinality(left) -> left] :
        /\ \A i, j \in DOMAIN old : i < j => old[i] < old[j]
        /\ garage' = [garage EXCEPT ![l] = [i \in DOMAIN old |-> garage[l][old[i]]]]
  BY Zenon DEF RemoveCar, Outside
<1>2. IsFiniteSet(left) /\ Cardinality(left) \in Nat
  <2>1. IsFiniteSet(1 .. Len(garage[l]))
    BY <1>0, FS_Interval
  <2>2. left \in SUBSET (1 .. Len(garage[l]))
    BY <1>0
  <2> HIDE DEF left
  <2> QED
    BY <2>1, <2>2, FS_Subset, FS_CardinalityType
<1> DEFINE n == Cardinality(left)
           kept == [i \in DOMAIN old |-> garage[l][old[i]]]
<1>3. DOMAIN old = 1 .. n /\ \A i \in 1 .. n : old[i] \in left
  BY <1>1
<1>4. left \subseteq DOMAIN garage[l]
  OBVIOUS
<1> HIDE DEF left
<1>5. kept \in Seq(CarRows) /\ DOMAIN kept = 1 .. n
  <2>1. kept \in [1 .. n -> CarRows]
    BY <1>0, <1>3, <1>4
  <2> QED
    BY <1>2, <2>1
<1>6. old \in Injection(1 .. n, left)
  <2>1. \A i, j \in 1 .. n : old[i] = old[j] => i = j
    <3> SUFFICES ASSUME NEW i \in 1 .. n, NEW j \in 1 .. n, old[i] = old[j] PROVE i = j
      OBVIOUS
    <3>1. old[i] \in Nat /\ old[j] \in Nat
      BY <1>0, <1>3, <1>4
    <3>2. ~(i < j) /\ ~(j < i)
      BY <1>1, <1>3, <3>1
    <3> QED
      BY <1>2, <3>2
  <2> QED
    BY <1>1, <1>3, <2>1, Fun_IsInj
<1>7. old \in Bijection(1 .. n, left)
  <2>1. Cardinality(1 .. n) = n
    BY <1>2, FS_Interval
  <2>2. old \in Surjection(1 .. n, left)
    BY <1>2, <1>6, <2>1, FS_Injection
  <2> QED
    BY <1>6, <2>2 DEF Bijection
<1>8. garage' = [garage EXCEPT ![l] = kept]
  BY <1>1
<1>9. \A i \in 1 .. n : kept[i] = garage[l][old[i]]
  BY <1>3
<1> HIDE DEF kept
<1>10. garage'[l] = kept /\ DOMAIN garage'[l] = 1 .. n
  BY <1>0, <1>5, <1>8
<1>11. GarageTypes' /\ \A p \in Players : p # l => garage'[p] = garage[p]
  BY <1>0, <1>5, <1>8 DEF GarageTypes
<1> QED
  BY <1>7, <1>9, <1>10, <1>11 DEF left

LEMMA RequestsTyped ==
  ASSUME TypeInv, NEW l \in Players, NEW a \in Bays, NEW b \in Bays,
         SwapCars(l, a, b) \/ MoveCar(l, a, b) \/ RemoveCar(l, b)
  PROVE  TypeInv'
<1>1. GarageTypes'
  BY BaysPermuted, RebayIs, RemoveCarIs DEF SwapCars, MoveCar, TypeInv
<1>2. tangled' \subseteq Players
  BY DEF SwapCars, MoveCar, RemoveCar, history, TypeInv, TypeOK
<1>3. UNCHANGED <<known, lots, plan, rows, session, job, torn, misled, doubled, exposed>>
  BY DEF SwapCars, MoveCar, RemoveCar, history
<1> QED
  BY <1>1, <1>2, <1>3 DEF GarageTypes, TypeInv, TypeOK, AtFirst

\* A car that is impounded or released stays where it is.
LEMMA ImpoundIs ==
  ASSUME TypeOK, NEW l \in Players, NEW i \in DOMAIN garage[l], NEW flag \in BOOLEAN,
         garage' = [garage EXCEPT ![l][i].impounded = flag]
  PROVE  /\ GarageTypes'
         /\ \A p \in Players : p # l => garage'[p] = garage[p]
         /\ DOMAIN garage'[l] = DOMAIN garage[l]
         /\ \A j \in DOMAIN garage[l] :
              /\ garage'[l][j].bay = garage[l][j].bay
              /\ garage'[l][j].car = garage[l][j].car
              /\ garage'[l][j].impounded = IF j = i THEN flag ELSE garage[l][j].impounded
<1>0. /\ garage[l] \in Seq(CarRows) /\ garage \in [Players -> Seq(CarRows)]
      /\ \A j \in DOMAIN garage[l] : garage[l][j] \in CarRows
  BY RowNumbers DEF TypeOK
<1> DEFINE row == [garage[l][i] EXCEPT !.impounded = flag]
           new == [garage[l] EXCEPT ![i] = row]
<1>1. /\ row \in CarRows /\ row.bay = garage[l][i].bay /\ row.car = garage[l][i].car
      /\ row.impounded = flag
  BY <1>0 DEF CarRows
<1>2. garage' = [garage EXCEPT ![l] = new]
  BY <1>0
<1> HIDE DEF row
<1>3. new \in Seq(CarRows) /\ DOMAIN new = DOMAIN garage[l]
  BY <1>0, <1>1
<1>4. \A j \in DOMAIN garage[l] : new[j] = IF j = i THEN row ELSE garage[l][j]
  BY <1>0
<1> HIDE DEF new
<1> QED
  BY <1>0, <1>1, <1>2, <1>3, <1>4 DEF GarageTypes

LEMMA AdministratorTyped ==
  ASSUME TypeInv, NEW l \in Players,
         \/ \E i \in DOMAIN garage[l] : Impound(l, i) \/ Release(l, i)
         \/ "items" \in Sections /\ \E i \in DOMAIN rows["items"][l] :
              BlockItems(l, i) \/ UnblockItems(l, i)
  PROVE  TypeInv'
<1>1. ASSUME NEW i \in DOMAIN garage[l], Impound(l, i) \/ Release(l, i) PROVE TypeInv'
  <2>1. GarageTypes'
    BY <1>1, ImpoundIs DEF Impound, Release, TypeInv
  <2>2. tangled' \subseteq Players
    BY <1>1 DEF Impound, Release, history, TypeInv, TypeOK
  <2>3. UNCHANGED <<known, lots, plan, rows, session, job, torn, misled, doubled, exposed>>
    BY <1>1 DEF Impound, Release, history
  <2> QED
    BY <2>1, <2>2, <2>3 DEF GarageTypes, TypeInv, TypeOK, AtFirst
<1>2. ASSUME "items" \in Sections, NEW i \in DOMAIN rows["items"][l],
             BlockItems(l, i) \/ UnblockItems(l, i)
      PROVE  TypeInv'
  <2>0. PICK flag \in BOOLEAN : SetBlocked(l, i, flag)
    BY <1>2 DEF BlockItems, UnblockItems
  <2>1. RowTypes'
    <3>1. rows["items"][l] \in Seq(SectionRows) /\ rows["items"][l][i] \in SectionRows
      BY <1>2, RowNumbers DEF TypeInv
    <3> DEFINE row == [rows["items"][l][i] EXCEPT !.blocked = flag]
               new == [rows["items"][l] EXCEPT ![i] = row]
    <3>2. row \in SectionRows
      BY <3>1 DEF SectionRows
    <3>3. rows' = [rows EXCEPT !["items"][l] = new]
      BY <1>2, <2>0 DEF SetBlocked, TypeInv, TypeOK
    <3> HIDE DEF row
    <3>4. new \in Seq(SectionRows)
      BY <1>2, <3>1, <3>2
    <3> HIDE DEF new
    <3> QED
      BY <1>2, <3>3, <3>4 DEF RowTypes, TypeInv, TypeOK
  <2>2. UNCHANGED <<known, lots, plan, garage, session, job, tangled, torn, misled, doubled>>
    BY <2>0, Zenon DEF SetBlocked
  <2>3. exposed' \in {exposed, exposed \cup {l}}
    BY <2>0 DEF SetBlocked
  <2>4. exposed' \subseteq Players
    BY <2>3 DEF TypeInv, TypeOK
  <2> QED
    BY <2>1, <2>2, <2>4 DEF RowTypes, TypeInv, TypeOK, AtFirst
<1> QED
  BY <1>1, <1>2

\* Every step keeps the types.
LEMMA TypeStep == TypeInv /\ [Next]_vars => TypeInv'
<1> SUFFICES ASSUME TypeInv, [Next]_vars PROVE TypeInv'
  OBVIOUS
<1>1. ASSUME NEW s \in Sessions, NEW l \in Players, Login(s, l) PROVE TypeInv'
  BY <1>1, LoginTyped
<1>2. ASSUME NEW s \in Sessions, NEW sec \in Sections, NEW v \in Values, Play(s, sec, v)
      PROVE  TypeInv'
  BY <1>2, PlayTyped
<1>3. ASSUME NEW s \in Sessions, Leave(s) PROVE TypeInv'
  BY <1>3, LeaveTyped
<1>4. ASSUME NEW s \in Sessions, NEW some \in BOOLEAN, NEW cars \in CarLists,
             StartSave(s, some, cars)
      PROVE  TypeInv'
  BY <1>4, StartSaveTyped
<1>5. CASE SaveStep
  BY <1>5, SaveAccountTyped, SaveSectionTyped, PassTyped, SaveCarTyped, SaveOverTyped, Zenon
     DEF SaveStep
<1>6. CASE Crash
  BY <1>6, SaveOverTyped
<1>7. ASSUME NEW l \in Players, NEW a \in Bays, NEW b \in Bays,
             SwapCars(l, a, b) \/ MoveCar(l, a, b) \/ RemoveCar(l, b)
      PROVE  TypeInv'
  BY <1>7, RequestsTyped
<1>8. ASSUME NEW l \in Players,
             \/ \E i \in DOMAIN garage[l] : Impound(l, i) \/ Release(l, i)
             \/ "items" \in Sections /\ \E i \in DOMAIN rows["items"][l] :
                  BlockItems(l, i) \/ UnblockItems(l, i)
      PROVE  TypeInv'
  BY <1>8, AdministratorTyped
<1>9. CASE UNCHANGED vars
  BY <1>9 DEF vars, tables, history, TypeInv, TypeOK, AtFirst
<1> QED
  BY <1>1, <1>2, <1>3, <1>4, <1>5, <1>6, <1>7, <1>8, <1>9, Zenon DEF Next

LEMMA TypeInvariant == Spec => []TypeInv
<1>1. Init => TypeInv
  BY TypeInit DEF TypeInv, Init, NoJob, AtFirst
<1> QED
  BY <1>1, TypeStep, PTL DEF Spec

\* The variables have their types; in particular a save never reads behind its cars.
THEOREM TypeCorrect == Spec => []TypeOK
<1>1. TypeInv => TypeOK
  BY DEF TypeInv
<1> QED
  BY <1>1, TypeInvariant, PTL

-----------------------------------------------------------------------------
(* The garages.                                                            *)

\* What a step does to the garages: nothing, or what one of these actions does.
LEMMA GarageStep ==
  ASSUME [Next]_vars
  PROVE  \/ garage' = garage /\ tangled' = tangled
         \/ SaveCar
         \/ \E l \in Players, a, b \in Bays : SwapCars(l, a, b) \/ MoveCar(l, a, b)
         \/ \E l \in Players, b \in Bays : RemoveCar(l, b)
         \/ \E l \in Players : \E i \in DOMAIN garage[l] : Impound(l, i) \/ Release(l, i)
<1>1. ASSUME SaveStep, ~SaveCar PROVE garage' = garage /\ tangled' = tangled
  BY <1>1 DEF SaveStep, SaveAccount, SaveSection, PassOver, SaveGarages, NoMoreCars, EndSave,
     tables, history
<1> QED
  BY <1>1, Zenon DEF Next, vars, tables, history, Login, Play, Leave, StartSave, Crash,
     BlockItems, UnblockItems, SetBlocked

\* No save changes an impounded car.
LEMMA ImpoundedStep ==
  ASSUME TypeOK, [Next]_vars, job.step # "idle",
         NEW l \in Players, NEW i \in DOMAIN garage[l], garage[l][i].impounded
  PROVE  i \in DOMAIN garage'[l] /\ garage'[l][i] = garage[l][i]
<1>2. CASE SaveCar
  <2>1. job.player \in Players /\ job.cars[job.at].bay \in Bays /\ job.cars[job.at].car \in Cars
    BY <1>2, CarSaved
  <2>2. i \notin InBay(job.player, job.cars[job.at].bay) \/ l # job.player
    BY DEF InBay, Shown
  <2>3. garage \in [Players -> Seq(CarRows)]
    BY DEF TypeOK
  <2> DEFINE q == job.player
             b == job.cars[job.at].bay
             c == job.cars[job.at].car
  <2>4. \/ garage' = garage
        \/ garage' = [garage EXCEPT ![q] = Replaced(q, b, c)]
        \/ garage' = [garage EXCEPT ![q] = Added(q, b, c)]
    BY <1>2, SaveCarIs, Zenon
  <2>5. q \in Players /\ b \in Bays /\ c \in Cars /\ (i \notin InBay(q, b) \/ l # q)
    BY <2>1, <2>2
  <2> HIDE DEF q, b, c
  <2>6. CASE l = q
    <3>1. i \in DOMAIN Replaced(l, b, c) /\ Replaced(l, b, c)[i] = garage[l][i]
      BY <2>5, <2>6, ReplacedIs
    <3>2. i \in DOMAIN Added(l, b, c) /\ Added(l, b, c)[i] = garage[l][i]
      <4>1. /\ DOMAIN Added(l, b, c) = DOMAIN garage[l] \cup {Len(garage[l]) + 1}
            /\ \A j \in DOMAIN garage[l] : Added(l, b, c)[j] = garage[l][j]
        BY <2>5, AddedIs, Zenon
      <4> QED
        BY <4>1
    <3> QED
      BY <2>3, <2>4, <2>6, <3>1, <3>2
  <2>7. CASE l # q
    BY <2>3, <2>4, <2>7
  <2> QED
    BY <2>6, <2>7
<1>3. CASE garage' = garage
  BY <1>3
<1> QED
  BY <1>2, <1>3, GarageStep, Zenon DEF SwapCars, MoveCar, RemoveCar, Impound, Release

\* A save changes no impounded car, not even one in a bay that it writes.
THEOREM ImpoundedKept == Spec => ImpoundedUntouched
<1>1. TypeOK /\ [Next]_vars =>
        (job.step # "idle" =>
           \A l \in Players : \A i \in DOMAIN garage[l] : garage[l][i].impounded =>
             i \in DOMAIN garage'[l] /\ garage'[l][i] = garage[l][i])
  BY ImpoundedStep, Zenon
<1> QED
  BY <1>1, TypeCorrect, PTL DEF Spec, ImpoundedUntouched

-----------------------------------------------------------------------------
\* The shown rows of some rows are in bays of their own.
OneEach(rs) ==
  \A i, j \in DOMAIN rs :
    ~rs[i].impounded /\ ~rs[j].impounded /\ rs[i].bay = rs[j].bay => i = j

LEMMA OneEachIs == BaysHoldOneCar <=> \A l \in Players \ tangled : OneEach(garage[l])
  BY DEF BaysHoldOneCar, OneEach, Shown

LEMMA SavedInOwnBay ==
  ASSUME TypeOK, NEW l \in Players, NEW b \in Bays, NEW c \in Cars, OneEach(garage[l])
  PROVE  /\ OneEach(Replaced(l, b, c))
         /\ InBay(l, b) = {} => OneEach(Added(l, b, c))
<1>1. OneEach(Replaced(l, b, c))
  BY ReplacedIs DEF OneEach
<1>2. ASSUME InBay(l, b) = {} PROVE OneEach(Added(l, b, c))
  <2>1. \A i \in DOMAIN garage[l] : garage[l][i].impounded \/ garage[l][i].bay # b
    BY <1>2 DEF InBay, Shown
  <2> DEFINE new == Added(l, b, c)
             last == Len(garage[l]) + 1
  <2>2. /\ DOMAIN new = DOMAIN garage[l] \cup {last} /\ last \notin DOMAIN garage[l]
        /\ new[last] = [bay |-> b, car |-> c, impounded |-> FALSE]
        /\ \A i \in DOMAIN garage[l] : new[i] = garage[l][i]
    BY AddedIs, Zenon
  <2> HIDE DEF new, last
  <2>3. new[last].bay = b
    BY <2>2
  <2>4. OneEach(new)
    BY <2>1, <2>2, <2>3 DEF OneEach
  <2> QED
    BY <2>4 DEF new
<1> QED
  BY <1>1, <1>2

LEMMA MovedToOwnBay ==
  ASSUME TypeOK, NEW l \in Players, NEW a \in Bays, NEW b \in Bays, OneEach(garage[l]),
         \/ garage' = Rebay(l, Swapped(a, b))
         \/ garage' = Rebay(l, Moved(a, b)) /\ (a = b \/ InBay(l, a) = {} \/ InBay(l, b) = {})
  PROVE  OneEach(garage'[l])
<1>0. \A i \in DOMAIN garage[l] : garage[l][i].bay \in Bays
  BY RowNumbers DEF CarRows
<1>1. CASE garage' = Rebay(l, Swapped(a, b))
  <2>1. /\ DOMAIN garage'[l] = DOMAIN garage[l]
        /\ \A i \in DOMAIN garage[l] : /\ garage'[l][i].bay = Swapped(a, b)[garage[l][i].bay]
                                       /\ garage'[l][i].impounded = garage[l][i].impounded
    BY <1>1, RebayIs, BaysPermuted
  <2>2. \A c, d \in Bays : Swapped(a, b)[c] = Swapped(a, b)[d] => c = d
    BY DEF Swapped
  <2> QED
    BY <1>0, <2>1, <2>2 DEF OneEach
<1>2. CASE garage' = Rebay(l, Moved(a, b)) /\ (a = b \/ InBay(l, a) = {} \/ InBay(l, b) = {})
  <2>1. /\ DOMAIN garage'[l] = DOMAIN garage[l]
        /\ \A i \in DOMAIN garage[l] : /\ garage'[l][i].bay = Moved(a, b)[garage[l][i].bay]
                                       /\ garage'[l][i].impounded = garage[l][i].impounded
    BY <1>2, RebayIs, BaysPermuted
  <2>2. \A i, j \in DOMAIN garage[l] :
          ~garage[l][i].impounded /\ ~garage[l][j].impounded =>
            ~(garage[l][i].bay = a /\ garage[l][j].bay = b) \/ a = b
    BY <1>2 DEF InBay, Shown
  <2>3. \A c, d \in Bays : Moved(a, b)[c] = Moved(a, b)[d] =>
          c = d \/ (c = a /\ d = b) \/ (c = b /\ d = a)
    BY DEF Moved
  <2> QED
    BY <1>0, <2>1, <2>2, <2>3 DEF OneEach
<1> QED
  BY <1>1, <1>2

LEMMA LeftInOwnBay ==
  ASSUME TypeOK, NEW l \in Players, NEW b \in Bays, OneEach(garage[l]), RemoveCar(l, b)
  PROVE  OneEach(garage'[l])
<1> DEFINE left == {i \in DOMAIN garage[l] : garage[l][i].bay # b}
<1>1. PICK old \in Bijection(DOMAIN garage'[l], left) :
        \A i \in DOMAIN garage'[l] : garage'[l][i] = garage[l][old[i]]
  BY RemoveCarIs
<1>2. \A i, j \in DOMAIN garage'[l] : old[i] = old[j] => i = j
  BY <1>1 DEF Bijection, Injection, IsInjective
<1>3. \A i \in DOMAIN garage'[l] : old[i] \in DOMAIN garage[l]
  BY <1>1 DEF Bijection, Injection
<1> QED
  BY <1>1, <1>2, <1>3 DEF OneEach

LEMMA OneCarStep == TypeOK /\ BaysHoldOneCar /\ [Next]_vars => BaysHoldOneCar'
<1> SUFFICES ASSUME TypeOK, BaysHoldOneCar, [Next]_vars, NEW p \in Players, p \notin tangled'
             PROVE  OneEach(garage'[p])
  <2>1. BaysHoldOneCar' <=> \A l \in Players \ tangled' : OneEach(garage'[l])
    BY DEF BaysHoldOneCar, OneEach, Shown
  <2> QED
    BY <2>1
<1>0. ASSUME NEW l \in Players, l \notin tangled PROVE OneEach(garage[l])
  BY <1>0, OneEachIs
<1>g. garage \in [Players -> Seq(CarRows)]
  BY DEF TypeOK
<1>1. CASE garage' = garage /\ tangled' = tangled
  BY <1>0, <1>1
<1>2. CASE SaveCar
  <2>1. job.player \in Players /\ job.cars[job.at].bay \in Bays /\ job.cars[job.at].car \in Cars
    BY <1>2, CarSaved
  <2>2. p \notin tangled
    BY <1>2, SaveCarIs
  <2> QED
    BY <1>0, <1>2, <1>g, <2>1, <2>2, SaveCarIs, SavedInOwnBay
<1>3. ASSUME NEW l \in Players, NEW a \in Bays, NEW b \in Bays,
             SwapCars(l, a, b) \/ MoveCar(l, a, b)
      PROVE  OneEach(garage'[p])
  <2>1. \/ garage' = Rebay(l, Swapped(a, b)) \/ garage' = Rebay(l, Moved(a, b))
    BY <1>3 DEF SwapCars, MoveCar
  <2>2. p \notin tangled
    BY <1>3 DEF SwapCars, MoveCar, history
  <2>3. CASE p = l
    <3>1. \/ garage' = Rebay(l, Swapped(a, b))
          \/ garage' = Rebay(l, Moved(a, b)) /\ (a = b \/ InBay(l, a) = {} \/ InBay(l, b) = {})
      BY <1>3, <2>3 DEF SwapCars, MoveCar
    <3> QED
      BY <1>0, <2>2, <2>3, <3>1, MovedToOwnBay
  <2>4. CASE p # l
    BY <1>0, <2>1, <2>2, <2>4, RebayIs, BaysPermuted
  <2> QED
    BY <2>3, <2>4
<1>4. ASSUME NEW l \in Players, NEW b \in Bays, RemoveCar(l, b) PROVE OneEach(garage'[p])
  <2>1. p \notin tangled
    BY <1>4 DEF RemoveCar, history
  <2> QED
    BY <1>0, <1>4, <2>1, LeftInOwnBay, RemoveCarIs
<1>5. ASSUME NEW l \in Players, NEW i \in DOMAIN garage[l], Impound(l, i) \/ Release(l, i)
      PROVE  OneEach(garage'[p])
  <2>1. p \notin tangled
    BY <1>5 DEF Impound, Release, history
  <2>2. CASE p = l /\ Impound(l, i)
    <3>1. garage' = [garage EXCEPT ![l][i].impounded = TRUE]
      BY <2>2 DEF Impound
    <3> QED
      BY <1>0, <2>1, <2>2, <3>1, ImpoundIs DEF OneEach
  <2>3. CASE p = l /\ Release(l, i)
    <3>1. garage' = [garage EXCEPT ![l][i].impounded = FALSE]
      BY <2>3 DEF Release
    <3>2. \A j \in DOMAIN garage[l] :
            ~garage[l][j].impounded => garage[l][j].bay # garage[l][i].bay
      BY <2>3 DEF Release, InBay, Shown
    <3> QED
      BY <1>0, <2>1, <2>3, <3>1, <3>2, ImpoundIs DEF OneEach
  <2>4. CASE p # l
    <3>1. \E flag \in BOOLEAN : garage' = [garage EXCEPT ![l][i].impounded = flag]
      BY <1>5 DEF Impound, Release
    <3> QED
      BY <1>0, <2>1, <2>4, <3>1, ImpoundIs
  <2> QED
    BY <1>5, <2>2, <2>3, <2>4
<1> QED
  BY <1>1, <1>2, <1>3, <1>4, <1>5, GarageStep

\* Every bay shows one car at most, of the players whose cars were never put beside
\* another by a query that failed, or by a move or release into an occupied bay.
THEOREM OneCarPerBay == Spec => []BaysHoldOneCar
<1>1. Init => BaysHoldOneCar
  BY DEF Init, BaysHoldOneCar, Shown
<1> QED
  BY <1>1, OneCarStep, TypeCorrect, PTL DEF Spec

-----------------------------------------------------------------------------
(* The account and its plan of garages.                                    *)

\* Between its two statements a save has stored what it says of the garages, or failed.
LockInv ==
  /\ LockedOutOnlyByTornSave
  /\ job.step \in {"rival", "garages"} =>
       job.player \in torn \/ lots[job.player] = job.lots

\* Steps that leave the saves and the account alone.
Aside ==
  \/ \E s \in Sessions :
       \/ \E l \in Players : Login(s, l)
       \/ \E sec \in Sections, v \in Values : Play(s, sec, v)
       \/ Leave(s)
  \/ \E l \in Players :
       \/ \E a, b \in Bays : SwapCars(l, a, b) \/ MoveCar(l, a, b)
       \/ \E b \in Bays : RemoveCar(l, b)
       \/ \E i \in DOMAIN garage[l] : Impound(l, i) \/ Release(l, i)
       \/ "items" \in Sections /\ \E i \in DOMAIN rows["items"][l] :
            BlockItems(l, i) \/ UnblockItems(l, i)
  \/ UNCHANGED vars

LEMMA StepKinds ==
  ASSUME [Next]_vars
  PROVE  \/ Aside \/ Crash \/ EndSave \/ SaveAccount \/ SaveGarages \/ SaveCar \/ NoMoreCars
         \/ \E s \in Sessions, some \in BOOLEAN, cars \in CarLists : StartSave(s, some, cars)
         \/ \E sec \in Sections : SaveSection(sec)
         \/ \E sec \in AllSections \ Sections : PassOver(sec)
  BY Zenon DEF Next, SaveStep, Aside

LEMMA AsideIs == Aside => UNCHANGED <<known, lots, plan, job, torn>>
  BY DEF Aside, vars, tables, history, Login, Play, Leave, SwapCars, MoveCar, RemoveCar, Impound,
     Release, BlockItems, UnblockItems, SetBlocked

LEMMA LockStep == TypeInv /\ LockInv /\ [Next]_vars => LockInv'
<1> SUFFICES ASSUME TypeInv, LockInv, [Next]_vars PROVE LockInv'
  OBVIOUS
<1>0. /\ job \in Jobs /\ job.player \in Players /\ job.lots \in BOOLEAN
      /\ lots \in [Players -> BOOLEAN] /\ plan \in [Players -> BOOLEAN] /\ TypeOK
  BY DEF TypeInv, TypeOK, Jobs
<1>1. CASE Aside
  BY <1>1, AsideIs DEF LockInv, LockedOutOnlyByTornSave, Admitted
<1>2. CASE Crash
  BY <1>2, NoJobTyped DEF Crash, tables, LockInv, LockedOutOnlyByTornSave, Admitted
<1>3. CASE EndSave
  BY <1>3, NoJobTyped DEF EndSave, tables, history, LockInv, LockedOutOnlyByTornSave, Admitted
<1>4. ASSUME NEW s \in Sessions, NEW some, NEW cars, StartSave(s, some, cars) PROVE LockInv'
  <2>1. job.step = "idle" /\ job'.step = "account" /\ UNCHANGED <<lots, plan, torn>>
    BY <1>4 DEF StartSave, tables, history
  <2> QED
    BY <2>1 DEF LockInv, LockedOutOnlyByTornSave, Admitted
<1>5. CASE SaveAccount
  <2>1. PICK ok \in BOOLEAN :
          /\ IF ok THEN lots' = [lots EXCEPT ![job.player] = job.lots] ELSE lots' = lots
          /\ Finish(ok)
    BY <1>5 DEF SaveAccount, Outcomes
  <2>2. job.step = "account" /\ plan' = plan
    BY <1>5 DEF SaveAccount
  <2>3. /\ job'.step = "rival" /\ job'.player = job.player /\ job'.lots = job.lots
        /\ torn' = IF ok THEN torn ELSE torn \cup {job.player}
    BY <1>0, <2>1, <2>2, FinishTyped DEF After
  <2>4. LockedOutOnlyByTornSave'
    BY <1>0, <2>1, <2>2, <2>3 DEF LockInv, LockedOutOnlyByTornSave, Admitted
  <2>5. job'.player \in torn' \/ lots'[job'.player] = job'.lots
    BY <1>0, <2>1, <2>3
  <2> QED
    BY <2>4, <2>5 DEF LockInv
<1>6. ASSUME NEW sec \in AllSections, SaveSection(sec) \/ PassOver(sec) PROVE LockInv'
  <2>1. PICK ok \in BOOLEAN : Finish(ok)
    BY <1>6 DEF SaveSection, PassOver, Outcomes
  <2>2. job.step \in AllSections /\ UNCHANGED <<lots, plan>>
    BY <1>6 DEF SaveSection, PassOver, tables
  <2>3. /\ job'.step = After[job.step] /\ job'.player = job.player /\ job'.lots = job.lots
        /\ torn' = IF ok THEN torn ELSE torn \cup {job.player}
    BY <1>0, <2>1, <2>2, FinishTyped
  <2>4. \/ job.step = "rival" /\ job'.step = "garages"
        \/ job.step \notin {"rival", "garages"} /\ job'.step \notin {"rival", "garages"}
    BY <2>2, <2>3 DEF After, AllSections
  <2>5. torn \subseteq torn'
    BY <2>3
  <2> QED
    BY <2>2, <2>3, <2>4, <2>5 DEF LockInv, LockedOutOnlyByTornSave, Admitted
<1>7. CASE SaveGarages
  <2>1. PICK ok \in BOOLEAN :
          /\ Finish(ok)
          /\ plan' = IF job.lots /\ ok THEN [plan EXCEPT ![job.player] = TRUE] ELSE plan
    BY <1>0, <1>7 DEF SaveGarages, Outcomes
  <2>2. job.step = "garages" /\ lots' = lots
    BY <1>7 DEF SaveGarages
  <2>3. job'.step = "cars" /\ torn' = IF ok THEN torn ELSE torn \cup {job.player}
    BY <1>0, <2>1, <2>2, FinishTyped DEF After
  <2>4. \A l \in Players : l # job.player => plan'[l] = plan[l]
    BY <1>0, <2>1
  <2>5. job.player \in torn' \/ (lots[job.player] => plan'[job.player])
    BY <1>0, <2>1, <2>2, <2>3 DEF LockInv
  <2>6. torn \subseteq torn'
    BY <2>3
  <2> QED
    BY <2>2, <2>3, <2>4, <2>5, <2>6 DEF LockInv, LockedOutOnlyByTornSave, Admitted
<1>8. CASE SaveCar \/ NoMoreCars
  <2>1. job.step = "cars" /\ UNCHANGED <<lots, plan>>
    BY <1>8 DEF SaveCar, NoMoreCars, tables
  <2>2. job'.step \in {"cars", "items"} /\ torn \subseteq torn'
    <3>1. CASE SaveCar
      BY <1>0, <3>1 DEF SaveCar, Jobs
    <3>2. CASE NoMoreCars
      <4>1. PICK ok \in BOOLEAN : Finish(ok)
        BY <3>2 DEF NoMoreCars
      <4> QED
        BY <1>0, <2>1, <4>1, FinishTyped DEF After
    <3> QED
      BY <1>8, <3>1, <3>2
  <2> QED
    BY <2>1, <2>2 DEF LockInv, LockedOutOnlyByTornSave, Admitted
<1> QED
  BY <1>1, <1>2, <1>3, <1>4, <1>5, <1>6, <1>7, <1>8, StepKinds, NothingTyped, Zenon

\* A player whose login fails for a plan of garages that is not there had a statement
\* of a save fail, or is being saved.
THEOREM LockedOutForACause == Spec => []LockedOutOnlyByTornSave
<1>1. Init => LockInv
  <2> SUFFICES ASSUME Init PROVE LockInv
    OBVIOUS
  <2>1. job.step = "idle" /\ \A l \in Players : ~lots[l]
    BY NoJobTyped DEF Init
  <2> QED
    BY <2>1 DEF LockInv, LockedOutOnlyByTornSave, Admitted
<1>2. LockInv => LockedOutOnlyByTornSave
  BY DEF LockInv
<1> QED
  BY <1>1, <1>2, LockStep, TypeInvariant, PTL DEF Spec

-----------------------------------------------------------------------------
(* What a save without failures leaves, as its steps are done one by one.   *)

\* How the save that is being executed changes: it is over or begins, or goes on to its
\* next step, or to its next car; and it is clean only if it was.
LEMMA SaveGoesOn ==
  ASSUME TypeInv, [Next]_vars
  PROVE  \/ Aside /\ job' = job
         \/ job'.step \in {"idle", "account"}
         \/ /\ job'.player = job.player /\ job'.parts = job.parts /\ job'.lots = job.lots
            /\ job'.cars = job.cars /\ (job'.clean => job.clean)
            /\ \/ SaveAccount /\ job'.step = "rival" /\ job'.at = job.at
               \/ SaveGarages /\ job'.step = "cars" /\ job'.at = job.at
               \/ SaveCar /\ job'.step = "cars" /\ job'.at = job.at + 1
               \/ NoMoreCars /\ job'.step = "items" /\ job'.at = job.at
               \/ /\ \E sec \in AllSections :
                       \/ sec \in Sections /\ SaveSection(sec)
                       \/ sec \notin Sections /\ PassOver(sec)
                  /\ job'.step = After[job.step] /\ job.step \in AllSections /\ job'.at = job.at
<1>0. job \in Jobs /\ TypeOK
  BY DEF TypeInv, TypeOK
<1> DEFINE Same == /\ job'.player = job.player /\ job'.parts = job.parts /\ job'.lots = job.lots
                   /\ job'.cars = job.cars /\ (job'.clean => job.clean)
<1>1. ASSUME NEW ok \in BOOLEAN, Finish(ok),
             job.step \in {"account", "garages", "cars"} \cup AllSections
      PROVE  Same /\ job'.at = job.at /\ job'.step = After[job.step]
  BY <1>0, <1>1, FinishTyped
<1>2. CASE Aside
  BY <1>2, AsideIs
<1>3. CASE Crash \/ EndSave
  BY <1>3, NoJobTyped DEF Crash, EndSave
<1>4. ASSUME NEW s \in Sessions, NEW some, NEW cars, StartSave(s, some, cars)
      PROVE  job'.step = "account"
  BY <1>4 DEF StartSave
<1>5. CASE SaveAccount
  <2>1. job.step = "account" /\ \E ok \in BOOLEAN : Finish(ok)
    BY <1>5 DEF SaveAccount, Outcomes
  <2> QED
    BY <1>1, <1>5, <2>1 DEF After
<1>6. CASE SaveGarages
  <2>1. job.step = "garages" /\ \E ok \in BOOLEAN : Finish(ok)
    BY <1>6 DEF SaveGarages, Outcomes
  <2> QED
    BY <1>1, <1>6, <2>1 DEF After
<1>7. CASE NoMoreCars
  <2>1. job.step = "cars" /\ \E ok \in BOOLEAN : Finish(ok)
    BY <1>7 DEF NoMoreCars
  <2> QED
    BY <1>1, <1>7, <2>1 DEF After
<1>8. CASE SaveCar
  <2>1. /\ job.step = "cars"
        /\ \E found, ok \in BOOLEAN : job' = [job EXCEPT !.at = @ + 1, !.clean = @ /\ found /\ ok]
    BY <1>8 DEF SaveCar, Outcomes
  <2> QED
    BY <1>0, <1>8, <2>1 DEF Jobs
<1>9. ASSUME NEW sec \in AllSections, SaveSection(sec) \/ PassOver(sec)
      PROVE  Same /\ job'.at = job.at /\ job'.step = After[job.step] /\ job.step \in AllSections
  <2>1. job.step \in AllSections /\ \E ok \in BOOLEAN : Finish(ok)
    BY <1>9 DEF SaveSection, PassOver, Outcomes
  <2> QED
    BY <1>1, <2>1
<1> DEFINE Saves == \E sec \in AllSections : \/ sec \in Sections /\ SaveSection(sec)
                                             \/ sec \notin Sections /\ PassOver(sec)
<1>10. ASSUME Saves
       PROVE  /\ Same /\ Saves /\ job'.step = After[job.step] /\ job.step \in AllSections
              /\ job'.at = job.at
  BY <1>9, <1>10, Zenon
<1>11. ASSUME NEW sec \in Sections, SaveSection(sec) PROVE Saves
  BY <1>11, NothingTyped
<1>12. ASSUME NEW sec \in AllSections \ Sections, PassOver(sec) PROVE Saves
  BY <1>12
<1> HIDE DEF Saves
<1>13. CASE Saves
  BY <1>10, <1>13 DEF Saves
<1> QED
  BY <1>2, <1>3, <1>4, <1>5, <1>6, <1>7, <1>8, <1>11, <1>12, <1>13, StepKinds, Zenon

\* A clean save has stored the account, and then the plan of garages.
AccountClean ==
  job.clean /\ job.step \notin {"idle", "account"} =>
    /\ known[job.player] /\ lots[job.player] = job.lots
    /\ job.step \notin {"rival", "garages"} => Admitted(job.player)

LEMMA AccountCleanStep == TypeInv /\ AccountClean /\ [Next]_vars => AccountClean'
<1> SUFFICES ASSUME TypeInv, AccountClean, [Next]_vars PROVE AccountClean'
  OBVIOUS
<1>0. /\ job \in Jobs /\ job.player \in Players /\ job.lots \in BOOLEAN /\ TypeOK
      /\ known \in [Players -> BOOLEAN] /\ lots \in [Players -> BOOLEAN]
      /\ plan \in [Players -> BOOLEAN]
  BY DEF TypeInv, TypeOK, Jobs
<1>1. CASE Aside /\ job' = job
  BY <1>1, AsideIs DEF AccountClean, Admitted
<1>2. CASE job'.step \in {"idle", "account"}
  BY <1>2 DEF AccountClean
<1>3. CASE SaveAccount /\ job'.step = "rival" /\ job'.player = job.player /\ job'.lots = job.lots
  <2>1. PICK ok \in BOOLEAN :
          /\ ok => /\ known' = [known EXCEPT ![job.player] = TRUE]
                   /\ lots' = [lots EXCEPT ![job.player] = job.lots]
          /\ Finish(ok)
    BY <1>3 DEF SaveAccount, Outcomes
  <2>2. job'.clean => ok
    BY <1>0, <1>3, <2>1, FinishTyped DEF SaveAccount
  <2> QED
    BY <1>0, <1>3, <2>1, <2>2 DEF AccountClean
<1>4. CASE /\ SaveGarages /\ job'.step = "cars" /\ job'.player = job.player
           /\ job'.lots = job.lots /\ (job'.clean => job.clean)
  <2>1. PICK ok \in BOOLEAN :
          /\ plan' = IF job.lots /\ ok THEN [plan EXCEPT ![job.player] = TRUE] ELSE plan
          /\ Finish(ok)
    BY <1>0, <1>4 DEF SaveGarages, Outcomes
  <2>2. job'.clean => ok
    BY <1>0, <1>4, <2>1, FinishTyped DEF SaveGarages
  <2>3. job.step = "garages" /\ UNCHANGED <<known, lots>>
    BY <1>4 DEF SaveGarages
  <2>4. job'.clean => known[job.player] /\ lots[job.player] = job.lots
    BY <1>4, <2>3 DEF AccountClean
  <2>5. job'.clean /\ lots[job.player] => plan'[job.player]
    BY <1>0, <2>1, <2>2, <2>4
  <2> QED
    BY <1>4, <2>3, <2>4, <2>5 DEF AccountClean, Admitted
<1>5. CASE /\ job'.player = job.player /\ job'.lots = job.lots /\ (job'.clean => job.clean)
           /\ \/ SaveCar /\ job'.step = "cars"
              \/ NoMoreCars /\ job'.step = "items"
              \/ /\ \E sec \in AllSections : SaveSection(sec) \/ PassOver(sec)
                 /\ job'.step = After[job.step] /\ job.step \in AllSections
  <2>1. UNCHANGED <<known, lots, plan>>
    BY <1>5 DEF SaveCar, NoMoreCars, SaveSection, PassOver, tables
  <2>2. /\ job.step \notin {"idle", "account"}
        /\ job'.step \notin {"rival", "garages"} => job.step \notin {"rival", "garages"}
    <3>1. CASE SaveCar \/ NoMoreCars
      BY <3>1 DEF SaveCar, NoMoreCars
    <3>2. CASE job'.step = After[job.step] /\ job.step \in AllSections
      BY <3>2 DEF After, AllSections
    <3> QED
      BY <1>5, <3>1, <3>2
  <2> QED
    BY <1>5, <2>1, <2>2 DEF AccountClean, Admitted
<1> QED
  BY <1>1, <1>2, <1>3, <1>4, <1>5, SaveGoesOn

-----------------------------------------------------------------------------
\* What UPDATE makes of the open rows of a section, and what INSERT adds to it.
Updated(sec, l, v) ==
  [i \in DOMAIN rows[sec][l] |->
     IF i \in Open(sec, l) THEN [rows[sec][l][i] EXCEPT !.val = v] ELSE rows[sec][l][i]]

Inserted(sec, l, v) == Append(rows[sec][l], [val |-> v, blocked |-> FALSE])

\* The open rows among some rows.
OpenIn(rs) == {i \in DOMAIN rs : ~rs[i].blocked}

\* The open rows all hold a value, and there is one; then it is what is stored.
Says(rs, v) == OpenIn(rs) # {} /\ \A i \in OpenIn(rs) : rs[i].val = v

LEMMA SaysStored ==
  ASSUME TypeOK, NEW sec \in Sections, NEW l \in Players, NEW v, Says(rows[sec][l], v)
  PROVE  Stored(sec, l) = v
<1>1. Open(sec, l) = OpenIn(rows[sec][l])
  BY DEF Open, OpenIn
<1> QED
  BY <1>1, StoredIs DEF Says

LEMMA UpdatedIs ==
  ASSUME TypeOK, NEW sec \in Sections, NEW l \in Players, NEW v \in Contents
  PROVE  /\ OpenIn(Updated(sec, l, v)) = Open(sec, l)
         /\ \A i \in Open(sec, l) : Updated(sec, l, v)[i].val = v
<1>1. \A i \in DOMAIN rows[sec][l] : rows[sec][l][i] \in SectionRows
  BY RowNumbers
<1>2. \A r \in SectionRows : /\ [r EXCEPT !.val = v].val = v
                             /\ [r EXCEPT !.val = v].blocked = r.blocked
  BY DEF SectionRows
<1>3. /\ DOMAIN Updated(sec, l, v) = DOMAIN rows[sec][l]
      /\ \A i \in DOMAIN rows[sec][l] :
           /\ Updated(sec, l, v)[i].blocked = rows[sec][l][i].blocked
           /\ i \in Open(sec, l) => Updated(sec, l, v)[i].val = v
  BY <1>1, <1>2 DEF Updated
<1> QED
  BY <1>3 DEF Open, OpenIn

LEMMA InsertedIs ==
  ASSUME TypeOK, NEW sec \in Sections, NEW l \in Players, NEW v \in Contents
  PROVE  LET last == Len(rows[sec][l]) + 1 IN
         /\ OpenIn(Inserted(sec, l, v)) = Open(sec, l) \cup {last}
         /\ last \notin Open(sec, l)
         /\ Inserted(sec, l, v)[last].val = v
<1> DEFINE last == Len(rows[sec][l]) + 1
           row == [val |-> v, blocked |-> FALSE]
           new == Inserted(sec, l, v)
<1>1. /\ rows[sec][l] \in Seq(SectionRows) /\ Len(rows[sec][l]) \in Nat
      /\ DOMAIN rows[sec][l] = 1 .. Len(rows[sec][l])
  BY RowNumbers
<1>2. row \in SectionRows /\ row.val = v /\ ~row.blocked /\ new = Append(rows[sec][l], row)
  BY DEF SectionRows, Inserted
<1> HIDE DEF row, new
<1>3. /\ DOMAIN new = DOMAIN rows[sec][l] \cup {last} /\ last \notin DOMAIN rows[sec][l]
      /\ new[last] = row /\ \A i \in DOMAIN rows[sec][l] : new[i] = rows[sec][l][i]
  BY <1>1, <1>2
<1> HIDE DEF last
<1>4. OpenIn(new) = Open(sec, l) \cup {last} /\ last \notin Open(sec, l) /\ new[last].val = v
  BY <1>2, <1>3 DEF OpenIn, Open
<1> QED
  BY <1>4 DEF last, new

\* What the save of a section does to its rows: nothing, an UPDATE of those that are open,
\* or an INSERT; and when it notes no failure, which of them is needed.
LEMMA SaveSectionIs ==
  ASSUME TypeInv, NEW sec \in Sections, SaveSection(sec)
  PROVE  LET l == job.player
             v == job.parts[sec]
         IN
         \/ rows' = rows /\ ~job'.clean /\ l \in torn'
         \/ /\ rows' = [rows EXCEPT ![sec][l] = Updated(sec, l, v)]
            /\ Open(sec, l) # {}
         \/ /\ rows' = [rows EXCEPT ![sec][l] = Inserted(sec, l, v)]
            /\ Open(sec, l) # {} => ~job'.clean /\ l \in torn'
<1>1. job.step \in AllSections /\ TypeOK
  BY NothingTyped DEF SaveSection, TypeInv
<1>2. PICK found \in BOOLEAN, ok \in BOOLEAN :
        /\ rows' = IF ok THEN [rows EXCEPT ![sec][job.player] =
                                 Upsert(sec, job.player, job.parts[sec], found)]
                         ELSE rows
        /\ Finish(found /\ ok)
  BY DEF SaveSection, Outcomes
<1>3. ~(found /\ ok) => ~job'.clean /\ job.player \in torn'
  <2>1. (found /\ ok) \in BOOLEAN
    OBVIOUS
  <2> DEFINE fine == found /\ ok
  <2>2. fine \in BOOLEAN /\ Finish(fine)
    BY <1>2, <2>1
  <2> HIDE DEF fine
  <2>3. ~fine => ~job'.clean /\ job.player \in torn'
    BY <1>1, <2>2, FinishTyped
  <2> QED
    BY <2>3 DEF fine
<1>4. CASE ~ok
  BY <1>2, <1>3, <1>4
<1>5. CASE ok /\ found /\ Open(sec, job.player) # {}
  BY <1>2, <1>5, Zenon DEF Upsert, Updated
<1>6. CASE ok /\ ~(found /\ Open(sec, job.player) # {})
  <2>1. rows' = [rows EXCEPT ![sec][job.player] = Inserted(sec, job.player, job.parts[sec])]
    BY <1>2, <1>6, Zenon DEF Upsert, Inserted
  <2> QED
    BY <1>3, <1>6, <2>1
<1> QED
  BY <1>4, <1>5, <1>6

\* The sections that a save is through with.
Through(sec) ==
  job.step \in CASE sec = "rival" -> {"garages", "cars", "items", "sign", "done"}
                 [] sec = "items" -> {"sign", "done"}
                 [] OTHER -> {"done"}

\* A clean save has stored each of these.
SectionsClean ==
  job.clean => \A sec \in Sections : Through(sec) => Says(rows[sec][job.player], job.parts[sec])

LEMMA SectionSaved ==
  ASSUME TypeInv, NEW sec \in Sections, SaveSection(sec), job'.clean
  PROVE  Says(rows'[sec][job.player], job.parts[sec])
<1> DEFINE l == job.player
           v == job.parts[sec]
<1>0. l \in Players /\ v \in Contents /\ TypeOK
  BY DEF TypeInv, TypeOK, Jobs, Parts
<1>1. \/ rows' = [rows EXCEPT ![sec][l] = Updated(sec, l, v)] /\ Open(sec, l) # {}
      \/ rows' = [rows EXCEPT ![sec][l] = Inserted(sec, l, v)] /\ Open(sec, l) = {}
  BY SaveSectionIs, Zenon
<1> HIDE DEF l, v
<1>2. \/ rows'[sec][l] = Updated(sec, l, v) /\ Open(sec, l) # {}
      \/ rows'[sec][l] = Inserted(sec, l, v) /\ Open(sec, l) = {}
  BY <1>0, <1>1 DEF TypeOK
<1>3. Says(rows'[sec][l], v)
  BY <1>0, <1>2, UpdatedIs, InsertedIs DEF Says
<1> QED
  BY <1>3 DEF l, v

LEMMA OtherRowsKept ==
  ASSUME TypeInv, NEW sec \in Sections, SaveSection(sec),
         NEW other \in Sections, NEW l \in Players, other # sec \/ l # job.player
  PROVE  rows'[other][l] = rows[other][l]
<1>1. \/ rows' = rows
      \/ \E new : rows' = [rows EXCEPT ![sec][job.player] = new]
  BY SaveSectionIs, Zenon
<1> QED
  BY <1>1 DEF TypeInv, TypeOK

LEMMA RowsAside == job.step # "idle" /\ Aside => rows' = rows
  BY DEF Aside, vars, tables, history, Login, Play, Leave, SwapCars, MoveCar, RemoveCar, Impound,
     Release, BlockItems, UnblockItems, SetBlocked

LEMMA SectionsCleanStep == TypeInv /\ SectionsClean /\ [Next]_vars => SectionsClean'
<1> SUFFICES ASSUME TypeInv, SectionsClean, [Next]_vars, job'.clean,
                    NEW sec \in Sections, Through(sec)'
             PROVE  Says(rows'[sec][job'.player], job'.parts[sec])
  BY Zenon DEF SectionsClean, Says, OpenIn
<1>0. sec \in {"rival", "items", "sign"} /\ job.player \in Players
  BY NothingTyped DEF AllSections, TypeInv, TypeOK, Jobs
<1>1. ASSUME job.clean, Through(sec), rows' = rows, job'.player = job.player,
             job'.parts = job.parts
      PROVE  Says(rows'[sec][job'.player], job'.parts[sec])
  BY <1>1 DEF SectionsClean
<1>2. CASE Aside /\ job' = job
  BY <1>0, <1>1, <1>2, RowsAside DEF Through
<1>3. CASE job'.step \in {"idle", "account"}
  BY <1>0, <1>3 DEF Through
<1>4. CASE /\ job'.player = job.player /\ job'.parts = job.parts /\ (job'.clean => job.clean)
           /\ \/ SaveAccount /\ job'.step = "rival"
              \/ SaveGarages /\ job'.step = "cars"
              \/ SaveCar /\ job'.step = "cars"
              \/ NoMoreCars /\ job'.step = "items"
  <2>1. rows' = rows
    BY <1>4 DEF SaveAccount, SaveGarages, SaveCar, NoMoreCars, tables
  <2>2. Through(sec)
    BY <1>0, <1>4 DEF Through, SaveAccount, SaveGarages, SaveCar, NoMoreCars
  <2> QED
    BY <1>1, <1>4, <2>1, <2>2
<1>5. ASSUME job'.player = job.player, job'.parts = job.parts, job'.clean => job.clean,
             NEW at \in AllSections, job'.step = After[job.step],
             \/ at \in Sections /\ SaveSection(at)
             \/ at \notin Sections /\ PassOver(at)
      PROVE  Says(rows'[sec][job'.player], job'.parts[sec])
  <2>1. job.step = at
    BY <1>5 DEF SaveSection, PassOver
  <2>2. Through(sec) \/ sec = at
    <3>1. \/ at = "rival" /\ job'.step = "garages"
          \/ at = "items" /\ job'.step = "sign"
          \/ at = "sign" /\ job'.step = "done"
      BY <1>5, <2>1 DEF After, AllSections
    <3> QED
      BY <1>0, <2>1, <3>1 DEF Through
  <2>3. CASE at \notin Sections /\ PassOver(at)
    <3>1. rows' = rows
      BY <2>3 DEF PassOver, tables
    <3> QED
      BY <1>1, <1>5, <2>2, <2>3, <3>1
  <2>4. CASE SaveSection(at) /\ at \in Sections
    <3>1. CASE sec = at
      BY <1>5, <2>4, <3>1, SectionSaved
    <3>2. CASE sec # at
      <4>1. rows'[sec][job.player] = rows[sec][job.player]
        BY <1>0, <2>4, <3>2, OtherRowsKept
      <4> QED
        BY <1>5, <2>2, <3>2, <4>1 DEF SectionsClean
    <3> QED
      BY <3>1, <3>2
  <2> QED
    BY <1>5, <2>3, <2>4
<1> QED
  BY <1>2, <1>3, <1>4, <1>5, SaveGoesOn

-----------------------------------------------------------------------------
\* The shown rows of a bay among some rows.
BayIn(rs, b) == {i \in DOMAIN rs : ~rs[i].impounded /\ rs[i].bay = b}

\* The bay of this car shows it, and nothing else.
Parked(rs, car) ==
  /\ BayIn(rs, car.bay) # {}
  /\ \A i \in BayIn(rs, car.bay) : rs[i].car = car.car

LEMMA BayIs == \A l, b : InBay(l, b) = BayIn(garage[l], b)
  BY DEF InBay, Shown, BayIn

LEMMA ReplacedParks ==
  ASSUME TypeOK, NEW l \in Players, NEW b \in Bays, NEW c \in Cars
  PROVE  /\ \A d : BayIn(Replaced(l, b, c), d) = InBay(l, d)
         /\ \A i \in InBay(l, b) : Replaced(l, b, c)[i].car = c
         /\ \A i \in DOMAIN garage[l] : i \notin InBay(l, b) =>
              Replaced(l, b, c)[i] = garage[l][i]
<1> DEFINE new == Replaced(l, b, c)
<1>1. /\ DOMAIN new = DOMAIN garage[l]
      /\ \A i \in DOMAIN garage[l] :
           /\ new[i].bay = garage[l][i].bay /\ new[i].impounded = garage[l][i].impounded
           /\ i \notin InBay(l, b) => new[i] = garage[l][i]
           /\ i \in InBay(l, b) => new[i].car = c
  BY ReplacedIs, Zenon
<1>2. \A d : InBay(l, d) \subseteq DOMAIN garage[l]
  BY DEF InBay, Shown
<1> HIDE DEF new
<1>3. \A d : BayIn(new, d) = InBay(l, d)
  BY <1>1 DEF BayIn, InBay, Shown
<1> QED
  BY <1>1, <1>2, <1>3 DEF new

LEMMA AddedParks ==
  ASSUME TypeOK, NEW l \in Players, NEW b \in Bays, NEW c \in Cars
  PROVE  /\ \A d : d # b => BayIn(Added(l, b, c), d) = InBay(l, d)
         /\ InBay(l, b) = {} => \E i : BayIn(Added(l, b, c), b) = {i} /\ Added(l, b, c)[i].car = c
         /\ \A i \in DOMAIN garage[l] : Added(l, b, c)[i] = garage[l][i]
<1> DEFINE new == Added(l, b, c)
           last == Len(garage[l]) + 1
<1>1. /\ DOMAIN new = DOMAIN garage[l] \cup {last} /\ last \notin DOMAIN garage[l]
      /\ new[last] = [bay |-> b, car |-> c, impounded |-> FALSE]
      /\ \A i \in DOMAIN garage[l] : new[i] = garage[l][i]
  BY AddedIs, Zenon
<1> HIDE DEF new, last
<1>2. new[last].bay = b /\ new[last].car = c /\ ~new[last].impounded
  BY <1>1
<1>3. \A d : d # b => BayIn(new, d) = InBay(l, d)
  BY <1>1, <1>2 DEF BayIn, InBay, Shown
<1>4. InBay(l, b) = {} => BayIn(new, b) = {last}
  BY <1>1, <1>2 DEF BayIn, InBay, Shown
<1> QED
  BY <1>1, <1>2, <1>3, <1>4 DEF new

\* The cars that a save is through with, and the last of them for its bay.
SavedCars ==
  IF job.step = "cars" THEN 1 .. job.at - 1
  ELSE IF job.step \in {"items", "sign", "done"} THEN DOMAIN job.cars ELSE {}

LastSaved(k) == \A n \in SavedCars : job.cars[n].bay = job.cars[k].bay => n <= k

CarsClean ==
  job.clean => \A k \in SavedCars : LastSaved(k) => Parked(garage[job.player], job.cars[k])

\* A save of a car without failures parks it, and leaves the other bays alone.
LEMMA CarParked ==
  ASSUME TypeInv, SaveCar, job'.clean
  PROVE  LET l == job.player
             car == job.cars[job.at]
         IN
         /\ Parked(garage'[l], car)
         /\ \A other \in [bay : Bays, car : Cars] :
              other.bay # car.bay /\ Parked(garage[l], other) => Parked(garage'[l], other)
<1> DEFINE l == job.player
           car == job.cars[job.at]
           b == job.cars[job.at].bay
           c == job.cars[job.at].car
<1>0. /\ l \in Players /\ car \in [bay : Bays, car : Cars] /\ b \in Bays /\ c \in Cars /\ TypeOK
      /\ garage \in [Players -> Seq(CarRows)] /\ car.bay = b /\ car.car = c
  BY CarSaved DEF TypeInv, TypeOK
<1>1. PICK found \in BOOLEAN, ok \in BOOLEAN :
        /\ garage' = IF ok THEN [garage EXCEPT ![l] = UpsertCar(l, b, c, found)] ELSE garage
        /\ job' = [job EXCEPT !.at = @ + 1, !.clean = @ /\ found /\ ok]
  BY Zenon DEF SaveCar, Outcomes
<1>2. found /\ ok
  BY <1>1 DEF TypeInv, TypeOK, Jobs
<1>3. \/ InBay(l, b) # {} /\ garage' = [garage EXCEPT ![l] = Replaced(l, b, c)]
      \/ InBay(l, b) = {} /\ garage' = [garage EXCEPT ![l] = Added(l, b, c)]
  BY <1>1, <1>2, Zenon DEF UpsertCar, Replaced, Added
<1> HIDE DEF l, car, b, c
<1>4. \A d : BayIn(garage[l], d) = InBay(l, d)
  BY BayIs
<1>5. CASE InBay(l, b) # {} /\ garage' = [garage EXCEPT ![l] = Replaced(l, b, c)]
  <2>1. garage'[l] = Replaced(l, b, c)
    BY <1>0, <1>5
  <2>2. /\ \A d : BayIn(garage'[l], d) = InBay(l, d)
        /\ \A i \in InBay(l, b) : garage'[l][i].car = c
        /\ \A i \in DOMAIN garage[l] : i \notin InBay(l, b) => garage'[l][i] = garage[l][i]
    BY <1>0, <2>1, ReplacedParks
  <2>3. Parked(garage'[l], car)
    BY <1>0, <1>5, <2>2 DEF Parked
  <2>4. \A d : \A i \in InBay(l, d) : d # b => i \in DOMAIN garage[l] /\ i \notin InBay(l, b)
    BY DEF InBay, Shown
  <2>5. \A other \in [bay : Bays, car : Cars] :
          other.bay # b /\ Parked(garage[l], other) => Parked(garage'[l], other)
    BY <1>4, <2>2, <2>4 DEF Parked
  <2> QED
    BY <1>0, <2>3, <2>5 DEF l, car
<1>6. CASE InBay(l, b) = {} /\ garage' = [garage EXCEPT ![l] = Added(l, b, c)]
  <2>1. garage'[l] = Added(l, b, c)
    BY <1>0, <1>6
  <2>2. /\ \A d : d # b => BayIn(garage'[l], d) = InBay(l, d)
        /\ \E i : BayIn(garage'[l], b) = {i} /\ garage'[l][i].car = c
        /\ \A i \in DOMAIN garage[l] : garage'[l][i] = garage[l][i]
    BY <1>0, <1>6, <2>1, AddedParks
  <2>3. Parked(garage'[l], car)
    BY <1>0, <2>2 DEF Parked
  <2>4. \A d : InBay(l, d) \subseteq DOMAIN garage[l]
    BY DEF InBay, Shown
  <2>5. \A other \in [bay : Bays, car : Cars] :
          other.bay # b /\ Parked(garage[l], other) => Parked(garage'[l], other)
    BY <1>4, <2>2, <2>4 DEF Parked
  <2> QED
    BY <1>0, <2>3, <2>5 DEF l, car
<1> QED
  BY <1>3, <1>5, <1>6

LEMMA GarageAside == job.step # "idle" /\ Aside => garage' = garage
  BY DEF Aside, vars, tables, history, Login, Play, Leave, SwapCars, MoveCar, RemoveCar, Impound,
     Release, BlockItems, UnblockItems, SetBlocked

LEMMA CarsCleanStep == TypeInv /\ CarsClean /\ [Next]_vars => CarsClean'
<1> SUFFICES ASSUME TypeInv, CarsClean, [Next]_vars, job'.clean,
                    NEW k \in SavedCars', LastSaved(k)'
             PROVE  Parked(garage'[job'.player], job'.cars[k])
  BY Zenon DEF CarsClean, Parked, BayIn
<1>0. /\ job \in Jobs /\ job.player \in Players /\ TypeOK
      /\ job.cars \in Seq([bay : Bays, car : Cars]) /\ Len(job.cars) \in Nat
      /\ DOMAIN job.cars = 1 .. Len(job.cars)
  BY DEF TypeInv, TypeOK, Jobs
<1>1. ASSUME job.clean, SavedCars' = SavedCars, garage' = garage,
             job'.player = job.player, job'.cars = job.cars
      PROVE  Parked(garage'[job'.player], job'.cars[k])
  <2>1. k \in SavedCars /\ LastSaved(k)
    BY <1>1 DEF LastSaved
  <2> QED
    BY <1>1, <2>1 DEF CarsClean
<1>2. CASE Aside /\ job' = job
  <2>1. SavedCars' = SavedCars
    BY <1>2 DEF SavedCars
  <2>2. job.step # "idle"
    BY <2>1 DEF SavedCars
  <2> QED
    BY <1>1, <1>2, <2>1, <2>2, GarageAside
<1>3. CASE job'.step \in {"idle", "account"}
  BY <1>3 DEF SavedCars
<1>4. CASE SaveAccount /\ job'.step = "rival"
  BY <1>4 DEF SavedCars
<1>5. CASE SaveGarages /\ job'.step = "cars" /\ job'.at = job.at
  <2>1. job.at = 1
    BY <1>5 DEF SaveGarages, TypeInv, AtFirst
  <2> QED
    BY <1>5, <2>1 DEF SavedCars
<1>6. CASE /\ job'.player = job.player /\ job'.cars = job.cars /\ (job'.clean => job.clean)
           /\ NoMoreCars /\ job'.step = "items" /\ job'.at = job.at
  <2>1. job.step = "cars" /\ job.at > Len(job.cars) /\ garage' = garage
    BY <1>6 DEF NoMoreCars, tables
  <2>2. job.at = Len(job.cars) + 1
    <3>1. job.at \in 1 .. Len(job.cars) + 1
      BY <1>0, <2>1, Zenon DEF TypeOK
    <3> QED
      BY <1>0, <2>1, <3>1
  <2>3. SavedCars' = SavedCars
    BY <1>0, <1>6, <2>1, <2>2 DEF SavedCars
  <2> QED
    BY <1>1, <1>6, <2>1, <2>3
<1>7. CASE /\ job'.player = job.player /\ job'.cars = job.cars /\ (job'.clean => job.clean)
           /\ job'.step = After[job.step] /\ job.step \in AllSections /\ job'.at = job.at
           /\ garage' = garage
  <2>1. \/ job.step = "rival" /\ job'.step = "garages"
        \/ job.step = "items" /\ job'.step = "sign"
        \/ job.step = "sign" /\ job'.step = "done"
    BY <1>7 DEF After, AllSections
  <2>2. SavedCars' = SavedCars
    BY <1>7, <2>1 DEF SavedCars
  <2> QED
    BY <1>1, <1>7, <2>2
<1>8. CASE /\ job'.player = job.player /\ job'.cars = job.cars /\ (job'.clean => job.clean)
           /\ SaveCar /\ job'.step = "cars" /\ job'.at = job.at + 1
  <2>1. job.step = "cars" /\ job.at \in 1 .. Len(job.cars)
    BY <1>8, <1>0, CarSaved DEF SaveCar
  <2>2. SavedCars = 1 .. job.at - 1 /\ SavedCars' = 1 .. job.at
    BY <1>8, <2>1 DEF SavedCars
  <2>3. /\ Parked(garage'[job.player], job.cars[job.at])
        /\ \A other \in [bay : Bays, car : Cars] :
             other.bay # job.cars[job.at].bay /\ Parked(garage[job.player], other) =>
               Parked(garage'[job.player], other)
    BY <1>8, CarParked
  <2>4. CASE k = job.at
    BY <1>8, <2>3, <2>4
  <2>5. CASE k # job.at
    <3>1. k \in SavedCars /\ k < job.at /\ k \in 1 .. Len(job.cars)
      BY <2>1, <2>2, <2>5
    <3>2. \A n \in 1 .. job.at : job.cars[n].bay = job.cars[k].bay => n <= k
      BY <1>8, <2>2 DEF LastSaved
    <3>3. LastSaved(k)
      BY <2>1, <2>2, <3>2 DEF LastSaved
    <3>4. job.cars[job.at].bay # job.cars[k].bay
      BY <2>1, <3>1, <3>2
    <3>5. job.cars[k] \in [bay : Bays, car : Cars]
      BY <1>0, <3>1, ElementOfSeq, Zenon
    <3>6. Parked(garage[job.player], job.cars[k])
      BY <1>8, <3>1, <3>3 DEF CarsClean
    <3> QED
      BY <1>8, <2>3, <3>4, <3>5, <3>6
  <2> QED
    BY <2>4, <2>5
<1>9. ASSUME NEW sec, SaveSection(sec) \/ PassOver(sec) PROVE garage' = garage
  BY <1>9 DEF SaveSection, PassOver, tables
<1> QED
  BY <1>2, <1>3, <1>4, <1>5, <1>6, <1>7, <1>8, <1>9, SaveGoesOn

\* The next login is told what a save without failures wrote, whatever rows, impounded
\* cars and blocked items earlier failures and the administrator left.
THEOREM CleanSavesStick == Spec => []CleanSaveSticks
<1> DEFINE Clean == AccountClean /\ SectionsClean /\ CarsClean
<1>1. Init => Clean
  BY NoJobTyped, NothingTyped DEF Init, AccountClean, SectionsClean, CarsClean, Through, SavedCars,
     AllSections
<1>2. TypeInv /\ Clean /\ [Next]_vars => Clean'
  BY AccountCleanStep, SectionsCleanStep, CarsCleanStep
<1>3. ASSUME TypeInv, Clean PROVE CleanSaveSticks
  <2> SUFFICES ASSUME job.step = "done", job.clean
               PROVE  /\ known[job.player] /\ lots[job.player] = job.lots /\ Admitted(job.player)
                      /\ \A sec \in Sections : Stored(sec, job.player) = job.parts[sec]
                      /\ \A k \in DOMAIN job.cars : LastFor(k) =>
                           /\ InBay(job.player, job.cars[k].bay) # {}
                           /\ \A i \in InBay(job.player, job.cars[k].bay) :
                                garage[job.player][i].car = job.cars[k].car
    BY Zenon DEF CleanSaveSticks
  <2>0. job.player \in Players /\ TypeOK
    BY <1>3 DEF TypeInv, TypeOK, Jobs
  <2>1. known[job.player] /\ lots[job.player] = job.lots /\ Admitted(job.player)
    BY <1>3 DEF AccountClean
  <2>2. ASSUME NEW sec \in Sections PROVE Stored(sec, job.player) = job.parts[sec]
    <3>1. Through(sec)
      BY NothingTyped DEF Through, AllSections
    <3>2. Says(rows[sec][job.player], job.parts[sec])
      BY <1>3, <3>1 DEF SectionsClean
    <3> QED
      BY <2>0, <3>2, SaysStored
  <2>3. ASSUME NEW k \in DOMAIN job.cars, LastFor(k)
        PROVE  /\ InBay(job.player, job.cars[k].bay) # {}
               /\ \A i \in InBay(job.player, job.cars[k].bay) :
                    garage[job.player][i].car = job.cars[k].car
    <3>1. SavedCars = DOMAIN job.cars
      BY DEF SavedCars
    <3>2. LastSaved(k)
      BY <2>3, <3>1 DEF LastSaved, LastFor
    <3>3. Parked(garage[job.player], job.cars[k])
      BY <1>3, <2>3, <3>1, <3>2 DEF CarsClean
    <3> QED
      BY <3>3, BayIs DEF Parked
  <2> QED
    BY <2>1, <2>2, <2>3
<1> QED
  BY <1>1, <1>2, <1>3, TypeInvariant, PTL DEF Spec

-----------------------------------------------------------------------------
(* Where blanks come from.                                                 *)

Causes == misled \cup torn \cup doubled \cup exposed

LEMMA HistoryGrows ==
  ASSUME TypeInv, [Next]_vars
  PROVE  /\ torn \subseteq torn' /\ misled \subseteq misled' /\ doubled \subseteq doubled'
         /\ exposed \subseteq exposed'
         /\ \A l \in Players : known[l] => known'[l]
<1>0. TypeOK /\ known \in [Players -> BOOLEAN]
  BY DEF TypeInv, TypeOK
<1>1. ASSUME NEW ok, Finish(ok)
      PROVE  /\ torn \subseteq torn' /\ misled' = misled /\ doubled' = doubled
             /\ exposed' = exposed
  BY <1>1 DEF Finish
<1>2. /\ torn \subseteq torn' /\ misled \subseteq misled' /\ doubled \subseteq doubled'
      /\ exposed \subseteq exposed'
  <2>1. CASE Aside
    BY <2>1 DEF Aside, vars, tables, history, Login, Play, Leave, SwapCars, MoveCar, RemoveCar,
       Impound, Release, BlockItems, UnblockItems, SetBlocked
  <2>2. CASE Crash \/ EndSave \/ SaveCar
    BY <2>2 DEF Crash, EndSave, SaveCar, history
  <2>3. CASE SaveAccount \/ SaveGarages \/ NoMoreCars
    BY <1>1, <2>3 DEF SaveAccount, SaveGarages, NoMoreCars
  <2>4. ASSUME NEW sec, SaveSection(sec) \/ PassOver(sec)
        PROVE  /\ torn \subseteq torn' /\ misled' = misled /\ doubled' = doubled
               /\ exposed' = exposed
    BY <1>1, <2>4 DEF SaveSection, PassOver
  <2>5. ASSUME NEW s, NEW some, NEW cars, StartSave(s, some, cars)
        PROVE  torn' = torn /\ misled' = misled /\ doubled' = doubled /\ exposed' = exposed
    BY <2>5 DEF StartSave, history
  <2> QED
    BY <2>1, <2>2, <2>3, <2>4, <2>5, StepKinds
<1>3. known' = known \/ known' = [known EXCEPT ![job.player] = TRUE]
  <2>1. CASE SaveAccount
    BY <2>1 DEF SaveAccount
  <2>2. CASE Aside
    BY <2>2, AsideIs
  <2> QED
    BY <2>1, <2>2, StepKinds DEF Crash, EndSave, SaveGarages, SaveCar, NoMoreCars, SaveSection,
       PassOver, StartSave, tables
<1> QED
  BY <1>0, <1>2, <1>3

LEMMA RowsChange ==
  ASSUME [Next]_vars
  PROVE  \/ rows' = rows
         \/ \E sec \in Sections : SaveSection(sec)
         \/ "items" \in Sections /\
            \E l \in Players : \E i \in DOMAIN rows["items"][l] :
              BlockItems(l, i) \/ UnblockItems(l, i)
  BY Zenon DEF Next, SaveStep, vars, tables, Login, Play, Leave, StartSave, Crash, SwapCars,
     MoveCar, RemoveCar, Impound, Release, SaveAccount, PassOver, SaveGarages, SaveCar,
     NoMoreCars, EndSave

\* An administrator changes the items of one player; what a query finds of them turns
\* from nothing to something only with no session running, or with a cause noted.
LEMMA SetBlockedIs ==
  ASSUME TypeOK, "items" \in Sections, NEW l \in Players, NEW i \in DOMAIN rows["items"][l],
         BlockItems(l, i) \/ UnblockItems(l, i)
  PROVE  /\ job.step = "idle" /\ session' = session /\ torn' = torn /\ known' = known
         /\ \A sec \in Sections, p \in Players :
              sec # "items" \/ p # l => rows'[sec][p] = rows[sec][p]
         /\ \/ l \in exposed'
            \/ Stored("items", l) # Blank
            \/ Stored("items", l)' = Blank
            \/ ~\E s \in Sessions : session[s].on /\ session[s].player = l
<1>1. PICK flag : SetBlocked(l, i, flag)
  BY DEF BlockItems, UnblockItems
<1>2. /\ job.step = "idle" /\ session' = session /\ torn' = torn /\ known' = known
      /\ exposed' = IF Exposes(l) THEN exposed \cup {l} ELSE exposed
  BY <1>1, Zenon DEF SetBlocked
<1>3. rows' = [rows EXCEPT !["items"][l][i].blocked = flag]
  BY <1>1 DEF SetBlocked
<1>4. \A sec \in Sections, p \in Players : sec # "items" \/ p # l => rows'[sec][p] = rows[sec][p]
  BY <1>3 DEF TypeOK
<1>5. \/ l \in exposed'
      \/ Stored("items", l) # Blank
      \/ Stored("items", l)' = Blank
      \/ ~\E s \in Sessions : session[s].on /\ session[s].player = l
  <2>1. CASE Exposes(l)
    BY <1>2, <2>1
  <2>2. CASE ~Exposes(l)
    BY <2>2, Zenon DEF Exposes
  <2> QED
    BY <2>1, <2>2
<1> QED
  BY <1>2, <1>4, <1>5, Zenon

\* What a query finds among some rows.
StoredIn(rs) == IF OpenIn(rs) = {} THEN Blank ELSE rs[First(OpenIn(rs))].val

\* The first of some numbers stays the first when a later one is added.
LEMMA FirstStays ==
  ASSUME NEW S \in SUBSET Nat, S # {}, NEW last \in Nat, \A i \in S : i < last
  PROVE  First(S \cup {last}) = First(S)
<1> DEFINE T == S \cup {last}
<1>1. First(S) \in S /\ \A j \in S : First(S) <= j
  BY FirstIsFirst
<1>2. T \in SUBSET Nat /\ T # {}
  OBVIOUS
<1> HIDE DEF T
<1>3. First(T) \in T /\ \A j \in T : First(T) <= j
  BY <1>2, FirstIsFirst
<1>4. First(T) = First(S)
  <2>1. First(S) \in Nat /\ First(T) \in Nat /\ First(S) < last
    BY <1>1, <1>2, <1>3
  <2>2. First(T) <= First(S) /\ First(T) \in S
    BY <1>1, <1>3, <2>1 DEF T
  <2>3. First(S) <= First(T)
    BY <1>1, <2>2
  <2> QED
    BY <2>1, <2>2, <2>3
<1> QED
  BY <1>4 DEF T

\* A row that is inserted behind an open one is not what a query finds.
LEMMA InsertHidden ==
  ASSUME TypeOK, NEW sec \in Sections, NEW l \in Players, NEW v \in Contents,
         Open(sec, l) # {}
  PROVE  StoredIn(Inserted(sec, l, v)) = StoredIn(rows[sec][l])
<1> DEFINE last == Len(rows[sec][l]) + 1
           row == [val |-> v, blocked |-> FALSE]
           new == Inserted(sec, l, v)
           S == Open(sec, l)
<1>1. /\ rows[sec][l] \in Seq(SectionRows) /\ Len(rows[sec][l]) \in Nat
      /\ DOMAIN rows[sec][l] = 1 .. Len(rows[sec][l])
  BY RowNumbers
<1>2. OpenIn(new) = S \cup {last}
  BY InsertedIs
<1>3. S \subseteq DOMAIN rows[sec][l] /\ OpenIn(rows[sec][l]) = S
  BY DEF Open, OpenIn
<1>4. row \in SectionRows /\ new = Append(rows[sec][l], row)
  BY DEF SectionRows, Inserted
<1> HIDE DEF S, row, new
<1>5. \A i \in DOMAIN rows[sec][l] : new[i] = rows[sec][l][i]
  BY <1>1, <1>4
<1>6. S \in SUBSET Nat /\ S # {} /\ last \in Nat /\ \A i \in S : i < last
  BY <1>1, <1>3 DEF S
<1> HIDE DEF last
<1>7. First(OpenIn(new)) = First(S) /\ First(S) \in S
  BY <1>2, <1>6, FirstStays, FirstIsFirst
<1>8. OpenIn(new) # {}
  BY <1>2, <1>6
<1>9. StoredIn(new) = new[First(S)].val
  BY <1>7, <1>8, Zenon DEF StoredIn
<1>10. StoredIn(rows[sec][l]) = rows[sec][l][First(S)].val
  BY <1>3, <1>6, Zenon DEF StoredIn
<1>11. StoredIn(new) = StoredIn(rows[sec][l])
  BY <1>3, <1>5, <1>7, <1>9, <1>10
<1> QED
  BY <1>11 DEF new

\* Rows that are updated hold what they were updated with.
LEMMA UpdateStored ==
  ASSUME TypeOK, NEW sec \in Sections, NEW l \in Players, NEW v \in Contents,
         Open(sec, l) # {}
  PROVE  StoredIn(Updated(sec, l, v)) = v
<1> DEFINE new == Updated(sec, l, v)
           S == Open(sec, l)
<1>1. OpenIn(new) = S /\ \A i \in S : new[i].val = v
  BY UpdatedIs
<1>2. S \in SUBSET Nat /\ S # {}
  BY RowNumbers DEF Open
<1> HIDE DEF new, S
<1>3. First(S) \in S
  BY <1>2, FirstIsFirst
<1>4. StoredIn(new) = new[First(S)].val
  BY <1>1, <1>2, Zenon DEF StoredIn
<1>5. StoredIn(new) = v
  BY <1>1, <1>3, <1>4
<1> QED
  BY <1>5 DEF new

\* Rows read and rows found are the same.
LEMMA StoredRows ==
  /\ \A sec, l : Stored(sec, l) = StoredIn(rows[sec][l]) /\ Open(sec, l) = OpenIn(rows[sec][l])
  /\ \A sec, l : Stored(sec, l)' = StoredIn(rows'[sec][l])
BY Zenon DEF Stored, StoredIn, Open, OpenIn

\* Only a blank is to be read.
Blanks(rs) == StoredIn(rs) = Blank

\* Without failures there are no rows before the account was saved.
RowsInv ==
  /\ job.step \notin {"idle", "account"} => known[job.player] \/ job.player \in torn
  /\ \A sec \in Sections, l \in Players : l \notin torn /\ ~known[l] => rows[sec][l] = <<>>

LEMMA RowsStep == TypeInv /\ RowsInv /\ [Next]_vars => RowsInv'
<1> SUFFICES ASSUME TypeInv, RowsInv, [Next]_vars PROVE RowsInv'
  OBVIOUS
<1>0. /\ job \in Jobs /\ job.player \in Players /\ TypeOK /\ known \in [Players -> BOOLEAN]
  BY DEF TypeInv, TypeOK, Jobs
<1>h. torn \subseteq torn' /\ \A l \in Players : known[l] => known'[l]
  BY HistoryGrows
<1>1. job'.step \notin {"idle", "account"} => known'[job'.player] \/ job'.player \in torn'
  <2>1. CASE SaveAccount /\ job'.player = job.player
    <3>1. PICK ok \in BOOLEAN :
            /\ ok => known' = [known EXCEPT ![job.player] = TRUE]
            /\ Finish(ok)
      BY <2>1 DEF SaveAccount, Outcomes
    <3>2. ~ok => job.player \in torn'
      BY <1>0, <2>1, <3>1, FinishTyped DEF SaveAccount
    <3> QED
      BY <1>0, <2>1, <3>1, <3>2
  <2>2. CASE job'.player = job.player /\ job.step \notin {"idle", "account"}
    BY <1>0, <1>h, <2>2 DEF RowsInv
  <2>3. CASE Aside /\ job' = job
    BY <1>0, <1>h, <2>3 DEF RowsInv
  <2> QED
    BY <2>1, <2>2, <2>3, SaveGoesOn DEF SaveGarages, SaveCar, NoMoreCars, AllSections
<1>2. ASSUME NEW sec \in Sections, NEW l \in Players, l \notin torn', ~known'[l]
      PROVE  rows'[sec][l] = <<>>
  <2>0. rows[sec][l] = <<>> /\ ~known[l] /\ l \notin torn
    BY <1>h, <1>2 DEF RowsInv
  <2>1. ASSUME NEW at \in Sections, SaveSection(at), at # sec \/ l # job.player
        PROVE  rows'[sec][l] = rows[sec][l]
    BY <2>1, OtherRowsKept
  <2>2. ~(SaveSection(sec) /\ l = job.player)
    <3>1. SaveSection(sec) => job.step \notin {"idle", "account"}
      BY NothingTyped DEF SaveSection, AllSections
    <3> QED
      BY <2>0, <3>1 DEF RowsInv
  <2>3. ASSUME "items" \in Sections, NEW p \in Players, NEW i \in DOMAIN rows["items"][p],
               BlockItems(p, i) \/ UnblockItems(p, i)
        PROVE  rows'[sec][l] = rows[sec][l]
    <3>1. sec # "items" \/ l # p
      BY <2>0, <2>3
    <3> QED
      BY <1>0, <2>3, <3>1, SetBlockedIs
  <2> QED
    BY <2>0, <2>1, <2>2, <2>3, RowsChange
<1> QED
  BY <1>1, <1>2, Zenon DEF RowsInv

\* A blank that is saved leaves blanks.
LEMMA BlankSaved ==
  ASSUME TypeInv, NEW sec \in Sections, SaveSection(sec), job.parts[sec] = Blank,
         job.player \notin torn'
  PROVE  Blanks(rows'[sec][job.player])
<1> DEFINE l == job.player
           v == job.parts[sec]
<1>0. /\ l \in Players /\ v \in Contents /\ TypeOK /\ v = Blank
      /\ rows \in [Sections -> [Players -> Seq(SectionRows)]]
  BY DEF TypeInv, TypeOK, Jobs, Parts
<1>1. \/ rows' = [rows EXCEPT ![sec][l] = Updated(sec, l, v)]
      \/ rows' = [rows EXCEPT ![sec][l] = Inserted(sec, l, v)] /\ Open(sec, l) = {}
  BY SaveSectionIs, Zenon
<1> HIDE DEF l, v
<1>2. \/ rows'[sec][l] = Updated(sec, l, v)
      \/ rows'[sec][l] = Inserted(sec, l, v) /\ Open(sec, l) = {}
  BY <1>0, <1>1
<1>3. Blanks(Updated(sec, l, v))
  <2>1. CASE Open(sec, l) = {}
    BY <1>0, <2>1, UpdatedIs, Zenon DEF Blanks, StoredIn
  <2>2. CASE Open(sec, l) # {}
    BY <1>0, <2>2, UpdateStored DEF Blanks
  <2> QED
    BY <2>1, <2>2
<1>4. ASSUME Open(sec, l) = {} PROVE Blanks(Inserted(sec, l, v))
  <2> DEFINE last == Len(rows[sec][l]) + 1
  <2>1. /\ OpenIn(Inserted(sec, l, v)) = {last} /\ Inserted(sec, l, v)[last].val = v
        /\ last \in Nat
    BY <1>0, <1>4, InsertedIs, RowNumbers
  <2> HIDE DEF last
  <2>2. First({last}) = last
    BY <2>1, FirstIsFirst
  <2>3. StoredIn(Inserted(sec, l, v)) = v
    BY <2>1, <2>2 DEF StoredIn
  <2> QED
    BY <1>0, <2>3 DEF Blanks
<1>5. Blanks(rows'[sec][l])
  BY <1>2, <1>3, <1>4
<1> QED
  BY <1>5 DEF l

\* Where a session or a save would read a blank it still does, unless something else is
\* saved or there is a cause.
LEMMA BlanksKept ==
  ASSUME TypeInv, [Next]_vars, NEW sec \in Sections, NEW l \in Players,
         Blanks(rows[sec][l]), l \notin Causes',
         job.step # "idle" \/ \E s \in Sessions : session[s].on /\ session[s].player = l,
         SaveSection(sec) /\ l = job.player => job.parts[sec] = Blank
  PROVE  Blanks(rows'[sec][l])
<1>0. TypeOK
  BY DEF TypeInv
<1>1. CASE rows'[sec][l] = rows[sec][l]
  BY <1>1
<1>2. ASSUME NEW at \in Sections, SaveSection(at) PROVE Blanks(rows'[sec][l])
  <2>1. CASE at # sec \/ l # job.player
    BY <1>1, <1>2, <2>1, OtherRowsKept
  <2>2. CASE at = sec /\ l = job.player
    BY <1>2, <2>2, BlankSaved DEF Causes
  <2> QED
    BY <2>1, <2>2
<1>3. ASSUME "items" \in Sections, NEW p \in Players, NEW i \in DOMAIN rows["items"][p],
             BlockItems(p, i) \/ UnblockItems(p, i)
      PROVE  Blanks(rows'[sec][l])
  <2>1. CASE sec # "items" \/ l # p
    BY <1>0, <1>1, <1>3, <2>1, SetBlockedIs
  <2>2. CASE sec = "items" /\ l = p
    <3>1. /\ job.step = "idle"
          /\ \/ l \in exposed' \/ Stored(sec, l) # Blank \/ Stored(sec, l)' = Blank
             \/ ~\E s \in Sessions : session[s].on /\ session[s].player = l
      BY <1>0, <1>3, <2>2, SetBlockedIs
    <3>2. l \notin exposed' /\ Stored(sec, l) = Blank
      BY StoredRows DEF Causes, Blanks
    <3>3. Stored(sec, l)' = Blank
      BY <3>1, <3>2
    <3> QED
      BY <3>3, StoredRows, Zenon DEF Blanks
  <2> QED
    BY <2>1, <2>2
<1> QED
  BY <1>1, <1>2, <1>3, RowsChange

\* A session of a player without a cause is the only one, and it and the save that is
\* being executed have a blank only where only blanks are to be read.
OnlySession ==
  \A s, t \in Sessions :
    session[s].on /\ session[t].on /\ session[s].player = session[t].player =>
      s = t \/ session[s].player \in doubled

SessionBlanks ==
  \A s \in Sessions, sec \in Sections :
    session[s].on /\ session[s].parts[sec] = Blank =>
      Blanks(rows[sec][session[s].player]) \/ session[s].player \in Causes

SaveBlanks ==
  job.step # "idle" =>
    \A sec \in Sections :
      /\ job.parts[sec] = Blank => Blanks(rows[sec][job.player]) \/ job.player \in Causes
      /\ \A s \in Sessions :
           session[s].on /\ session[s].player = job.player /\ session[s].parts[sec] = Blank =>
             job.parts[sec] = Blank \/ job.player \in Causes

BlankInv == RowsInv /\ OnlySession /\ SessionBlanks /\ SaveBlanks

LEMMA SessionStep ==
  ASSUME TypeInv, [Next]_vars
  PROVE  \/ session' = session
         \/ \E s \in Sessions, l \in Players : Login(s, l)
         \/ \E s \in Sessions, sec \in Sections, v \in Values : Play(s, sec, v)
         \/ \E s \in Sessions : Leave(s)
<1>1. ASSUME NEW ok, Finish(ok) PROVE session' = session
  BY <1>1 DEF Finish
<1> QED
  BY <1>1, Zenon DEF Next, SaveStep, vars, history, StartSave, Crash, SwapCars, MoveCar,
     RemoveCar, Impound, Release, BlockItems, UnblockItems, SetBlocked, SaveAccount, SaveSection, PassOver, SaveGarages,
     SaveCar, NoMoreCars, EndSave

\* What a session can have become: what it was, with fewer blanks, over, or a new login's.
LEMMA SessionIs ==
  ASSUME TypeInv, [Next]_vars, NEW s \in Sessions, session'[s].on
  PROVE  \/ /\ session[s].on /\ session'[s].player = session[s].player
            /\ \A sec \in Sections :
                 session'[s].parts[sec] = Blank => session[s].parts[sec] = Blank
         \/ \E l \in Players : Login(s, l)
<1>0. session \in [Sessions -> [on : BOOLEAN, player : Players, parts : Parts]]
  BY DEF TypeInv, TypeOK
<1>1. CASE session'[s] = session[s]
  BY <1>1
<1>2. ASSUME NEW t \in Sessions, NEW l \in Players, Login(t, l), t # s
      PROVE  session'[s] = session[s]
  BY <1>0, <1>2 DEF Login
<1>3. ASSUME NEW t \in Sessions, NEW at \in Sections, NEW v \in Values, Play(t, at, v)
      PROVE  /\ session[s].on /\ session'[s].player = session[s].player
             /\ \A sec \in Sections :
                  session'[s].parts[sec] = Blank => session[s].parts[sec] = Blank
  <2>1. CASE t # s
    BY <1>0, <1>3, <2>1 DEF Play
  <2>2. CASE t = s
    <3>1. session'[s] = [session[s] EXCEPT !.parts[at] = v] /\ session[s].on
      BY <1>0, <1>3, <2>2 DEF Play
    <3>2. v # Blank /\ session[s].parts \in [Sections -> Contents]
      BY <1>0, ConstantsOK DEF Parts
    <3>3. /\ session'[s].player = session[s].player
          /\ session'[s].parts = [session[s].parts EXCEPT ![at] = v]
      BY <1>0, <3>1
    <3> QED
      BY <3>1, <3>2, <3>3
  <2> QED
    BY <2>1, <2>2
<1>4. ASSUME NEW t \in Sessions, Leave(t) PROVE session'[s] = session[s]
  BY <1>0, <1>4 DEF Leave, NoSession
<1> QED
  BY <1>1, <1>2, <1>3, <1>4, SessionStep

\* What a login is told blank is blank, or has a cause.
LEMMA LoginBlanks ==
  ASSUME TypeInv, RowsInv, NEW s \in Sessions, NEW l \in Players, Login(s, l),
         NEW sec \in Sections, session'[s].parts[sec] = Blank
  PROVE  Blanks(rows[sec][l]) \/ l \in Causes'
<1>1. PICK missing \in SUBSET Sections :
        /\ session' = [session EXCEPT ![s] =
                         [on |-> TRUE, player |-> l, parts |-> ToldMissing(l, missing)]]
        /\ misled' = IF missing = {} THEN misled ELSE misled \cup {l}
        /\ torn' = torn
  BY DEF Login
<1>2. ToldMissing(l, missing)[sec] = Blank
  BY <1>1 DEF TypeInv, TypeOK
<1>3. CASE sec \in missing
  BY <1>1, <1>3 DEF Causes
<1>4. CASE ~known[l]
  <2>1. l \in torn \/ rows[sec][l] = <<>>
    BY <1>4 DEF RowsInv
  <2>2. Blanks(<<>>)
    <3>1. OpenIn(<<>>) = {}
      BY DEF OpenIn
    <3> QED
      BY <3>1, Zenon DEF Blanks, StoredIn
  <2> QED
    BY <1>1, <2>1, <2>2 DEF Causes
<1>5. CASE Stored(sec, l) = Blank
  BY <1>5, StoredRows DEF Blanks
<1> QED
  BY <1>2, <1>3, <1>4, <1>5, Zenon DEF ToldMissing

LEMMA OnlySessionStep == TypeInv /\ OnlySession /\ [Next]_vars => OnlySession'
<1> SUFFICES ASSUME TypeInv, OnlySession, [Next]_vars, NEW s \in Sessions, NEW t \in Sessions,
                    session'[s].on, session'[t].on, session'[s].player = session'[t].player,
                    s # t
             PROVE  session'[s].player \in doubled'
  BY Zenon DEF OnlySession
<1>0. session \in [Sessions -> [on : BOOLEAN, player : Players, parts : Parts]]
  BY DEF TypeInv, TypeOK
<1>1. CASE /\ session[s].on /\ session'[s].player = session[s].player
           /\ session[t].on /\ session'[t].player = session[t].player
  BY <1>1, HistoryGrows DEF OnlySession
<1>2. ASSUME NEW a \in Sessions, NEW b \in Sessions, a # b, session'[a].on, session'[b].on,
             session'[a].player = session'[b].player, NEW l \in Players, Login(a, l)
      PROVE  session'[a].player \in doubled'
  <2>1. session'[b] = session[b] /\ session'[a].player = l
    BY <1>0, <1>2 DEF Login
  <2>2. \E u \in Sessions : session[u].on /\ session[u].player = l
    BY <1>2, <2>1
  <2> QED
    BY <1>2, <2>1, <2>2 DEF Login
<1> QED
  BY <1>1, <1>2, SessionIs

LEMMA CausesGrow == TypeInv /\ [Next]_vars => Causes \subseteq Causes'
  BY HistoryGrows DEF Causes

LEMMA SessionBlanksStep == TypeInv /\ BlankInv /\ [Next]_vars => SessionBlanks'
<1> SUFFICES ASSUME TypeInv, BlankInv, [Next]_vars, NEW s \in Sessions, NEW sec \in Sections,
                    session'[s].on, session'[s].parts[sec] = Blank
             PROVE  Blanks(rows'[sec][session'[s].player]) \/ session'[s].player \in Causes'
  BY Zenon DEF SessionBlanks, Blanks, StoredIn, OpenIn
<1>0. /\ TypeOK /\ session \in [Sessions -> [on : BOOLEAN, player : Players, parts : Parts]]
      /\ RowsInv
  BY DEF TypeInv, TypeOK, BlankInv
<1>h. Causes \subseteq Causes'
  BY CausesGrow
<1>1. ASSUME session[s].on, session'[s].player = session[s].player, session[s].parts[sec] = Blank
      PROVE  Blanks(rows'[sec][session'[s].player]) \/ session'[s].player \in Causes'
  <2> DEFINE l == session[s].player
  <2>0. l \in Players
    BY <1>0
  <2>1. CASE l \in Causes'
    BY <1>1, <2>1
  <2>2. CASE l \notin Causes'
    <3>1. Blanks(rows[sec][l])
      BY <1>1, <1>h, <2>2 DEF BlankInv, SessionBlanks
    <3>2. SaveSection(sec) /\ l = job.player => job.parts[sec] = Blank
      <4>1. SaveSection(sec) => job.step # "idle"
        BY NothingTyped DEF SaveSection, AllSections
      <4> QED
        BY <1>1, <1>h, <2>2, <4>1 DEF BlankInv, SaveBlanks
    <3>3. \E t \in Sessions : session[t].on /\ session[t].player = l
      BY <1>1
    <3> HIDE DEF l
    <3>4. Blanks(rows'[sec][l])
      BY <2>0, <2>2, <3>1, <3>2, <3>3, BlanksKept
    <3> QED
      BY <1>1, <3>4 DEF l
  <2> QED
    BY <2>1, <2>2
<1>2. ASSUME NEW l \in Players, Login(s, l)
      PROVE  Blanks(rows'[sec][session'[s].player]) \/ session'[s].player \in Causes'
  <2>1. session'[s].player = l /\ rows' = rows
    BY <1>0, <1>2 DEF Login, tables
  <2>2. Blanks(rows[sec][l]) \/ l \in Causes'
    BY <1>0, <1>2, LoginBlanks
  <2> QED
    BY <2>1, <2>2
<1> QED
  BY <1>1, <1>2, SessionIs

LEMMA SaveBlanksStep == TypeInv /\ BlankInv /\ [Next]_vars => SaveBlanks'
<1> SUFFICES ASSUME TypeInv, BlankInv, [Next]_vars, job'.step # "idle", NEW sec \in Sections
             PROVE  /\ job'.parts[sec] = Blank =>
                         Blanks(rows'[sec][job'.player]) \/ job'.player \in Causes'
                    /\ \A s \in Sessions :
                         /\ session'[s].on /\ session'[s].player = job'.player
                         /\ session'[s].parts[sec] = Blank
                         => job'.parts[sec] = Blank \/ job'.player \in Causes'
  BY Zenon DEF SaveBlanks, Blanks, StoredIn, OpenIn
<1>0. /\ TypeOK /\ session \in [Sessions -> [on : BOOLEAN, player : Players, parts : Parts]]
      /\ job.player \in Players
  BY DEF TypeInv, TypeOK, Jobs
<1>h. Causes \subseteq Causes'
  BY CausesGrow
<1>1. ASSUME job.step # "idle", job'.player = job.player, job'.parts = job.parts
      PROVE  /\ job'.parts[sec] = Blank =>
                  Blanks(rows'[sec][job'.player]) \/ job'.player \in Causes'
             /\ \A s \in Sessions :
                  /\ session'[s].on /\ session'[s].player = job'.player
                  /\ session'[s].parts[sec] = Blank
                  => job'.parts[sec] = Blank \/ job'.player \in Causes'
  <2>1. ASSUME job.parts[sec] = Blank, job.player \notin Causes'
        PROVE  Blanks(rows'[sec][job.player])
    <3>1. Blanks(rows[sec][job.player])
      BY <1>1, <1>h, <2>1 DEF BlankInv, SaveBlanks
    <3> QED
      BY <1>0, <1>1, <2>1, <3>1, BlanksKept
  <2>2. ASSUME NEW s \in Sessions, session'[s].on, session'[s].player = job.player,
               session'[s].parts[sec] = Blank, job.player \notin Causes'
        PROVE  job.parts[sec] = Blank
    <3>1. ~\E l \in Players : Login(s, l)
      BY <1>1 DEF Login
    <3>2. /\ session[s].on /\ session[s].player = job.player
          /\ session[s].parts[sec] = Blank
      BY <2>2, <3>1, SessionIs
    <3> QED
      BY <1>1, <1>h, <2>2, <3>2 DEF BlankInv, SaveBlanks
  <2>3. job'.parts[sec] = job.parts[sec] /\ rows'[sec][job'.player] = rows'[sec][job.player]
    BY <1>1
  <2> QED
    BY <1>1, <2>1, <2>2, <2>3
<1>2. ASSUME NEW t \in Sessions, NEW some, NEW cars, StartSave(t, some, cars)
      PROVE  /\ job'.parts[sec] = Blank =>
                  Blanks(rows'[sec][job'.player]) \/ job'.player \in Causes'
             /\ \A s \in Sessions :
                  /\ session'[s].on /\ session'[s].player = job'.player
                  /\ session'[s].parts[sec] = Blank
                  => job'.parts[sec] = Blank \/ job'.player \in Causes'
  <2>1. /\ job'.player = session[t].player /\ job'.parts = session[t].parts
        /\ session[t].on /\ rows' = rows /\ session' = session
    BY <1>2 DEF StartSave, tables
  <2>2. \A s \in Sessions : session[s].on /\ session[s].player = session[t].player =>
          s = t \/ session[t].player \in doubled
    BY <2>1 DEF BlankInv, OnlySession
  <2>3. session[t].parts[sec] = Blank =>
          Blanks(rows[sec][session[t].player]) \/ session[t].player \in Causes
    BY <2>1 DEF BlankInv, SessionBlanks
  <2>4. doubled \subseteq Causes
    BY DEF Causes
  <2> QED
    BY <1>h, <2>1, <2>2, <2>3, <2>4
<1>3. job'.step # "account" => job.step # "idle" /\ job'.player = job.player /\ job'.parts = job.parts
  BY SaveGoesOn DEF SaveAccount, SaveGarages, SaveCar, NoMoreCars, AllSections
<1>4. job'.step = "account" =>
        \/ job' = job
        \/ \E s \in Sessions, some \in BOOLEAN, cars \in CarLists : StartSave(s, some, cars)
  <2>1. CASE Crash \/ EndSave
    BY <2>1, NoJobTyped DEF Crash, EndSave
  <2>2. CASE Aside
    BY <2>2, AsideIs
  <2>3. ASSUME NEW ok \in BOOLEAN, Finish(ok),
               job.step \in {"account", "garages", "cars"} \cup AllSections
        PROVE  job'.step # "account"
    BY <1>0, <2>3, FinishTyped DEF After, AllSections
  <2>4. CASE SaveCar
    BY <2>4 DEF SaveCar, TypeInv, TypeOK, Jobs
  <2>5. CASE SaveAccount \/ SaveGarages \/ NoMoreCars
    BY <2>3, <2>5 DEF SaveAccount, SaveGarages, NoMoreCars, Outcomes
  <2>6. ASSUME NEW at \in AllSections, SaveSection(at) \/ PassOver(at) PROVE job'.step # "account"
    BY <2>3, <2>6 DEF SaveSection, PassOver, Outcomes
  <2> QED
    BY <2>1, <2>2, <2>4, <2>5, <2>6, StepKinds, NothingTyped
<1> QED
  BY <1>1, <1>2, <1>3, <1>4

LEMMA BlankInvariant == Spec => []BlankInv
<1>1. Init => BlankInv
  <2> SUFFICES ASSUME Init PROVE BlankInv
    OBVIOUS
  <2>1. job.step = "idle" /\ \A s \in Sessions : ~session[s].on
    BY NoJobTyped DEF Init, NoSession
  <2>2. \A sec \in Sections, l \in Players : rows[sec][l] = <<>>
    BY DEF Init
  <2>3. OpenIn(<<>>) = {}
    BY DEF OpenIn
  <2> QED
    BY <2>1, <2>2, <2>3 DEF BlankInv, RowsInv, OnlySession, SessionBlanks, SaveBlanks
<1>2. TypeInv /\ BlankInv /\ [Next]_vars => BlankInv'
  <2>1. BlankInv => RowsInv /\ OnlySession
    BY DEF BlankInv
  <2>2. BlankInv' <=> RowsInv' /\ OnlySession' /\ SessionBlanks' /\ SaveBlanks'
    BY DEF BlankInv
  <2> QED
    BY <2>1, <2>2, RowsStep, OnlySessionStep, SessionBlanksStep, SaveBlanksStep
<1> QED
  BY <1>1, <1>2, TypeInvariant, PTL DEF Spec

\* What a player has is overwritten with blanks only if a query failed at a login, a
\* statement of a save failed, the player was logged in twice, or an administrator
\* brought items to light while a session ran.
THEOREM BlanksForACause == Spec => BlanksHaveACause
<1>1. ASSUME TypeInv, BlankInv, [Next]_vars, NEW sec \in Sections, NEW l \in Players,
             job.step # "idle", Stored(sec, l) # Blank, Stored(sec, l)' = Blank
      PROVE  l \in Causes
  <2>0. /\ TypeOK /\ rows \in [Sections -> [Players -> Seq(SectionRows)]]
        /\ job.player \in Players /\ job.parts[sec] \in Contents
    BY <1>1 DEF TypeInv, TypeOK, Jobs, Parts
  <2>1. Open(sec, l) = OpenIn(rows[sec][l]) /\ Open(sec, l)' = OpenIn(rows'[sec][l])
    BY StoredRows, Zenon DEF Open, OpenIn
  <2>2. Stored(sec, l) = StoredIn(rows[sec][l]) /\ Stored(sec, l)' = StoredIn(rows'[sec][l])
    BY <2>1, Zenon DEF Stored, StoredIn
  <2>3. StoredIn(rows'[sec][l]) # StoredIn(rows[sec][l]) /\ Open(sec, l) # {}
    BY <1>1, <2>2, Zenon DEF Stored
  <2>4. SaveSection(sec) /\ l = job.player
    <3>1. rows'[sec][l] # rows[sec][l]
      BY <2>3
    <3>2. ~\E p \in Players : \E i \in DOMAIN rows["items"][p] :
             BlockItems(p, i) \/ UnblockItems(p, i)
      BY <1>1 DEF BlockItems, UnblockItems, SetBlocked
    <3>3. \E at \in Sections : SaveSection(at)
      BY <1>1, <3>1, <3>2, RowsChange
    <3> QED
      BY <1>1, <3>1, <3>3, OtherRowsKept
  <2> DEFINE v == job.parts[sec]
  <2>5. \/ rows' = rows
        \/ rows' = [rows EXCEPT ![sec][l] = Updated(sec, l, v)]
        \/ rows' = [rows EXCEPT ![sec][l] = Inserted(sec, l, v)]
    BY <1>1, <2>4, SaveSectionIs, Zenon
  <2>6. v \in Contents
    BY <2>0
  <2> HIDE DEF v
  <2>7. \/ rows'[sec][l] = Updated(sec, l, v)
        \/ rows'[sec][l] = Inserted(sec, l, v)
    BY <2>0, <2>3, <2>5
  <2>8. rows'[sec][l] = Updated(sec, l, v)
    BY <2>0, <2>3, <2>6, <2>7, InsertHidden
  <2>9. v = Blank
    BY <1>1, <2>0, <2>2, <2>3, <2>6, <2>8, UpdateStored
  <2>10. Blanks(rows[sec][l]) \/ l \in Causes
    BY <1>1, <2>4, <2>9 DEF BlankInv, SaveBlanks, v
  <2>11. ~Blanks(rows[sec][l])
    BY <1>1, <2>2 DEF Blanks
  <2> QED
    BY <2>10, <2>11
<1>2. TypeInv /\ BlankInv /\ [Next]_vars =>
        [\A sec \in Sections, l \in Players :
           job.step # "idle" /\ Stored(sec, l) # Blank /\ Stored(sec, l)' = Blank =>
             l \in Causes]_vars
  BY <1>1, Zenon
<1> QED
  BY <1>2, TypeInvariant, BlankInvariant, PTL DEF Spec, BlanksHaveACause, Causes

-----------------------------------------------------------------------------
(* The garage keeps the promise of Garage.tla.                             *)

\* The car that a bay shows, if the rows are in bays of their own.
Held(rs, b) == IF BayIn(rs, b) = {} THEN None ELSE rs[First(BayIn(rs, b))].car

LEMMA OneHeld ==
  ASSUME NEW rs \in Seq(CarRows), OneEach(rs), NEW b
  PROVE  \A i \in BayIn(rs, b) : Held(rs, b) = rs[i].car
<1> SUFFICES ASSUME NEW i \in BayIn(rs, b) PROVE Held(rs, b) = rs[i].car
  OBVIOUS
<1> DEFINE S == BayIn(rs, b)
<1>1. S \in SUBSET Nat /\ S # {}
  BY DEF BayIn
<1>2. \A j \in S : j = i
  BY DEF BayIn, OneEach
<1>3. Held(rs, b) = rs[First(S)].car
  BY <1>1, Zenon DEF Held
<1> HIDE DEF S
<1>4. First(S) \in S
  BY <1>1, FirstIsFirst
<1> QED
  BY <1>2, <1>3, <1>4

\* The abstract garage.
Park == [l \in Players |-> [b \in Bays |->
           IF InBay(l, b) = {} THEN None ELSE garage[l][First(InBay(l, b))].car]]

LEMMA PromiseIs ==
  /\ Promise!garageVars = <<Park, tangled>> /\ Promise!garageVars' = <<Park', tangled'>>
  /\ \A l, b, c : Promise!Put(l, b, c) <=>
       l \notin tangled /\ Park' = [Park EXCEPT ![l][b] = c] /\ tangled' = tangled
  /\ \A l, b : Promise!Take(l, b) <=>
       l \notin tangled /\ Park' = [Park EXCEPT ![l][b] = None] /\ tangled' = tangled
  /\ \A l, a, b : Promise!Swap(l, a, b) <=>
       /\ l \notin tangled
       /\ Park' = [Park EXCEPT ![l][a] = Park[l][b], ![l][b] = Park[l][a]]
       /\ tangled' = tangled
  /\ \A l, a, b : Promise!Move(l, a, b) <=>
       \/ Park[l][b] = None /\ Promise!Swap(l, a, b)
       \/ (a = b \/ Park[l][a] = None) /\ Park' = Park /\ tangled' = tangled
  /\ \A l : Promise!Mix(l) <=>
       /\ tangled' = tangled \cup {l}
       /\ \E any \in [Bays -> Cars \cup {None}] : Park' = [Park EXCEPT ![l] = any]
<1>1. /\ Promise!garageVars = <<Park, tangled>> /\ Promise!garageVars' = <<Park', tangled'>>
      /\ \A l, b, c : Promise!Put(l, b, c) <=>
           l \notin tangled /\ Park' = [Park EXCEPT ![l][b] = c] /\ tangled' = tangled
      /\ \A l, b : Promise!Take(l, b) <=>
           l \notin tangled /\ Park' = [Park EXCEPT ![l][b] = None] /\ tangled' = tangled
  BY Zenon DEF Promise!garageVars, Promise!Put, Promise!Take, Park
<1>2. \A l, a, b : Promise!Swap(l, a, b) <=>
        /\ l \notin tangled
        /\ Park' = [Park EXCEPT ![l][a] = Park[l][b], ![l][b] = Park[l][a]]
        /\ tangled' = tangled
  BY Zenon DEF Promise!Swap, Park
<1>3. \A l, a, b : Promise!Move(l, a, b) <=>
        \/ Park[l][b] = None /\ Promise!Swap(l, a, b)
        \/ (a = b \/ Park[l][a] = None) /\ <<Park', tangled'>> = <<Park, tangled>>
  BY Zenon DEF Promise!Move, Promise!garageVars, Park
<1>4. \A l : Promise!Mix(l) <=>
        /\ tangled' = tangled \cup {l}
        /\ \E any \in [Bays -> Cars \cup {None}] : Park' = [Park EXCEPT ![l] = any]
  BY Zenon DEF Promise!Mix, Park
<1> QED
  BY <1>1, <1>2, <1>3, <1>4

LEMMA ParkIs ==
  /\ Park = [l \in Players |-> [b \in Bays |-> Held(garage[l], b)]]
  /\ Park' = [l \in Players |-> [b \in Bays |-> Held(garage'[l], b)]]
<1>1. \A l, b : InBay(l, b) = BayIn(garage[l], b) /\ InBay(l, b)' = BayIn(garage'[l], b)
  BY DEF InBay, Shown, BayIn
<1> QED
  BY <1>1 DEF Park, Held

\* A step that changes one garage, bay by bay.
LEMMA ParkStep ==
  ASSUME NEW l \in Players, \A p \in Players : p # l => garage'[p] = garage[p],
         NEW new, new = [b \in Bays |-> Held(garage'[l], b)]
  PROVE  Park' = [Park EXCEPT ![l] = new]
  BY ParkIs

\* The same car in a bay of rows before and a bay of rows after.
LEMMA HeldSame ==
  ASSUME NEW rs \in Seq(CarRows), NEW new \in Seq(CarRows), OneEach(rs), OneEach(new),
         NEW b, NEW d,
         BayIn(new, d) = {} <=> BayIn(rs, b) = {},
         BayIn(rs, b) # {} =>
           \E i \in BayIn(rs, b), j \in BayIn(new, d) : new[j].car = rs[i].car
  PROVE  Held(new, d) = Held(rs, b)
<1>1. CASE BayIn(rs, b) = {}
  BY <1>1, Zenon DEF Held
<1>2. CASE BayIn(rs, b) # {}
  BY <1>2, OneHeld
<1> QED
  BY <1>1, <1>2

LEMMA ReplacedKept ==
  ASSUME TypeOK, NEW l \in Players, NEW b \in Bays, NEW c \in Cars,
         l \notin tangled, tangled' = tangled,
         OneEach(garage[l]), OneEach(garage'[l]),
         garage' = [garage EXCEPT ![l] = Replaced(l, b, c)], InBay(l, b) # {}
  PROVE  Promise!Put(l, b, c)
<1> DEFINE new == Replaced(l, b, c)
<1>0. /\ garage \in [Players -> Seq(CarRows)] /\ garage[l] \in Seq(CarRows)
      /\ new \in Seq(CarRows) /\ \A d : InBay(l, d) = BayIn(garage[l], d)
  BY ReplacedIs, BayIs DEF TypeOK
<1>1. /\ \A d : BayIn(new, d) = BayIn(garage[l], d)
      /\ \A i \in BayIn(garage[l], b) : new[i].car = c
      /\ \A i \in DOMAIN garage[l] : i \notin BayIn(garage[l], b) => new[i] = garage[l][i]
  BY <1>0, ReplacedParks
<1> HIDE DEF new
<1>2. garage'[l] = new /\ \A p \in Players : p # l => garage'[p] = garage[p]
  BY <1>0 DEF new
<1>3. Held(new, b) = c
  BY <1>0, <1>1, <1>2, OneHeld
<1>4. ASSUME NEW d \in Bays, d # b PROVE Held(new, d) = Held(garage[l], d)
  <2>1. \A i \in BayIn(garage[l], d) : i \in DOMAIN garage[l] /\ i \notin BayIn(garage[l], b)
    BY <1>4 DEF BayIn
  <2> QED
    BY <1>0, <1>1, <1>2, <2>1, HeldSame
<1>5. Park' = [Park EXCEPT ![l] = [d \in Bays |-> Held(garage'[l], d)]]
  BY <1>2, ParkStep
<1>6. [d \in Bays |-> Held(garage'[l], d)] = [Park[l] EXCEPT ![b] = c]
  BY <1>2, <1>3, <1>4, ParkIs
<1> QED
  BY <1>5, <1>6, PromiseIs

LEMMA AddedKept ==
  ASSUME TypeOK, NEW l \in Players, NEW b \in Bays, NEW c \in Cars,
         l \notin tangled, tangled' = tangled,
         OneEach(garage[l]), OneEach(garage'[l]),
         garage' = [garage EXCEPT ![l] = Added(l, b, c)], InBay(l, b) = {}
  PROVE  Promise!Put(l, b, c)
<1> DEFINE new == Added(l, b, c)
<1>0. /\ garage \in [Players -> Seq(CarRows)] /\ garage[l] \in Seq(CarRows)
      /\ new \in Seq(CarRows) /\ \A d : InBay(l, d) = BayIn(garage[l], d)
  BY AddedIs, BayIs, Zenon DEF TypeOK
<1>1. /\ \A d : d # b => BayIn(new, d) = BayIn(garage[l], d)
      /\ \E i : BayIn(new, b) = {i} /\ new[i].car = c
      /\ \A i \in DOMAIN garage[l] : new[i] = garage[l][i]
  <2>1. /\ \A d : d # b => BayIn(new, d) = InBay(l, d)
        /\ \E i : BayIn(new, b) = {i} /\ new[i].car = c
        /\ \A i \in DOMAIN garage[l] : new[i] = garage[l][i]
    BY AddedParks, Zenon
  <2> HIDE DEF new
  <2> QED
    BY <1>0, <2>1
<1> HIDE DEF new
<1>2. garage'[l] = new /\ \A p \in Players : p # l => garage'[p] = garage[p]
  BY <1>0 DEF new
<1>3. Held(new, b) = c
  <2>1. PICK i : BayIn(new, b) = {i} /\ new[i].car = c
    BY <1>1
  <2>2. i \in BayIn(new, b)
    BY <2>1
  <2>3. OneEach(new) /\ new \in Seq(CarRows)
    BY <1>0, <1>2
  <2> QED
    BY <2>1, <2>2, <2>3, OneHeld
<1>4. ASSUME NEW d \in Bays, d # b PROVE Held(new, d) = Held(garage[l], d)
  <2>1. \A i \in BayIn(garage[l], d) : i \in DOMAIN garage[l]
    BY DEF BayIn
  <2> QED
    BY <1>0, <1>1, <1>2, <1>4, <2>1, HeldSame
<1>5. Park' = [Park EXCEPT ![l] = [d \in Bays |-> Held(garage'[l], d)]]
  BY <1>2, ParkStep
<1>6. [d \in Bays |-> Held(garage'[l], d)] = [Park[l] EXCEPT ![b] = c]
  BY <1>2, <1>3, <1>4, ParkIs
<1> QED
  BY <1>5, <1>6, PromiseIs

\* Swapping the cars of two bays, or moving one into a bay that shows none.
LEMMA SwapKept ==
  ASSUME TypeOK, NEW l \in Players, NEW a \in Bays, NEW b \in Bays,
         l \notin tangled, tangled' = tangled,
         OneEach(garage[l]), OneEach(garage'[l]),
         \/ garage' = Rebay(l, Swapped(a, b))
         \/ garage' = Rebay(l, Moved(a, b)) /\ InBay(l, b) = {}
  PROVE  Promise!Swap(l, a, b)
<1>0. /\ garage[l] \in Seq(CarRows) /\ BayIn(garage[l], b) = InBay(l, b)
      /\ \A i \in DOMAIN garage[l] : garage[l][i].bay \in Bays
      /\ \A d \in Bays : Swapped(a, b)[d] = IF d = a THEN b ELSE IF d = b THEN a ELSE d
      /\ \A d \in Bays : Moved(a, b)[d] = IF d = a THEN b ELSE d
  BY RowNumbers, BayIs DEF CarRows, Swapped, Moved
<1>1. /\ garage'[l] \in Seq(CarRows)
      /\ \A p \in Players : p # l => garage'[p] = garage[p]
      /\ DOMAIN garage'[l] = DOMAIN garage[l]
      /\ \A i \in DOMAIN garage[l] :
           /\ \/ garage'[l][i].bay = Swapped(a, b)[garage[l][i].bay]
              \/ /\ garage'[l][i].bay = Moved(a, b)[garage[l][i].bay]
                 /\ BayIn(garage[l], b) = {}
           /\ garage'[l][i].car = garage[l][i].car
           /\ garage'[l][i].impounded = garage[l][i].impounded
  <2>1. CASE garage' = Rebay(l, Swapped(a, b))
    <3>1. /\ garage'[l] \in Seq(CarRows)
          /\ \A p \in Players : p # l => garage'[p] = garage[p]
          /\ DOMAIN garage'[l] = DOMAIN garage[l]
          /\ \A i \in DOMAIN garage[l] :
               /\ garage'[l][i].bay = Swapped(a, b)[garage[l][i].bay]
               /\ garage'[l][i].car = garage[l][i].car
               /\ garage'[l][i].impounded = garage[l][i].impounded
      BY <2>1, RebayIs, BaysPermuted DEF GarageTypes
    <3> QED
      BY <3>1
  <2>2. CASE garage' = Rebay(l, Moved(a, b)) /\ InBay(l, b) = {}
    <3>1. /\ garage'[l] \in Seq(CarRows)
          /\ \A p \in Players : p # l => garage'[p] = garage[p]
          /\ DOMAIN garage'[l] = DOMAIN garage[l]
          /\ \A i \in DOMAIN garage[l] :
               /\ garage'[l][i].bay = Moved(a, b)[garage[l][i].bay]
               /\ garage'[l][i].car = garage[l][i].car
               /\ garage'[l][i].impounded = garage[l][i].impounded
      BY <2>2, RebayIs, BaysPermuted DEF GarageTypes
    <3> QED
      BY <1>0, <2>2, <3>1
  <2> QED
    BY <2>1, <2>2
<1>2. ASSUME NEW d \in Bays, NEW e \in Bays, e = Swapped(a, b)[d]
      PROVE  Held(garage'[l], d) = Held(garage[l], e)
  <2>1. ASSUME NEW i \in BayIn(garage'[l], d) PROVE i \in BayIn(garage[l], e)
    BY <1>0, <1>1, <1>2, <2>1 DEF BayIn
  <2>2. ASSUME NEW i \in BayIn(garage[l], e) PROVE i \in BayIn(garage'[l], d)
    BY <1>0, <1>1, <1>2, <2>2 DEF BayIn
  <2>3. \A i \in BayIn(garage[l], e) : garage'[l][i].car = garage[l][i].car
    BY <1>1 DEF BayIn
  <2> QED
    BY <1>0, <1>1, <2>1, <2>2, <2>3, HeldSame
<1>3. Park' = [Park EXCEPT ![l] = [d \in Bays |-> Held(garage'[l], d)]]
  BY <1>1, ParkStep
<1>4. [d \in Bays |-> Held(garage'[l], d)] =
        [[Park[l] EXCEPT ![a] = Park[l][b]] EXCEPT ![b] = Park[l][a]]
  BY <1>0, <1>2, ParkIs
<1>5. Park' = [Park EXCEPT ![l][a] = Park[l][b], ![l][b] = Park[l][a]]
  BY <1>3, <1>4, ParkIs
<1> QED
  BY <1>5, PromiseIs

\* A bay that is cleared, the others as they were.
LEMMA TakenKept ==
  ASSUME NEW l \in Players, NEW b \in Bays,
         l \notin tangled, tangled' = tangled,
         \A p \in Players : p # l => garage'[p] = garage[p],
         BayIn(garage'[l], b) = {},
         \A d \in Bays : d # b => Held(garage'[l], d) = Held(garage[l], d)
  PROVE  Promise!Take(l, b)
<1>1. Park' = [Park EXCEPT ![l] = [d \in Bays |-> Held(garage'[l], d)]]
  BY ParkStep
<1>2. Held(garage'[l], b) = None
  BY Zenon DEF Held
<1>3. [d \in Bays |-> Held(garage'[l], d)] = [Park[l] EXCEPT ![b] = None]
  BY <1>2, ParkIs
<1> QED
  BY <1>1, <1>3, PromiseIs

LEMMA RemoveKept ==
  ASSUME TypeOK, NEW l \in Players, NEW b \in Bays, RemoveCar(l, b),
         l \notin tangled, tangled' = tangled,
         OneEach(garage[l]), OneEach(garage'[l])
  PROVE  Promise!Take(l, b)
<1>0. garage[l] \in Seq(CarRows) /\ garage'[l] \in Seq(CarRows)
  BY RowNumbers, RemoveCarIs DEF GarageTypes
<1> DEFINE left == {i \in DOMAIN garage[l] : garage[l][i].bay # b}
<1>1. PICK old \in Bijection(DOMAIN garage'[l], left) :
        \A i \in DOMAIN garage'[l] : garage'[l][i] = garage[l][old[i]]
  BY RemoveCarIs
<1>2. \A i \in DOMAIN garage'[l] : old[i] \in left
  BY <1>1 DEF Bijection, Injection
<1>3. \A j \in left : \E i \in DOMAIN garage'[l] : old[i] = j
  BY <1>1 DEF Bijection, Surjection
<1>4. BayIn(garage'[l], b) = {}
  BY <1>1, <1>2 DEF BayIn
<1>5. ASSUME NEW d \in Bays, d # b PROVE Held(garage'[l], d) = Held(garage[l], d)
  <2>1. \A i \in BayIn(garage'[l], d) :
          old[i] \in BayIn(garage[l], d) /\ garage'[l][i] = garage[l][old[i]]
    BY <1>1, <1>2 DEF BayIn
  <2>2. \A j \in BayIn(garage[l], d) :
          \E i \in BayIn(garage'[l], d) : garage'[l][i].car = garage[l][j].car
    BY <1>1, <1>3, <1>5 DEF BayIn
  <2> QED
    BY <1>0, <2>1, <2>2, HeldSame
<1> QED
  BY <1>4, <1>5, RemoveCarIs, TakenKept

\* To a bay's only car the administrator does what Take does, and what Put does to a bay
\* that shows none.
LEMMA ImpoundKept ==
  ASSUME TypeOK, NEW l \in Players, NEW i \in DOMAIN garage[l],
         l \notin tangled, tangled' = tangled,
         OneEach(garage[l]), OneEach(garage'[l]),
         Impound(l, i) \/ Release(l, i)
  PROVE  \E b \in Bays : Promise!Take(l, b) \/ \E c \in Cars : Promise!Put(l, b, c)
<1> DEFINE b == garage[l][i].bay
           c == garage[l][i].car
<1>0. garage[l] \in Seq(CarRows) /\ b \in Bays /\ c \in Cars
  BY RowNumbers DEF CarRows
<1>1. PICK flag \in BOOLEAN : garage' = [garage EXCEPT ![l][i].impounded = flag]
  BY DEF Impound, Release
<1>2. /\ garage'[l] \in Seq(CarRows)
      /\ \A p \in Players : p # l => garage'[p] = garage[p]
      /\ DOMAIN garage'[l] = DOMAIN garage[l]
      /\ \A j \in DOMAIN garage[l] :
           /\ garage'[l][j].bay = garage[l][j].bay
           /\ garage'[l][j].car = garage[l][j].car
           /\ j # i => garage'[l][j].impounded = garage[l][j].impounded
      /\ garage'[l][i].impounded = flag
  <2>1. /\ GarageTypes'
        /\ \A p \in Players : p # l => garage'[p] = garage[p]
        /\ DOMAIN garage'[l] = DOMAIN garage[l]
        /\ \A j \in DOMAIN garage[l] :
             /\ garage'[l][j].bay = garage[l][j].bay
             /\ garage'[l][j].car = garage[l][j].car
             /\ garage'[l][j].impounded = IF j = i THEN flag ELSE garage[l][j].impounded
    BY <1>1, ImpoundIs, Zenon
  <2> QED
    BY <2>1 DEF GarageTypes
<1>3. ASSUME NEW d \in Bays, d # b PROVE Held(garage'[l], d) = Held(garage[l], d)
  <2>1. BayIn(garage'[l], d) = BayIn(garage[l], d)
    BY <1>2, <1>3 DEF BayIn
  <2>2. \A j \in BayIn(garage[l], d) : garage'[l][j].car = garage[l][j].car
    BY <1>2 DEF BayIn
  <2> QED
    BY <1>0, <1>2, <2>1, <2>2, HeldSame
<1>4. CASE flag
  <2>1. ~garage[l][i].impounded
    <3>1. CASE Impound(l, i)
      BY <3>1 DEF Impound, Shown
    <3>2. CASE Release(l, i)
      <4>1. garage' = [garage EXCEPT ![l][i].impounded = FALSE]
        BY <3>2 DEF Release
      <4>2. ~garage'[l][i].impounded
        BY <4>1, ImpoundIs
      <4> QED
        BY <1>2, <1>4, <4>2
    <3> QED
      BY <3>1, <3>2
  <2>2. BayIn(garage'[l], b) = {}
    BY <1>2, <1>4, <2>1 DEF BayIn, OneEach
  <2>3. Promise!Take(l, b)
    BY <1>0, <1>2, <1>3, <2>2, TakenKept
  <2> QED
    BY <1>0, <2>3
<1>5. ASSUME NEW e \in Bays, NEW x \in Cars, e = b, x = c, ~flag PROVE Promise!Put(l, e, x)
  <2>1. i \in BayIn(garage'[l], e)
    BY <1>2, <1>5 DEF BayIn
  <2>2. Held(garage'[l], e) = x
    BY <1>2, <1>5, <2>1, OneHeld
  <2>3. Park' = [Park EXCEPT ![l] = [d \in Bays |-> Held(garage'[l], d)]]
    BY <1>2, ParkStep
  <2>4. [d \in Bays |-> Held(garage'[l], d)] = [Park[l] EXCEPT ![e] = x]
    BY <1>3, <1>5, <2>2, ParkIs
  <2> QED
    BY <2>3, <2>4, PromiseIs
<1> QED
  BY <1>0, <1>4, <1>5

\* Moving a car into a bay that shows one changes what the bays hold only if it leaves
\* one beside another.
LEMMA MoveKept ==
  ASSUME TypeOK, NEW l \in Players, NEW a \in Bays, NEW b \in Bays, MoveCar(l, a, b),
         l \notin tangled, tangled' = tangled,
         OneEach(garage[l]), OneEach(garage'[l])
  PROVE  Promise!Move(l, a, b) /\ (UNCHANGED Park \/ Promise!Swap(l, a, b))
<1>1. garage' = Rebay(l, Moved(a, b)) /\ (a = b \/ InBay(l, a) = {} \/ InBay(l, b) = {})
  BY DEF MoveCar
<1>2. CASE InBay(l, b) = {}
  <2>1. Promise!Swap(l, a, b)
    BY <1>1, <1>2, SwapKept
  <2>2. Park[l][b] = None
    BY <1>2, Zenon DEF Park
  <2> QED
    BY <2>1, <2>2, PromiseIs
<1>3. CASE InBay(l, b) # {} /\ (a = b \/ InBay(l, a) = {})
  <2>1. /\ garage[l] \in Seq(CarRows) /\ garage'[l] \in Seq(CarRows)
        /\ \A p \in Players : p # l => garage'[p] = garage[p]
        /\ DOMAIN garage'[l] = DOMAIN garage[l]
        /\ \A i \in DOMAIN garage[l] :
             /\ garage'[l][i].bay = Moved(a, b)[garage[l][i].bay]
             /\ garage'[l][i].car = garage[l][i].car
             /\ garage'[l][i].impounded = garage[l][i].impounded
    BY <1>1, RebayIs, BaysPermuted, RowNumbers DEF GarageTypes
  <2>b. \A i \in DOMAIN garage[l] : garage[l][i].bay \in Bays
    BY RowNumbers DEF CarRows
  <2>2. \A d \in Bays : Moved(a, b)[d] = IF d = a THEN b ELSE d
    BY DEF Moved
  <2>3. ASSUME NEW d \in Bays PROVE Held(garage'[l], d) = Held(garage[l], d)
    <3>1. BayIn(garage'[l], d) = BayIn(garage[l], d)
      <4>1. \A i \in DOMAIN garage[l] : ~garage[l][i].impounded => a = b \/ garage[l][i].bay # a
        BY <1>3 DEF InBay, Shown
      <4> QED
        BY <2>1, <2>b, <2>2, <4>1 DEF BayIn
    <3>2. \A i \in BayIn(garage[l], d) : garage'[l][i].car = garage[l][i].car
      BY <2>1 DEF BayIn
    <3> QED
      BY <2>1, <3>1, <3>2, HeldSame
  <2>4. Park' = Park
    BY <2>1, <2>3, ParkIs
  <2>5. a = b \/ Park[l][a] = None
    BY <1>3, Zenon DEF Park
  <2> QED
    BY <2>4, <2>5, PromiseIs
<1> QED
  BY <1>1, <1>2, <1>3

LEMMA RowOf == ASSUME NEW rs \in Seq(CarRows) PROVE \A n \in DOMAIN rs : rs[n] \in CarRows
OBVIOUS

\* Whatever happens to the rows of one player, only the garage of that player changes.
LEMMA MixKept ==
  ASSUME NEW l \in Players, \A p \in Players : p # l => garage'[p] = garage[p],
         garage'[l] \in Seq(CarRows), tangled' = tangled \cup {l}
  PROVE  Promise!Next
<1> DEFINE any == [b \in Bays |-> Held(garage'[l], b)]
<1>1. any \in [Bays -> Cars \cup {None}]
  <2>1. ASSUME NEW b \in Bays PROVE Held(garage'[l], b) \in Cars \cup {None}
    <3>1. CASE BayIn(garage'[l], b) = {}
      BY <3>1 DEF Held
    <3>2. ASSUME NEW S, S = BayIn(garage'[l], b), S # {} PROVE garage'[l][First(S)].car \in Cars
      <4>1. S \in SUBSET Nat /\ S \subseteq DOMAIN garage'[l]
        BY <3>2 DEF BayIn
      <4>2. First(S) \in S
        BY <3>2, <4>1, FirstIsFirst
      <4>3. garage'[l][First(S)] \in CarRows
        BY <4>1, <4>2, RowOf
      <4> QED
        BY <4>3 DEF CarRows
    <3> QED
      BY <3>1, <3>2, Zenon DEF Held
  <2> QED
    BY <2>1
<1>2. Park' = [Park EXCEPT ![l] = any]
  BY ParkStep
<1> HIDE DEF any
<1>3. Promise!Mix(l)
  BY <1>1, <1>2, PromiseIs
<1> QED
  BY <1>3, Zenon DEF Promise!Next

\* Only the rows of this player change.
OnlyGarage(l) ==
  /\ \A p \in Players : p # l => garage'[p] = garage[p]
  /\ garage'[l] \in Seq(CarRows)
  /\ tangled' \in {tangled, tangled \cup {l}}

\* A request for one player is the step of Garage that its name says, and any step for
\* a player of whose garage nothing is promised is one of Garage, too.
LEMMA RequestKept ==
  ASSUME TypeOK, BaysHoldOneCar, BaysHoldOneCar', NEW l \in Players, l \notin tangled'
  PROVE  /\ \A a, b \in Bays : SwapCars(l, a, b) => Promise!Swap(l, a, b)
         /\ \A a, b \in Bays : MoveCar(l, a, b) =>
              Promise!Move(l, a, b) /\ (UNCHANGED <<Park, tangled>> \/ Promise!Swap(l, a, b))
         /\ \A b \in Bays : RemoveCar(l, b) => Promise!Take(l, b)
         /\ \A i \in DOMAIN garage[l] : Impound(l, i) \/ Release(l, i) => Promise!Next
<1>1. l \notin tangled => OneEach(garage[l]) /\ OneEach(garage'[l])
  <2>1. BaysHoldOneCar' <=> \A k \in Players \ tangled' : OneEach(garage'[k])
    BY DEF BaysHoldOneCar, OneEach, Shown
  <2> QED
    BY <2>1, OneEachIs
<1>2. ASSUME NEW a \in Bays, NEW b \in Bays, SwapCars(l, a, b) PROVE Promise!Swap(l, a, b)
  <2>1. tangled' = tangled /\ garage' = Rebay(l, Swapped(a, b))
    BY <1>2 DEF SwapCars, history
  <2> QED
    BY <1>1, <2>1, SwapKept
<1>3. ASSUME NEW a \in Bays, NEW b \in Bays, MoveCar(l, a, b)
      PROVE  Promise!Move(l, a, b) /\ (UNCHANGED <<Park, tangled>> \/ Promise!Swap(l, a, b))
  <2>1. tangled' = tangled
    BY <1>3 DEF MoveCar
  <2> QED
    BY <1>1, <1>3, <2>1, MoveKept
<1>4. ASSUME NEW b \in Bays, RemoveCar(l, b) PROVE Promise!Take(l, b)
  <2>1. tangled' = tangled
    BY <1>4 DEF RemoveCar, history
  <2> QED
    BY <1>1, <1>4, <2>1, RemoveKept
<1>5. ASSUME NEW i \in DOMAIN garage[l], Impound(l, i) \/ Release(l, i) PROVE Promise!Next
  <2>1. tangled' = tangled
    BY <1>5 DEF Impound, Release, history
  <2>2. \E b \in Bays : Promise!Take(l, b) \/ \E c \in Cars : Promise!Put(l, b, c)
    BY <1>1, <1>5, <2>1, ImpoundKept
  <2> QED
    BY <2>2, Zenon DEF Promise!Next
<1> QED
  BY <1>2, <1>3, <1>4, <1>5

LEMMA RequestOfOne ==
  ASSUME TypeOK, NEW l \in Players
  PROVE  /\ \A a, b \in Bays : SwapCars(l, a, b) \/ MoveCar(l, a, b) => OnlyGarage(l)
         /\ \A b \in Bays : RemoveCar(l, b) => OnlyGarage(l)
         /\ \A i \in DOMAIN garage[l] : Impound(l, i) \/ Release(l, i) => OnlyGarage(l)
<1>1. ASSUME NEW a \in Bays, NEW b \in Bays, SwapCars(l, a, b) \/ MoveCar(l, a, b)
      PROVE  OnlyGarage(l)
  <2>1. garage' = Rebay(l, Swapped(a, b)) \/ garage' = Rebay(l, Moved(a, b))
    BY <1>1 DEF SwapCars, MoveCar
  <2>2. tangled' \in {tangled, tangled \cup {l}}
    BY <1>1, Zenon DEF SwapCars, MoveCar, history
  <2>3. garage'[l] \in Seq(CarRows) /\ \A p \in Players : p # l => garage'[p] = garage[p]
    BY <2>1, RebayIs, BaysPermuted DEF GarageTypes
  <2> QED
    BY <2>2, <2>3 DEF OnlyGarage
<1>2. ASSUME NEW b \in Bays, RemoveCar(l, b) PROVE OnlyGarage(l)
  BY <1>2, RemoveCarIs DEF OnlyGarage, GarageTypes, RemoveCar, history
<1>3. ASSUME NEW i \in DOMAIN garage[l], Impound(l, i) \/ Release(l, i) PROVE OnlyGarage(l)
  <2>1. \E flag \in BOOLEAN : garage' = [garage EXCEPT ![l][i].impounded = flag]
    BY <1>3 DEF Impound, Release
  <2>2. tangled' \in {tangled, tangled \cup {l}}
    BY <1>3, Zenon DEF Impound, Release, history
  <2> QED
    BY <2>1, <2>2, ImpoundIs DEF OnlyGarage, GarageTypes
<1> QED
  BY <1>1, <1>2, <1>3

\* A car that is saved is put into its bay, or beside another.
LEMMA SaveCarKept ==
  ASSUME TypeOK, BaysHoldOneCar, BaysHoldOneCar', SaveCar
  PROVE  /\ job.player \notin tangled' =>
              \/ UNCHANGED garage
              \/ Promise!Put(job.player, job.cars[job.at].bay, job.cars[job.at].car)
         /\ Promise!Next \/ UNCHANGED <<garage, tangled>>
<1>0. /\ job.player \in Players /\ job.cars[job.at].bay \in Bays
      /\ job.cars[job.at].car \in Cars
  BY CarSaved
<1>1. ASSUME NEW l \in Players, NEW b \in Bays, NEW c \in Cars,
             l = job.player, b = job.cars[job.at].bay, c = job.cars[job.at].car
      PROVE  /\ l \notin tangled' => \/ UNCHANGED garage
                                     \/ Park' = [Park EXCEPT ![l][b] = c] /\ l \notin tangled /\ tangled' = tangled
             /\ Promise!Next \/ UNCHANGED <<garage, tangled>>
  <2>1. \/ UNCHANGED <<garage, tangled>>
        \/ /\ garage' = [garage EXCEPT ![l] = Replaced(l, b, c)]
           /\ tangled' = tangled
           /\ InBay(l, b) # {}
        \/ /\ garage' = [garage EXCEPT ![l] = Added(l, b, c)]
           /\ tangled' = IF InBay(l, b) # {} THEN tangled \cup {l} ELSE tangled
    BY <1>1, SaveCarIs
  <2>2. BaysHoldOneCar' <=> \A k \in Players \ tangled' : OneEach(garage'[k])
    BY DEF BaysHoldOneCar, OneEach, Shown
  <2>3. CASE UNCHANGED <<garage, tangled>>
    BY <2>3
  <2>4. CASE l \in tangled' /\ ~UNCHANGED <<garage, tangled>>
    <3>1. garage \in [Players -> Seq(CarRows)] /\ tangled' = tangled \cup {l}
      BY <2>1, <2>4 DEF TypeOK
    <3>2. Replaced(l, b, c) \in Seq(CarRows) /\ Added(l, b, c) \in Seq(CarRows)
      BY ReplacedIs, AddedIs, Zenon
    <3>3. garage'[l] \in Seq(CarRows) /\ \A p \in Players : p # l => garage'[p] = garage[p]
      BY <2>1, <2>4, <3>1, <3>2
    <3> QED
      BY <2>4, <3>1, <3>3, MixKept
  <2>5. CASE l \notin tangled' /\ ~UNCHANGED <<garage, tangled>>
    <3>1. tangled' = tangled /\ l \notin tangled /\ OneEach(garage[l]) /\ OneEach(garage'[l])
      BY <2>1, <2>2, <2>5, OneEachIs
    <3>2. \/ garage' = [garage EXCEPT ![l] = Replaced(l, b, c)] /\ InBay(l, b) # {}
          \/ garage' = [garage EXCEPT ![l] = Added(l, b, c)] /\ InBay(l, b) = {}
      BY <2>1, <2>5
    <3>3. Promise!Put(l, b, c)
      BY <3>1, <3>2, ReplacedKept, AddedKept
    <3>4. Promise!Next
      BY <3>3, Zenon DEF Promise!Next
    <3> QED
      BY <3>1, <3>3, <3>4, PromiseIs
  <2> QED
    BY <2>3, <2>4, <2>5
<1>2. /\ job.player \notin tangled' =>
           \/ UNCHANGED garage
           \/ /\ Park' = [Park EXCEPT ![job.player][job.cars[job.at].bay] = job.cars[job.at].car]
              /\ job.player \notin tangled /\ tangled' = tangled
      /\ Promise!Next \/ UNCHANGED <<garage, tangled>>
  BY <1>0, <1>1
<1> QED
  BY <1>2, Zenon DEF Promise!Put, Park

\* The garages that Save, the garage requests and the administrator keep are those of
\* Garage.tla, request by request, until two cars get into one bay.
THEOREM GarageKept == Spec => GarageAsPromised
<1>1. Init => Promise!Init
  <2> SUFFICES ASSUME Init PROVE Promise!Init
    OBVIOUS
  <2>1. tangled = {} /\ \A l \in Players, b \in Bays : InBay(l, b) = {}
    BY DEF Init, InBay, Shown
  <2> QED
    BY <2>1, Zenon DEF Promise!Init
<1>2. ASSUME TypeOK, BaysHoldOneCar, [Next]_vars
      PROVE  KeepsPromise /\ [Promise!Next]_(Promise!garageVars)
  <2>0. BaysHoldOneCar'
    BY <1>2, OneCarStep
  <2>1. UNCHANGED <<garage, tangled>> \/ UNCHANGED <<Park, tangled>> => UNCHANGED Promise!garageVars
    BY PromiseIs, ParkIs
  <2>2. KeepsPromise
    BY <1>2, <2>0, SaveCarKept, RequestKept, Zenon DEF KeepsPromise
  <2>3. ASSUME NEW l \in Players, OnlyGarage(l), l \in tangled' PROVE [Promise!Next]_(Promise!garageVars)
    <3>1. CASE l \in tangled \/ tangled' # tangled
      BY <2>3, <3>1, MixKept DEF OnlyGarage
    <3>2. CASE l \notin tangled /\ tangled' = tangled
      BY <2>3, <3>2
    <3> QED
      BY <3>1, <3>2
  <2>4. ASSUME NEW l \in Players, NEW a \in Bays, NEW b \in Bays,
               Promise!Take(l, b) \/ Promise!Swap(l, a, b)
        PROVE  Promise!Next
    BY <2>4, Zenon DEF Promise!Next
  <2>5. ASSUME NEW l \in Players, NEW a \in Bays, NEW b \in Bays,
               SwapCars(l, a, b) \/ MoveCar(l, a, b) \/ RemoveCar(l, b)
        PROVE  [Promise!Next]_(Promise!garageVars)
    <3>1. OnlyGarage(l)
      BY <1>2, <2>5, RequestOfOne
    <3>2. CASE l \notin tangled'
      BY <1>2, <2>0, <2>1, <2>4, <2>5, <3>2, RequestKept
    <3> QED
      BY <2>3, <3>1, <3>2
  <2>6. ASSUME NEW l \in Players, NEW i \in DOMAIN garage[l], Impound(l, i) \/ Release(l, i)
        PROVE  [Promise!Next]_(Promise!garageVars)
    <3>1. OnlyGarage(l)
      BY <1>2, <2>6, RequestOfOne
    <3>2. CASE l \notin tangled'
      BY <1>2, <2>0, <2>6, <3>2, RequestKept
    <3> QED
      BY <2>3, <3>1, <3>2
  <2>7. ASSUME SaveCar PROVE [Promise!Next]_(Promise!garageVars)
    <3>1. Promise!Next \/ UNCHANGED <<garage, tangled>>
      BY <1>2, <2>0, <2>7, SaveCarKept
    <3>2. UNCHANGED <<garage, tangled>> => UNCHANGED Promise!garageVars
      BY <2>1, Zenon
    <3> QED
      BY <3>1, <3>2
  <2>8. ASSUME UNCHANGED <<garage, tangled>> PROVE [Promise!Next]_(Promise!garageVars)
    <3>1. UNCHANGED Promise!garageVars
      BY <2>1, <2>8, Zenon
    <3> QED
      BY <3>1
  <2>9. [Promise!Next]_(Promise!garageVars)
    BY <1>2, <2>5, <2>6, <2>7, <2>8, GarageStep
  <2> QED
    BY <2>2, <2>9
<1>3. TypeOK /\ BaysHoldOneCar /\ [Next]_vars => [KeepsPromise]_vars /\ [Promise!Next]_(Promise!garageVars)
  BY <1>2
<1> QED
  BY <1>1, <1>3, TypeCorrect, OneCarPerBay, PTL DEF Spec, GarageAsPromised, Promise!Spec
=============================================================================
