---------------------------- MODULE SchemaProofs ----------------------------
(***************************************************************************)
(* Proofs about checkDB (Schema.tla), for any number of processes and of    *)
(* tables, whatever statements fail and whoever is killed.                  *)
(***************************************************************************)
EXTENDS Schema, TLAPS

\* What a process relies on: the tables before the one it is at are there, and
\* that one too when it goes on to the default account or to the definition.
BehindIsMade ==
  \A p \in Procs :
    /\ at[p] \in Working => 1 .. table[p] - 1 \subseteq made
    /\ at[p] \in {"insert", "describe"} => table[p] \in made
    /\ at[p] = "started" => Tables \subseteq made

\* That the database says whether a CREATE succeeded (MySQL is asked again), or
\* that it always does.
CreatesAreSeen == Backend = "mysql" \/ "update" \notin Faults

-----------------------------------------------------------------------------
LEMMA OnlyOutcome == ASSUME "update" \notin Faults PROVE Outcomes("update") = {TRUE}
  BY DEF Outcomes

\* The types hold when the program is installed.
LEMMA TypeInit == Init => TypeOK
  BY ConstantsOK DEF Init, TypeOK, Tables, Working

\* Every step keeps the types.
LEMMA TypeStep == TypeOK /\ [Next]_vars => TypeOK'
<1> SUFFICES ASSUME TypeOK, [Next]_vars PROVE TypeOK'
  OBVIOUS
<1>0. NumTables \in Nat /\ NumTables >= 1 /\ Tables = 1 .. NumTables
  BY ConstantsOK DEF Tables
<1>1. ASSUME NEW p \in Procs, Launch(p) PROVE TypeOK'
  BY <1>0, <1>1 DEF Launch, Go, TypeOK, Working
<1>2. ASSUME NEW p \in Procs, Probe(p) PROVE TypeOK'
  BY <1>2 DEF Probe, Go, TypeOK, Working
<1>3. ASSUME NEW p \in Procs, Create(p) PROVE TypeOK'
  <2>1. table[p] \in Tables
    BY DEF TypeOK
  <2>2. made' \subseteq Tables
    BY <1>3, <2>1 DEF Create, TypeOK
  <2> QED
    BY <1>3, <2>2 DEF Create, AfterCreate, Go, TypeOK, Working
<1>4. ASSUME NEW p \in Procs, LookAgain(p) PROVE TypeOK'
  BY <1>4 DEF LookAgain, AfterCreate, Go, TypeOK, Working
<1>5. ASSUME NEW p \in Procs, InsertDefault(p) PROVE TypeOK'
  BY <1>5 DEF InsertDefault, Inserted, Go, TypeOK, Working
<1>6. ASSUME NEW p \in Procs, Describe(p) PROVE TypeOK'
  BY <1>0, <1>6 DEF Describe, Last, Go, TypeOK, Working
<1>7. ASSUME NEW p \in Procs, DescribeDies(p) \/ Killed(p) \/ Ends(p) PROVE TypeOK'
  BY <1>7 DEF DescribeDies, Killed, Ends, Go, TypeOK, Working
<1>8. CASE Administer
  BY <1>8 DEF Administer, TypeOK
<1>9. CASE UNCHANGED vars
  BY <1>9 DEF vars, TypeOK
<1> QED
  BY <1>1, <1>2, <1>3, <1>4, <1>5, <1>6, <1>7, <1>8, <1>9 DEF Next

\* The variables have their types: the tables are those of the list, and every
\* process is at one of the steps of checkDB and at one of the tables.
THEOREM TypeCorrect == Spec => []TypeOK
  BY TypeInit, TypeStep, PTL DEF Spec

-----------------------------------------------------------------------------
\* Tables are never dropped.
LEMMA MadeGrows == TypeOK /\ [Next]_vars => made \subseteq made'
  BY DEF Next, vars, Launch, Probe, Create, LookAgain, InsertDefault, Describe, DescribeDies,
         Killed, Ends, Administer

\* No process has started when the program is installed.
LEMMA BehindInit == Init => BehindIsMade
  BY DEF Init, BehindIsMade, Working

\* What holds of a process goes on to hold while it does nothing itself.
LEMMA BehindKept ==
  ASSUME TypeOK, BehindIsMade, [Next]_vars, NEW p \in Procs,
         at'[p] = at[p], table'[p] = table[p]
  PROVE  /\ at'[p] \in Working => 1 .. table'[p] - 1 \subseteq made'
         /\ at'[p] \in {"insert", "describe"} => table'[p] \in made'
         /\ at'[p] = "started" => Tables \subseteq made'
<1>1. made \subseteq made'
  BY MadeGrows
<1> QED
  BY <1>1, Zenon DEF BehindIsMade

\* A step of a process to a place where it relies on nothing new.
LEMMA BehindStep ==
  ASSUME TypeOK, BehindIsMade, [Next]_vars, NEW p \in Procs,
         at' = [at EXCEPT ![p] = at'[p]], table' = [table EXCEPT ![p] = table'[p]],
         at'[p] \in Working => 1 .. table'[p] - 1 \subseteq made',
         at'[p] \in {"insert", "describe"} => table'[p] \in made',
         at'[p] = "started" => Tables \subseteq made'
  PROVE  BehindIsMade'
<1> SUFFICES ASSUME NEW q \in Procs
             PROVE  /\ at'[q] \in Working => 1 .. table'[q] - 1 \subseteq made'
                    /\ at'[q] \in {"insert", "describe"} => table'[q] \in made'
                    /\ at'[q] = "started" => Tables \subseteq made'
  BY Zenon DEF BehindIsMade
<1>1. CASE q = p
  BY <1>1
<1>2. CASE q # p
  <2>1. at'[q] = at[q] /\ table'[q] = table[q]
    BY <1>2 DEF TypeOK
  <2> QED
    BY <2>1, BehindKept
<1> QED
  BY <1>1, <1>2

\* Every step keeps what the processes rely on, if CREATE is seen to succeed.
LEMMA BehindPreserved ==
  ASSUME CreatesAreSeen PROVE TypeOK /\ BehindIsMade /\ [Next]_vars => BehindIsMade'
<1> SUFFICES ASSUME TypeOK, BehindIsMade, [Next]_vars PROVE BehindIsMade'
  OBVIOUS
<1>0. NumTables \in Nat /\ NumTables >= 1 /\ Tables = 1 .. NumTables
  BY ConstantsOK DEF Tables
<1>m. made \subseteq made'
  BY MadeGrows
<1>t. \A p \in Procs : table[p] \in Tables /\ at[p] \in Working \cup {"out", "started", "failed"}
  BY DEF TypeOK
<1>f. DOMAIN at = Procs /\ DOMAIN table = Procs
  BY DEF TypeOK
<1>1. ASSUME NEW p \in Procs, Launch(p) PROVE BehindIsMade'
  <2>1. at'[p] = "probe" /\ table'[p] = 1
    BY <1>1, <1>f DEF Launch, Go, TypeOK
  <2>2. at' = [at EXCEPT ![p] = at'[p]] /\ table' = [table EXCEPT ![p] = table'[p]]
    BY <1>1, <2>1 DEF Launch, Go
  <2>3. 1 .. table'[p] - 1 \subseteq made'
    BY <2>1
  <2> QED
    BY <2>1, <2>2, <2>3, BehindStep
<1>2. ASSUME NEW p \in Procs, Probe(p) PROVE BehindIsMade'
  <2>1. table' = table /\ at'[p] \in {"describe", "create"} /\ at' = [at EXCEPT ![p] = at'[p]]
    BY <1>2, <1>f DEF Probe, Go, TypeOK
  <2>2. at'[p] = "describe" => table[p] \in made
    BY <1>2, <1>f DEF Probe, Go, Finds, TypeOK
  <2>3. 1 .. table[p] - 1 \subseteq made
    BY <1>2 DEF Probe, BehindIsMade, Working
  <2>4. table' = [table EXCEPT ![p] = table'[p]]
    BY <2>1 DEF TypeOK
  <2> QED
    BY <1>m, <2>1, <2>2, <2>3, <2>4, BehindStep
<1>3. ASSUME NEW p \in Procs, Create(p) PROVE BehindIsMade'
  <2>1. /\ table' = table /\ at'[p] \in {"again", "insert", "describe"}
        /\ at' = [at EXCEPT ![p] = at'[p]]
    BY <1>3, <1>f DEF Create, AfterCreate, Go, TypeOK
  <2>2. at'[p] # "again" => Backend # "mysql"
    BY <1>3, <1>f DEF Create, Go, TypeOK
  <2>3. ASSUME at'[p] # "again" PROVE table[p] \in made'
    <3>1. Outcomes("update") = {TRUE}
      BY <2>2, <2>3, OnlyOutcome DEF CreatesAreSeen
    <3>2. made' = made \cup {table[p]}
      BY <1>3, <3>1 DEF Create
    <3> QED
      BY <3>2
  <2>4. 1 .. table[p] - 1 \subseteq made
    BY <1>3 DEF Create, BehindIsMade, Working
  <2>5. table' = [table EXCEPT ![p] = table'[p]]
    BY <2>1 DEF TypeOK
  <2> QED
    BY <1>m, <2>1, <2>3, <2>4, <2>5, BehindStep
<1>4. ASSUME NEW p \in Procs, LookAgain(p) PROVE BehindIsMade'
  <2>1. /\ table' = table /\ at'[p] \in {"insert", "describe", "failed"}
        /\ at' = [at EXCEPT ![p] = at'[p]]
    BY <1>4, <1>f DEF LookAgain, AfterCreate, Go, TypeOK
  <2>2. at'[p] # "failed" => table[p] \in made
    BY <1>4, <1>f DEF LookAgain, Go, Finds, TypeOK
  <2>3. 1 .. table[p] - 1 \subseteq made
    BY <1>4 DEF LookAgain, BehindIsMade, Working
  <2>4. table' = [table EXCEPT ![p] = table'[p]]
    BY <2>1 DEF TypeOK
  <2> QED
    BY <1>m, <2>1, <2>2, <2>3, <2>4, BehindStep
<1>5. ASSUME NEW p \in Procs, InsertDefault(p) PROVE BehindIsMade'
  <2>1. table' = table /\ at'[p] = "describe" /\ at' = [at EXCEPT ![p] = at'[p]]
    BY <1>5, <1>f DEF InsertDefault, Go, TypeOK
  <2>2. table[p] \in made /\ 1 .. table[p] - 1 \subseteq made
    BY <1>5 DEF InsertDefault, BehindIsMade, Working
  <2>3. table' = [table EXCEPT ![p] = table'[p]]
    BY <2>1 DEF TypeOK
  <2> QED
    BY <1>m, <2>1, <2>2, <2>3, BehindStep
<1>6. ASSUME NEW p \in Procs, Describe(p) PROVE BehindIsMade'
  <2>1. table[p] \in made /\ 1 .. table[p] - 1 \subseteq made
    BY <1>6 DEF Describe, BehindIsMade, Working
  <2>2. 1 .. table[p] \subseteq made
    BY <1>t, <1>0, <2>1
  <2>3. CASE table[p] >= Last
    <3>1. table' = table /\ at'[p] = "started" /\ at' = [at EXCEPT ![p] = at'[p]]
      BY <1>6, <2>3, <1>f DEF Describe, Go, TypeOK
    <3>2. Tables \subseteq made
      BY <1>0, <1>t, <2>2, <2>3 DEF Last
    <3>3. table' = [table EXCEPT ![p] = table'[p]]
      BY <3>1 DEF TypeOK
    <3>4. at'[p] \notin Working
      BY <3>1 DEF Working
    <3> QED
      BY <1>m, <3>1, <3>2, <3>3, <3>4, BehindStep
  <2>4. CASE ~(table[p] >= Last)
    <3>1. at'[p] = "probe" /\ at' = [at EXCEPT ![p] = at'[p]]
      BY <1>6, <2>4, <1>f DEF Describe, Go, TypeOK
    <3>2. table'[p] = table[p] + 1 /\ table' = [table EXCEPT ![p] = table'[p]]
      BY <1>6, <2>4, <1>f DEF Describe, TypeOK
    <3>3. 1 .. table'[p] - 1 \subseteq made'
      BY <1>0, <1>t, <1>m, <2>2, <3>2
    <3> QED
      BY <3>1, <3>2, <3>3, BehindStep
  <2> QED
    BY <2>3, <2>4
<1>7. ASSUME NEW p \in Procs, DescribeDies(p) \/ Killed(p) \/ Ends(p) PROVE BehindIsMade'
  <2>1. table' = table /\ at'[p] = "out" /\ at' = [at EXCEPT ![p] = at'[p]]
    BY <1>7, <1>f DEF DescribeDies, Killed, Ends, Go, TypeOK
  <2>2. table' = [table EXCEPT ![p] = table'[p]]
    BY <2>1 DEF TypeOK
  <2>3. at'[p] \notin Working
    BY <2>1 DEF Working
  <2> QED
    BY <2>1, <2>2, <2>3, BehindStep
<1>8. CASE Administer
  BY <1>8, BehindKept DEF Administer, BehindIsMade
<1>9. CASE UNCHANGED vars
  BY <1>9, BehindKept DEF vars, BehindIsMade
<1> QED
  BY <1>1, <1>2, <1>3, <1>4, <1>5, <1>6, <1>7, <1>8, <1>9 DEF Next

\* Who gets through checkDB finds every table there, on MySQL whatever fails, and on
\* SQLite as long as no CREATE does.
THEOREM TablesThere == ASSUME CreatesAreSeen PROVE Spec => []StartedHasTables
<1>1. Init => TypeOK /\ BehindIsMade
  BY TypeInit, BehindInit
<1>2. TypeOK /\ BehindIsMade /\ [Next]_vars => TypeOK' /\ BehindIsMade'
  BY TypeStep, BehindPreserved
<1>3. TypeOK /\ BehindIsMade => StartedHasTables
  BY DEF TypeOK, BehindIsMade, StartedHasTables
<1> QED
  BY <1>1, <1>2, <1>3, PTL DEF Spec

-----------------------------------------------------------------------------
\* The default account that has a password of its own does not get the first one
\* again, on either database.
THEOREM DefaultKept == Spec => DefaultNeverReset
<1>1. TypeOK /\ [Next]_vars => (default = "set" => default' # "fresh")
  <2> SUFFICES ASSUME TypeOK, [Next]_vars, default = "set" PROVE default' # "fresh"
    OBVIOUS
  <2>1. ASSUME NEW p \in Procs, InsertDefault(p) PROVE default' # "fresh"
    BY <2>1 DEF InsertDefault, Inserted
  <2>2. CASE Administer
    BY <2>2 DEF Administer
  <2>3. ASSUME default' = default PROVE default' # "fresh"
    BY <2>3
  <2> QED
    BY <2>1, <2>2, <2>3 DEF Next, vars, Launch, Probe, Create, LookAgain, Describe,
         DescribeDies, Killed, Ends
<1> QED
  BY <1>1, TypeCorrect, PTL DEF Spec, DefaultNeverReset
=============================================================================
