-------------------------------- MODULE Schema --------------------------------
(***************************************************************************)
(* checkDB: every start of the server and every command looks for the       *)
(* tables, one after the other, and creates those that are missing; with     *)
(* account_data it inserts the default account.  Several processes may do    *)
(* so at a time, each may be killed, and a statement may fail.              *)
(***************************************************************************)
EXTENDS Integers

CONSTANTS
  Backend,    \* "sqlite" or "mysql"
  Procs,      \* the processes
  NumTables,  \* account_data is the first table
  Faults,     \* the statements that may fail: "query", "update"
  Kills       \* whether processes are killed

ASSUME ConstantsOK ==
  /\ Backend \in {"sqlite", "mysql"}
  /\ NumTables \in Nat \ {0}
  /\ Faults \subseteq {"query", "update"}
  /\ Kills \in BOOLEAN

VARIABLES
  made,     \* the tables that exist
  default,  \* the default account: "none", "fresh" as inserted, "set", or "deleted"
  at,       \* what each process does next
  table     \* the table it does it to

vars == <<made, default, at, table>>

Tables == 1 .. NumTables

Working == {"probe", "create", "again", "insert", "describe"}

TypeOK ==
  /\ made \subseteq Tables
  /\ default \in {"none", "fresh", "set", "deleted"}
  /\ at \in [Procs -> Working \cup {"out", "started", "failed"}]
  /\ table \in [Procs -> Tables]

Init ==
  /\ made = {}
  /\ default = "none"
  /\ at = [p \in Procs |-> "out"]
  /\ table = [p \in Procs |-> 1]

Outcomes(kind) == IF kind \in Faults THEN BOOLEAN ELSE {TRUE}

Go(p, step) == at' = [at EXCEPT ![p] = step]

\* A query for a table that fails finds nothing, like one for a table that is not there.
Finds(p, ok) == ok /\ table[p] \in made

Launch(p) ==
  /\ at[p] = "out"
  /\ Go(p, "probe")
  /\ table' = [table EXCEPT ![p] = 1]
  /\ UNCHANGED <<made, default>>

Probe(p) ==
  /\ at[p] = "probe"
  /\ \E ok \in Outcomes("query") : Go(p, IF Finds(p, ok) THEN "describe" ELSE "create")
  /\ UNCHANGED <<made, default, table>>

\* What comes after a table was created: the default account, for the first one.
AfterCreate(p) == IF table[p] = 1 THEN "insert" ELSE "describe"

CreateUnverified(p) ==
  /\ at[p] = "create"
  /\ \E ok \in Outcomes("update") : made' = IF ok THEN made \cup {table[p]} ELSE made
  /\ Go(p, AfterCreate(p))
  /\ UNCHANGED <<default, table>>

\* SQLite's Exec returns the number of rows, so a CREATE that failed looks like
\* SQLITE_OK; for MySQL the table is looked for again.
Create(p) ==
  /\ at[p] = "create"
  /\ \E ok \in Outcomes("update") : made' = IF ok THEN made \cup {table[p]} ELSE made
  /\ Go(p, IF Backend = "mysql" THEN "again" ELSE AfterCreate(p))
  /\ UNCHANGED <<default, table>>

LookAgain(p) ==
  /\ at[p] = "again"
  /\ \E ok \in Outcomes("query") : Go(p, IF Finds(p, ok) THEN AfterCreate(p) ELSE "failed")
  /\ UNCHANGED <<made, default, table>>

Replaced == IF 1 \in made THEN "fresh" ELSE default

\* The license of the default account is a primary key.
Inserted == IF 1 \in made /\ default \in {"none", "deleted"} THEN "fresh" ELSE default

InsertDefault(p) ==
  /\ at[p] = "insert"
  /\ \E ok \in Outcomes("update") : default' = IF ok THEN Inserted ELSE default
  /\ Go(p, "describe")
  /\ UNCHANGED <<made, table>>

Last == NumTables

\* The definition of the table is read, whether or not the query found one: without
\* rows the process reads behind an empty list and goes on with whatever is there.
Describe(p) ==
  /\ at[p] = "describe"
  /\ table[p] \in made \/ table[p] > 1
  /\ IF table[p] >= Last
       THEN Go(p, "started") /\ UNCHANGED table
       ELSE Go(p, "probe") /\ table' = [table EXCEPT ![p] = @ + 1]
  /\ UNCHANGED <<made, default>>

\* Or it dies of that; and the list that was never filled has no memory at all.
DescribeDies(p) ==
  /\ at[p] = "describe"
  /\ table[p] \notin made \/ "query" \in Faults
  /\ Go(p, "out")
  /\ UNCHANGED <<made, default, table>>

Killed(p) ==
  /\ Kills
  /\ at[p] \in Working
  /\ Go(p, "out")
  /\ UNCHANGED <<made, default, table>>

\* The process ends, sooner or later.
Ends(p) ==
  /\ at[p] \in {"started", "failed"}
  /\ Go(p, "out")
  /\ UNCHANGED <<made, default, table>>

\* The administrator gives the default account a password, or deletes it.
Administer ==
  /\ default \in {"fresh", "set"}
  /\ default' \in {"set", "deleted"}
  /\ UNCHANGED <<made, at, table>>

Next ==
  \/ \E p \in Procs :
       \/ Launch(p) \/ Probe(p) \/ Create(p) \/ LookAgain(p) \/ InsertDefault(p)
       \/ Describe(p) \/ DescribeDies(p) \/ Killed(p) \/ Ends(p)
  \/ Administer

Spec == Init /\ [][Next]_vars

-------------------------------------------------------------------------------
\* Whoever gets through checkDB finds every table there, however many processes
\* create tables at a time, fail to, and are killed doing it: no one relies on a
\* table that another one was about to create (server.cpp:570-789).
StartedHasTables == \A p \in Procs : at[p] = "started" => made = Tables

\* The default account, once it has a password of its own, never gets the one it came
\* with again, whoever believes that there is no account_data (server.cpp:587, :694).
DefaultNeverReset == [][default = "set" => default' # "fresh"]_vars
===============================================================================
