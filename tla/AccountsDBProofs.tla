-------------------------- MODULE AccountsDBProofs --------------------------
(***************************************************************************)
(* Proofs about the commands of AccountsDB.tla, for any number of            *)
(* administrators, names, passwords and keys, on both databases.            *)
(***************************************************************************)
EXTENDS AccountsDB, HandleDB, SequenceTheorems, TLAPS

LEMMA DefaultTyped == Default \in Rows /\ DefaultName \in Names
<1>1. DefaultName \in Names
  BY ConstantsOK DEF DefaultName
<1> QED
  BY <1>1 DEF Default, Rows, Forms

LEMMA NoProcessTyped == NoProcess \in Processes
  BY DEF NoProcess, Processes

-----------------------------------------------------------------------------
\* The types hold when the tables were created.
LEMMA TypeInit == Init => TypeOK
<1> SUFFICES ASSUME Init PROVE TypeOK
  OBVIOUS
<1>1. accounts \in Seq(Rows)
  BY DefaultTyped DEF Init
<1>2. proc \in [Admins -> Processes] /\ \A p \in Admins : proc[p].at = "ready"
  BY NoProcessTyped DEF Init, NoProcess
<1> QED
  BY <1>1, <1>2 DEF Init, TypeOK

\* What one process must be like when it is changed.
ProcOK(r) ==
  /\ r \in Processes
  /\ r.at \in {"insert", "update"} => r.name \in Names /\ r.pw \in Passwords
  /\ r.at = "key" => r.key \in Keys

LEMMA ProcsOK ==
  ASSUME TypeOK, NEW p \in Admins, NEW r, ProcOK(r), proc' = [proc EXCEPT ![p] = r]
  PROVE  /\ proc' \in [Admins -> Processes]
         /\ \A q \in Admins :
              /\ proc'[q].at \in {"insert", "update"} =>
                   proc'[q].name \in Names /\ proc'[q].pw \in Passwords
              /\ proc'[q].at = "key" => proc'[q].key \in Keys
<1>1. proc \in [Admins -> Processes]
  BY DEF TypeOK
<1>2. \A q \in Admins : proc'[q] = IF q = p THEN r ELSE proc[q]
  BY <1>1
<1>3. \A q \in Admins : ProcOK(proc'[q])
  BY <1>1, <1>2 DEF TypeOK, ProcOK
<1>4. proc' \in [Admins -> Processes]
  BY <1>1 DEF ProcOK
<1> QED
  BY <1>3, <1>4 DEF ProcOK

LEMMA StartOK ==
  ASSUME NEW cmd \in {"create", "set"}, NEW at \in {"insert", "update"},
         NEW name \in Names, NEW pw \in Passwords
  PROVE  ProcOK([NoProcess EXCEPT !.at = at, !.cmd = cmd, !.name = name, !.pw = pw])
  BY NoProcessTyped DEF ProcOK, NoProcess, Processes

LEMMA ReportOK ==
  ASSUME NEW cmd \in {"create", "set", "key"}, NEW result \in {"ok", "failed"}
  PROVE  ProcOK([NoProcess EXCEPT !.at = "done", !.cmd = cmd, !.result = result])
  BY NoProcessTyped DEF ProcOK, NoProcess, Processes

LEMMA ReportForOK ==
  ASSUME TypeOK, NEW p \in Admins, NEW result \in {"ok", "failed"}
  PROVE  /\ ProcOK([proc[p] EXCEPT !.at = "done", !.result = result])
         /\ ReportFor(p, result) =>
              proc' = [proc EXCEPT ![p] = [proc[p] EXCEPT !.at = "done", !.result = result]]
<1>1. proc[p] \in Processes /\ proc \in [Admins -> Processes]
  BY DEF TypeOK
<1> QED
  BY <1>1 DEF ProcOK, Processes, ReportFor

LEMMA InsertedTyped ==
  ASSUME TypeOK, NEW name \in Names, NEW pw \in Passwords
  PROVE  Inserted(name, pw) \in Seq(Rows)
<1>1. [name |-> name, form |-> NewForm, pw |-> pw] \in Rows
  BY DEF Rows, Forms, NewForm
<1> QED
  BY <1>1 DEF Inserted, TypeOK

LEMMA UpdatedTyped ==
  ASSUME TypeOK, NEW S, NEW pw \in Passwords
  PROVE  [i \in DOMAIN accounts |->
            IF i \in S THEN [accounts[i] EXCEPT !.pw = pw] ELSE accounts[i]] \in Seq(Rows)
<1>1. /\ accounts \in Seq(Rows) /\ DOMAIN accounts = 1 .. Len(accounts)
      /\ \A i \in DOMAIN accounts : accounts[i] \in Rows
  BY DEF TypeOK
<1>2. \A r \in Rows : [r EXCEPT !.pw = pw] \in Rows
  BY DEF Rows
<1> QED
  BY <1>1, <1>2

\* Nobody changes the configured database.
LEMMA SameBackend == TypeOK /\ [Next]_vars => backend' = backend /\ backend' \in Backends
BY DEF TypeOK, Next, vars

\* Every step keeps the types.
LEMMA TypeStep == TypeOK /\ [Next]_vars => TypeOK'
<1> SUFFICES ASSUME TypeOK, [Next]_vars PROVE TypeOK'
  OBVIOUS
<1>0. backend' \in Backends
  BY SameBackend
<1> USE <1>0
<1>1. ASSUME NEW p \in Admins, NEW name \in Names, NEW pw \in Passwords, Create(p, name, pw)
      PROVE  TypeOK'
  <2>1. proc' = [proc EXCEPT ![p] = [NoProcess EXCEPT !.at = "insert", !.cmd = "create",
                                                     !.name = name, !.pw = pw]]
    BY <1>1 DEF Create, Start
  <2>2. missed' \subseteq Names /\ raced' \subseteq Names
    BY <1>1 DEF Create, TypeOK
  <2>3. UNCHANGED <<accounts, keys, keyfile, lost, torn>>
    BY <1>1 DEF Create, tables
  <2> QED
    BY <2>1, <2>2, <2>3, StartOK, ProcsOK DEF TypeOK
<1>2. ASSUME NEW p \in Admins, NEW name \in Names, NEW pw \in Passwords,
             SetPassword(p, name, pw)
      PROVE  TypeOK'
  <2>1. proc' = [proc EXCEPT ![p] = [NoProcess EXCEPT !.at = "update", !.cmd = "set",
                                                     !.name = name, !.pw = pw]]
    BY <1>2 DEF SetPassword, Start
  <2> QED
    BY <1>2, <2>1, StartOK, ProcsOK DEF SetPassword, tables, history, TypeOK
<1>3. ASSUME NEW p \in Admins, NEW name \in Names, NEW pw \in Passwords, SetRefused(p, name, pw)
      PROVE  TypeOK'
  <2> DEFINE r == [NoProcess EXCEPT !.at = "done", !.cmd = "set", !.name = name, !.pw = pw,
                                    !.result = "failed"]
  <2>1. ProcOK(r)
    BY NoProcessTyped DEF ProcOK, NoProcess, Processes
  <2>2. proc' = [proc EXCEPT ![p] = r]
    BY <1>3 DEF SetRefused
  <2> HIDE DEF r
  <2> QED
    BY <1>3, <2>1, <2>2, ProcsOK DEF SetRefused, tables, history, TypeOK
<1>4. ASSUME NEW p \in Admins, NEW name \in Names, CreateRefused(p, name) PROVE TypeOK'
  <2>1. proc' = [proc EXCEPT ![p] = [NoProcess EXCEPT !.at = "done", !.cmd = "create",
                                                     !.result = "failed"]]
    BY <1>4 DEF CreateRefused, Report
  <2> QED
    BY <1>4, <2>1, ReportOK, ProcsOK DEF CreateRefused, tables, history, TypeOK
<1>5. ASSUME NEW p \in Admins, Insert(p) PROVE TypeOK'
  <2>1. proc[p].name \in Names /\ proc[p].pw \in Passwords
    BY <1>5 DEF Insert, TypeOK
  <2>2. accounts' \in Seq(Rows) /\ lost' \subseteq Names
    BY <1>5, <2>1, InsertedTyped DEF Insert, TypeOK
  <2>3. ReportFor(p, "ok") /\ UNCHANGED <<keys, keyfile, missed, raced, torn>>
    BY <1>5 DEF Insert
  <2> QED
    BY <2>2, <2>3, ReportForOK, ProcsOK DEF TypeOK
<1>6. ASSUME NEW p \in Admins, UpdatePassword(p) PROVE TypeOK'
  <2>1. proc[p].pw \in Passwords
    BY <1>6 DEF UpdatePassword, TypeOK
  <2>2. accounts' \in Seq(Rows)
    <3>1. accounts \in Seq(Rows)
      BY DEF TypeOK
    <3> QED
      BY <1>6, <2>1, <3>1, UpdatedTyped, Zenon DEF UpdatePassword
  <2>3. ReportFor(p, "ok") /\ UNCHANGED <<keys, keyfile, history>>
    BY <1>6 DEF UpdatePassword
  <2> QED
    BY <2>2, <2>3, ReportForOK, ProcsOK DEF TypeOK, history
<1>7. ASSUME NEW p \in Admins, NEW k \in Keys, WriteKeyFile(p, k) PROVE TypeOK'
  <2> DEFINE r == [NoProcess EXCEPT !.at = "key", !.cmd = "key", !.key = k]
  <2>1. ProcOK(r)
    BY NoProcessTyped DEF ProcOK, NoProcess, Processes
  <2>2. proc' = [proc EXCEPT ![p] = r]
    BY <1>7 DEF WriteKeyFile
  <2> HIDE DEF r
  <2> QED
    BY <1>7, <2>1, <2>2, ProcsOK DEF WriteKeyFile, TypeOK
<1>8. ASSUME NEW p \in Admins, KeyFileRefused(p) PROVE TypeOK'
  <2>1. proc' = [proc EXCEPT ![p] = [NoProcess EXCEPT !.at = "done", !.cmd = "key",
                                                     !.result = "failed"]]
    BY <1>8 DEF KeyFileRefused, Report
  <2> QED
    BY <1>8, <2>1, ReportOK, ProcsOK DEF KeyFileRefused, tables, history, TypeOK
<1>9. ASSUME NEW p \in Admins, InsertKey(p) PROVE TypeOK'
  <2>1. proc[p].key \in Keys
    BY <1>9 DEF InsertKey, TypeOK
  <2>2. keys' \subseteq Keys /\ torn' \subseteq Keys
    BY <1>9, <2>1 DEF InsertKey, KeysWith, TypeOK
  <2>3. ReportFor(p, "ok") /\ UNCHANGED <<accounts, keyfile, lost, missed, raced>>
    BY <1>9 DEF InsertKey
  <2> QED
    BY <2>2, <2>3, ReportForOK, ProcsOK DEF TypeOK
<1>10. ASSUME NEW p \in Admins, KeyNotOpened(p) PROVE TypeOK'
  <2>1. proc[p].key \in Keys
    BY <1>10 DEF KeyNotOpened, TypeOK
  <2>2. ReportFor(p, "failed") /\ torn' \subseteq Keys
    BY <1>10, <2>1 DEF KeyNotOpened, TypeOK
  <2> QED
    BY <1>10, <2>2, ReportForOK, ProcsOK DEF KeyNotOpened, tables, TypeOK
<1>11. ASSUME NEW p \in Admins, Killed(p) PROVE TypeOK'
  <2>1. torn' \subseteq Keys
    BY <1>11 DEF Killed, TypeOK
  <2>2. ProcOK(NoProcess) /\ proc' = [proc EXCEPT ![p] = NoProcess]
    BY <1>11, NoProcessTyped DEF Killed, ProcOK, NoProcess
  <2> QED
    BY <1>11, <2>1, <2>2, ProcsOK DEF Killed, tables, TypeOK
<1>12. ASSUME NEW p \in Admins, Again(p) PROVE TypeOK'
  <2>2. ProcOK(NoProcess) /\ proc' = [proc EXCEPT ![p] = NoProcess]
    BY <1>12, NoProcessTyped DEF Again, ProcOK, NoProcess
  <2> QED
    BY <1>12, <2>2, ProcsOK DEF Again, tables, history, TypeOK
<1>13. CASE UNCHANGED vars
  BY <1>13 DEF vars, tables, history, TypeOK
<1> QED
  BY <1>1, <1>2, <1>3, <1>4, <1>5, <1>6, <1>7, <1>8, <1>9, <1>10, <1>11, <1>12, <1>13 DEF Next, AdminStep

\* The variables have their types: every account has a username and a password or
\* the default one, and a process between its two statements knows what it does.
THEOREM TypeCorrect == Spec => []TypeOK
  BY TypeInit, TypeStep, PTL DEF Spec

-----------------------------------------------------------------------------
\* The row that an -createaccount adds.
Row(p) == [name |-> proc[p].name, form |-> NewForm, pw |-> proc[p].pw]

Added(p) ==
  /\ Insert(p)
  /\ Insertable(proc[p].name)
  /\ accounts' = Append(accounts, Row(p))

\* What a step does to the accounts: nothing, one more row, or other passwords.
LEMMA AccountsStep ==
  ASSUME TypeOK, [Next]_vars
  PROVE  \/ accounts' = accounts
         \/ \E p \in Admins : Added(p)
         \/ \E p \in Admins : UpdatePassword(p)
<1>1. ASSUME NEW p \in Admins, Insert(p) PROVE accounts' = accounts \/ Added(p)
  BY <1>1, Zenon DEF Insert, Inserted, Added, Row
<1> QED
  BY <1>1, Zenon DEF Next, AdminStep, vars, tables, Create, SetPassword, SetRefused, CreateRefused,
     WriteKeyFile, KeyFileRefused, InsertKey, KeyNotOpened, Killed, Again

\* A row that was added is the last one, behind those that were there.
LEMMA RowAdded ==
  ASSUME TypeOK, NEW p \in Admins, Added(p)
  PROVE  /\ DOMAIN accounts' = DOMAIN accounts \cup {Len(accounts) + 1}
         /\ Len(accounts) + 1 \notin DOMAIN accounts
         /\ \A i \in DOMAIN accounts : accounts'[i] = accounts[i]
         /\ accounts'[Len(accounts) + 1] = Row(p)
<1>1. accounts \in Seq(Rows) /\ accounts' = Append(accounts, Row(p))
  BY DEF TypeOK, Added
<1> HIDE DEF Row
<1> QED
  BY <1>1

\* An update of passwords leaves the names alone, and all rows but those of its name.
LEMMA RowsUpdated ==
  ASSUME TypeOK, NEW p \in Admins, UpdatePassword(p)
  PROVE  /\ DOMAIN accounts' = DOMAIN accounts
         /\ \A i \in DOMAIN accounts :
              /\ accounts'[i].name = accounts[i].name /\ accounts'[i].form = accounts[i].form
              /\ accounts'[i].pw # accounts[i].pw =>
                   i \in SameText(proc[p].name) /\ accounts'[i].pw = proc[p].pw
<1>1. accounts \in Seq(Rows) /\ \A i \in DOMAIN accounts : accounts[i] \in Rows
  BY DEF TypeOK
<1>2. CASE accounts' = accounts
  BY <1>2
<1>3. CASE accounts' = [i \in DOMAIN accounts |->
                 IF i \in SameText(proc[p].name) THEN [accounts[i] EXCEPT !.pw = proc[p].pw]
                 ELSE accounts[i]]
  BY <1>1, <1>3 DEF Rows
<1> QED
  BY <1>2, <1>3, Zenon DEF UpdatePassword

\* No account disappears or gets another name.
LEMMA NamesKept ==
  ASSUME TypeOK, [Next]_vars, NEW i \in DOMAIN accounts
  PROVE  /\ i \in DOMAIN accounts'
         /\ accounts'[i].name = accounts[i].name /\ accounts'[i].form = accounts[i].form
<1>1. ASSUME NEW p \in Admins, Added(p)
      PROVE  /\ i \in DOMAIN accounts'
             /\ accounts'[i].name = accounts[i].name /\ accounts'[i].form = accounts[i].form
  BY <1>1, RowAdded
<1>2. ASSUME NEW p \in Admins, UpdatePassword(p)
      PROVE  /\ i \in DOMAIN accounts'
             /\ accounts'[i].name = accounts[i].name /\ accounts'[i].form = accounts[i].form
  BY <1>2, RowsUpdated
<1> QED
  BY <1>1, <1>2, AccountsStep

\* Accounts stay, and only -setpassword changes a password, for its own name.
THEOREM PasswordsKept == Spec => OnlySetPasswordChanges
<1>1. ASSUME TypeOK, [Next]_vars, NEW i \in DOMAIN accounts, accounts'[i].pw # accounts[i].pw
      PROVE  \E p \in Admins : /\ proc[p].at = "update" /\ proc'[p].at = "done"
                               /\ proc[p].name.word = accounts[i].name.word
                               /\ proc[p].pw = accounts'[i].pw
  <2>1. ~\E p \in Admins : Added(p)
    BY <1>1, RowAdded
  <2>2. PICK p \in Admins : UpdatePassword(p)
    BY <1>1, <2>1, AccountsStep
  <2>3. i \in SameText(proc[p].name) /\ accounts'[i].pw = proc[p].pw
    BY <1>1, <2>2, RowsUpdated
  <2>4. proc[p].name.word = accounts[i].name.word
    BY <2>3 DEF SameText
  <2>5. proc[p].at = "update" /\ ReportFor(p, "ok")
    BY <2>2 DEF UpdatePassword
  <2>6. proc[p] \in Processes /\ proc \in [Admins -> Processes]
    BY <1>1 DEF TypeOK
  <2>7. proc'[p].at = "done"
    BY <2>5, <2>6 DEF ReportFor, Processes
  <2> QED
    BY <2>3, <2>4, <2>5, <2>7
<1>2. TypeOK /\ [Next]_vars =>
        \A i \in DOMAIN accounts :
          /\ i \in DOMAIN accounts' /\ accounts'[i].name = accounts[i].name
          /\ accounts'[i].pw # accounts[i].pw =>
               \E p \in Admins : /\ proc[p].at = "update" /\ proc'[p].at = "done"
                                 /\ proc[p].name.word = accounts[i].name.word
                                 /\ proc[p].pw = accounts'[i].pw
  BY <1>1, NamesKept, Zenon
<1> QED
  BY <1>2, TypeCorrect, PTL DEF Spec, OnlySetPasswordChanges

-----------------------------------------------------------------------------
\* A step changes no other process.
LEMMA OthersKept ==
  ASSUME TypeOK, NEW p \in Admins, AdminStep(p), NEW q \in Admins, q # p
  PROVE  proc'[q] = proc[q]
<1>1. proc \in [Admins -> Processes]
  BY DEF TypeOK
<1> QED
  BY <1>1 DEF AdminStep, Create, SetPassword, SetRefused, CreateRefused, WriteKeyFile,
     KeyFileRefused, InsertKey, KeyNotOpened, Killed, Again, Insert, UpdatePassword, Start,
     Report, ReportFor

LEMMA OwnStep ==
  ASSUME TypeOK, [Next]_vars, NEW q \in Admins
  PROVE  proc'[q] = proc[q] \/ AdminStep(q)
<1>1. CASE UNCHANGED vars
  BY <1>1 DEF vars
<1>2. ASSUME NEW p \in Admins, AdminStep(p) PROVE proc'[q] = proc[q] \/ AdminStep(q)
  <2>1. CASE q = p
    BY <1>2, <2>1
  <2>2. CASE q # p
    BY <1>2, <2>2, OthersKept
  <2> QED
    BY <2>1, <2>2
<1> QED
  BY <1>1, <1>2 DEF Next

LEMMA HistoryGrows ==
  TypeOK /\ [Next]_vars => lost \subseteq lost' /\ missed \subseteq missed' /\ raced \subseteq raced'
  BY DEF Next, AdminStep, vars, history, Create, SetPassword, SetRefused, CreateRefused, WriteKeyFile,
     KeyFileRefused, InsertKey, KeyNotOpened, Killed, Again, Insert, UpdatePassword

\* That these accounts have one of this name.
HasAccount(accts, name) ==
  \E i \in DOMAIN accts : accts[i].name = name /\ accts[i].form = NewForm

LEMMA HasAccountIs ==
  /\ \A name : SameBytes(name) # {} <=> HasAccount(accounts, name)
  /\ CreatedNameExists <=>
       \A p \in Admins : proc[p].cmd = "create" /\ proc[p].result = "ok" =>
         proc[p].name \in lost \/ HasAccount(accounts, proc[p].name)
<1>1. \A name : SameBytes(name) # {} <=> HasAccount(accounts, name)
  BY DEF SameBytes, HasAccount
<1> QED
  BY <1>1, Zenon DEF CreatedNameExists

\* A name that has an account keeps it.
LEMMA AccountKept ==
  ASSUME TypeOK, [Next]_vars
  PROVE  \A name : HasAccount(accounts, name) => HasAccount(accounts', name)
<1> SUFFICES ASSUME NEW name, NEW i \in DOMAIN accounts, accounts[i].name = name,
                    accounts[i].form = NewForm
             PROVE  HasAccount(accounts', name)
  BY DEF HasAccount
<1>1. i \in DOMAIN accounts' /\ accounts'[i].name = name /\ accounts'[i].form = NewForm
  BY NamesKept
<1> QED
  BY <1>1 DEF HasAccount

\* After an INSERT that was executed there is an account of the name: the new one, or
\* the one that made SQLite refuse it.
LEMMA InsertLeavesName ==
  ASSUME TypeOK, NEW p \in Admins, Insert(p)
  PROVE  proc[p].name \in lost' \/ HasAccount(accounts', proc[p].name)
<1>1. CASE Insertable(proc[p].name) /\ accounts' = Append(accounts, Row(p))
  <2>1. Added(p)
    BY <1>1 DEF Added
  <2>2. Len(accounts) + 1 \in DOMAIN accounts' /\ accounts'[Len(accounts) + 1] = Row(p)
    BY <2>1, RowAdded
  <2> QED
    BY <2>2 DEF HasAccount, Row
<1>2. CASE ~Insertable(proc[p].name) /\ accounts' = accounts
  <2>1. SameBytes(proc[p].name) # {}
    BY <1>2 DEF Insertable
  <2> QED
    BY <1>2, <2>1, HasAccountIs
<1>3. CASE lost' = lost \cup {proc[p].name}
  BY <1>3
<1> QED
  BY <1>1, <1>2, <1>3, Zenon DEF Insert, Inserted, Row

\* What a process runs tells which statement comes next.
CmdFits ==
  \A p \in Admins :
    /\ proc[p].at = "update" => proc[p].cmd = "set"
    /\ proc[p].at = "key" => proc[p].cmd = "key"

CreatedInv == CmdFits /\ CreatedNameExists

\* Where a step of its own takes a process.
LEMMA OwnCmd ==
  ASSUME TypeOK, CmdFits, NEW q \in Admins, AdminStep(q)
  PROVE  /\ proc'[q].at = "update" => proc'[q].cmd = "set"
         /\ proc'[q].at = "key" => proc'[q].cmd = "key"
         /\ ~Insert(q) => proc'[q].cmd # "create" \/ proc'[q].result # "ok"
<1> DEFINE Goal == /\ proc'[q].at = "update" => proc'[q].cmd = "set"
                   /\ proc'[q].at = "key" => proc'[q].cmd = "key"
                   /\ ~Insert(q) => proc'[q].cmd # "create" \/ proc'[q].result # "ok"
<1>0. proc \in [Admins -> Processes] /\ proc[q] \in Processes
  BY DEF TypeOK
<1>1. ASSUME NEW name \in Names, NEW pw \in Passwords,
             Create(q, name, pw) \/ SetPassword(q, name, pw) \/ SetRefused(q, name, pw)
      PROVE  Goal
  BY <1>0, <1>1 DEF Create, SetPassword, SetRefused, Start, NoProcess
<1>2. ASSUME NEW name \in Names, CreateRefused(q, name) PROVE Goal
  BY <1>0, <1>2 DEF CreateRefused, Report, NoProcess
<1>3. CASE Insert(q)
  BY <1>0, <1>3 DEF Insert, ReportFor, Processes
<1>4. CASE UpdatePassword(q)
  BY <1>0, <1>4 DEF UpdatePassword, ReportFor, Processes, CmdFits
<1>5. ASSUME NEW k \in Keys, WriteKeyFile(q, k) PROVE Goal
  BY <1>0, <1>5 DEF WriteKeyFile, NoProcess
<1>6. CASE KeyFileRefused(q)
  BY <1>0, <1>6 DEF KeyFileRefused, Report, NoProcess
<1>7. CASE InsertKey(q) \/ KeyNotOpened(q)
  BY <1>0, <1>7 DEF InsertKey, KeyNotOpened, ReportFor, Processes, CmdFits
<1>8. CASE Killed(q) \/ Again(q)
  BY <1>0, <1>8 DEF Killed, Again, NoProcess
<1> QED
  BY <1>1, <1>2, <1>3, <1>4, <1>5, <1>6, <1>7, <1>8, Zenon DEF AdminStep

LEMMA CreatedStep == TypeOK /\ CreatedInv /\ [Next]_vars => CreatedInv'
<1> SUFFICES ASSUME TypeOK, CreatedInv, [Next]_vars PROVE CreatedInv'
  OBVIOUS
<1>0. proc \in [Admins -> Processes]
  BY DEF TypeOK
<1>1. ASSUME NEW q \in Admins
      PROVE  /\ proc'[q].at = "update" => proc'[q].cmd = "set"
             /\ proc'[q].at = "key" => proc'[q].cmd = "key"
  BY OwnStep, OwnCmd, Zenon DEF CreatedInv, CmdFits
<1>2. ASSUME NEW q \in Admins, proc'[q].cmd = "create", proc'[q].result = "ok"
      PROVE  proc'[q].name \in lost' \/ HasAccount(accounts', proc'[q].name)
  <2>1. CASE proc'[q] = proc[q]
    <3>1. proc[q].name \in lost \/ HasAccount(accounts, proc[q].name)
      BY <1>2, <2>1, HasAccountIs, Zenon DEF CreatedInv
    <3> QED
      BY <2>1, <3>1, HistoryGrows, AccountKept
  <2>2. CASE Insert(q)
    <3>1. proc'[q].name = proc[q].name
      BY <1>0, <2>2 DEF Insert, ReportFor, Processes
    <3> QED
      BY <2>2, <3>1, InsertLeavesName
  <2>3. CASE AdminStep(q) /\ ~Insert(q)
    <3>1. proc'[q].cmd # "create" \/ proc'[q].result # "ok"
      BY <2>3, OwnCmd DEF CreatedInv
    <3> QED
      BY <1>2, <3>1
  <2> QED
    BY <2>1, <2>2, <2>3, OwnStep
<1>3. CmdFits'
  BY <1>1, Zenon DEF CmdFits
<1>4. CreatedNameExists'
  <2>1. CreatedNameExists' <=>
           \A p \in Admins : proc'[p].cmd = "create" /\ proc'[p].result = "ok" =>
             proc'[p].name \in lost' \/ SameBytes(proc[p].name)' # {}
    BY Zenon DEF CreatedNameExists
  <2>2. ASSUME NEW p \in Admins, HasAccount(accounts', proc'[p].name)
        PROVE  SameBytes(proc[p].name)' # {}
    BY <2>2, SameBackend DEF HasAccount, SameBytes, NewForm
  <2> QED
    BY <1>2, <2>1, <2>2, Zenon
<1> QED
  BY <1>3, <1>4, Zenon DEF CreatedInv

\* A reported -createaccount has its account, unless the INSERT itself failed.
THEOREM CreatedThere == Spec => []CreatedNameExists
<1>1. Init => CreatedInv
  BY DEF Init, NoProcess, CreatedInv, CmdFits, CreatedNameExists
<1>2. CreatedInv => CreatedNameExists
  BY DEF CreatedInv
<1> QED
  BY <1>1, <1>2, CreatedStep, TypeCorrect, PTL DEF Spec

-----------------------------------------------------------------------------
\* The key of the file is accounted for.
LEMMA KeyFileStep == TypeOK /\ KeyFileIsAccepted /\ [Next]_vars => KeyFileIsAccepted'
<1> SUFFICES ASSUME TypeOK, KeyFileIsAccepted, [Next]_vars, backend = "sqlite", keyfile' # None
             PROVE  \/ keyfile' \in keys' \cup torn'
                    \/ \E p \in Admins : proc'[p].at = "key" /\ proc'[p].key = keyfile'
  BY SameBackend, Zenon DEF KeyFileIsAccepted
<1>0. proc \in [Admins -> Processes]
  BY DEF TypeOK
<1>1. ASSUME NEW p \in Admins, NEW k \in Keys, WriteKeyFile(p, k)
      PROVE  proc'[p].at = "key" /\ proc'[p].key = keyfile'
  BY <1>0, <1>1 DEF WriteKeyFile, NoProcess
<1>2. ASSUME keyfile' = keyfile, keys \subseteq keys', torn \subseteq torn',
             \A p \in Admins : proc[p].at = "key" =>
               proc'[p] = proc[p] \/ proc[p].key \in keys' \cup torn'
      PROVE  \/ keyfile' \in keys' \cup torn'
             \/ \E p \in Admins : proc'[p].at = "key" /\ proc'[p].key = keyfile'
  <2>1. CASE keyfile \in keys \cup torn
    BY <1>2, <2>1
  <2>2. ASSUME NEW p \in Admins, proc[p].at = "key", proc[p].key = keyfile
        PROVE  \/ keyfile' \in keys' \cup torn'
               \/ \E q \in Admins : proc'[q].at = "key" /\ proc'[q].key = keyfile'
    BY <1>2, <2>2
  <2> QED
    BY <1>2, <2>1, <2>2 DEF KeyFileIsAccepted
<1>3. CASE UNCHANGED vars
  BY <1>2, <1>3 DEF vars, tables, history
<1>4. ASSUME NEW p \in Admins, AdminStep(p), ~\E k \in Keys : WriteKeyFile(p, k)
      PROVE  \/ keyfile' \in keys' \cup torn'
             \/ \E q \in Admins : proc'[q].at = "key" /\ proc'[q].key = keyfile'
  <2>1. keyfile' = keyfile
    BY <1>4 DEF AdminStep, tables, Create, SetPassword, SetRefused, CreateRefused, KeyFileRefused,
       InsertKey, KeyNotOpened, Killed, Again, Insert, UpdatePassword
  <2>2. keys \subseteq keys' /\ torn \subseteq torn'
    BY <1>4 DEF AdminStep, tables, history, Create, SetPassword, SetRefused, CreateRefused,
       KeyFileRefused, InsertKey, KeysWith, KeyNotOpened, Killed, Again, Insert, UpdatePassword
  <2>3. proc[p].at = "key" => proc[p].key \in keys' \cup torn'
    <3>1. CASE InsertKey(p)
      BY <3>1 DEF InsertKey, KeysWith
    <3>2. CASE KeyNotOpened(p) \/ Killed(p)
      BY <3>2 DEF KeyNotOpened, Killed
    <3> QED
      BY <1>4, <3>1, <3>2 DEF AdminStep, Create, SetPassword, SetRefused, CreateRefused,
         KeyFileRefused, Again, Insert, UpdatePassword
  <2>4. \A q \in Admins : q # p => proc'[q] = proc[q]
    BY <1>4, OthersKept
  <2> QED
    BY <1>2, <2>1, <2>2, <2>3, <2>4
<1> QED
  BY <1>1, <1>3, <1>4 DEF Next

\* With SQLite, the key in the file is in the table, on its way, or of a command that
\* failed or was killed.
THEOREM FileKeyAccepted == Spec => []KeyFileIsAccepted
<1>1. Init => KeyFileIsAccepted
  BY DEF Init, KeyFileIsAccepted
<1> QED
  BY <1>1, KeyFileStep, TypeCorrect, PTL DEF Spec

-----------------------------------------------------------------------------
\* Whoever is about to insert a name that has an account had a query that failed, or
\* met another who was about to insert it.
InsertsExcused ==
  /\ \A p \in Admins : proc[p].at = "insert" /\ HasAccount(accounts, proc[p].name) =>
       proc[p].name \in raced \cup missed
  /\ \A p, q \in Admins :
       proc[p].at = "insert" /\ proc[q].at = "insert" /\ proc[p].name = proc[q].name =>
         p = q \/ proc[p].name \in raced

\* Two rows alike in name and form: a second blob SQLite refuses.
RowsUnique ==
  \A i, j \in DOMAIN accounts :
    accounts[i].name = accounts[j].name /\ accounts[i].form = accounts[j].form =>
      i = j \/ (backend = "mysql" /\ accounts[i].name \in raced \cup missed)

\* Only the account that came with the table may have another form than a new one.
OwnForms == \A i \in DOMAIN accounts : accounts[i].form = NewForm \/ (i = 1 /\ backend = "sqlite")

NamesInv == InsertsExcused /\ RowsUnique /\ OwnForms

\* Where a process comes from that is about to insert.
LEMMA ToInsert ==
  ASSUME TypeOK, [Next]_vars, NEW q \in Admins, proc'[q].at = "insert"
  PROVE  \/ proc'[q] = proc[q]
         \/ \E pw \in Passwords : Create(q, proc'[q].name, pw)
<1>0. proc \in [Admins -> Processes] /\ proc[q] \in Processes
  BY DEF TypeOK
<1>1. ASSUME NEW name \in Names, NEW pw \in Passwords, Create(q, name, pw)
      PROVE  proc'[q].name = name
  BY <1>0, <1>1 DEF Create, Start, NoProcess
<1>2. ASSUME NEW name \in Names, NEW pw \in Passwords,
             SetPassword(q, name, pw) \/ SetRefused(q, name, pw)
      PROVE  FALSE
  BY <1>0, <1>2 DEF SetPassword, SetRefused, Start, NoProcess
<1>3. ASSUME NEW name \in Names, CreateRefused(q, name) PROVE FALSE
  BY <1>0, <1>3 DEF CreateRefused, Report, NoProcess
<1>4. CASE Insert(q) \/ UpdatePassword(q)
  BY <1>0, <1>4 DEF Insert, UpdatePassword, ReportFor, Processes
<1>5. ASSUME NEW k \in Keys, WriteKeyFile(q, k) PROVE FALSE
  BY <1>0, <1>5 DEF WriteKeyFile, NoProcess
<1>6. CASE KeyFileRefused(q)
  BY <1>0, <1>6 DEF KeyFileRefused, Report, NoProcess
<1>7. CASE InsertKey(q) \/ KeyNotOpened(q)
  BY <1>0, <1>7 DEF InsertKey, KeyNotOpened, ReportFor, Processes
<1>8. CASE Killed(q) \/ Again(q)
  BY <1>0, <1>8 DEF Killed, Again, NoProcess
<1> QED
  BY OwnStep, <1>1, <1>2, <1>3, <1>4, <1>5, <1>6, <1>7, <1>8, Zenon DEF AdminStep

\* What -createaccount has made sure of when it goes on.
LEMMA CreateChecks ==
  ASSUME NEW p \in Admins, NEW name, NEW pw, Create(p, name, pw)
  PROVE  /\ accounts' = accounts
         /\ HasAccount(accounts, name) => name \in missed'
         /\ \A q \in Admins : proc[q].at = "insert" /\ proc[q].name = name => name \in raced'
  BY HasAccountIs DEF Create, tables

LEMMA ExcusedStep == TypeOK /\ InsertsExcused /\ [Next]_vars => InsertsExcused'
<1> SUFFICES ASSUME TypeOK, InsertsExcused, [Next]_vars PROVE InsertsExcused'
  OBVIOUS
<1>0. proc \in [Admins -> Processes]
  BY DEF TypeOK
<1>h. raced \subseteq raced' /\ missed \subseteq missed'
  BY HistoryGrows
<1>1. ASSUME NEW p \in Admins, proc'[p].at = "insert", HasAccount(accounts', proc'[p].name)
      PROVE  proc'[p].name \in raced' \cup missed'
  <2>1. ASSUME NEW pw \in Passwords, Create(p, proc'[p].name, pw)
        PROVE  proc'[p].name \in raced' \cup missed'
    BY <1>1, <2>1, CreateChecks
  <2>2. CASE proc'[p] = proc[p] /\ HasAccount(accounts, proc[p].name)
    BY <1>1, <1>h, <2>2 DEF InsertsExcused
  <2>3. ASSUME proc'[p] = proc[p], ~HasAccount(accounts, proc[p].name), NEW q \in Admins, Added(q)
        PROVE  proc'[p].name \in raced' \cup missed'
    <3>1. PICK i \in DOMAIN accounts' :
            accounts'[i].name = proc[p].name /\ accounts'[i].form = NewForm
      BY <1>1, <2>3 DEF HasAccount
    <3>2. i \notin DOMAIN accounts
      BY <2>3, <3>1, RowAdded DEF HasAccount
    <3>3. proc[q].name = proc[p].name
      <4>1. accounts'[i] = Row(q)
        BY <2>3, <3>1, <3>2, RowAdded
      <4>2. Row(q).name = proc[q].name
        BY DEF Row
      <4> QED
        BY <3>1, <4>1, <4>2
    <3>4. proc[q].at = "insert" /\ proc'[q].at = "done"
      BY <1>0, <2>3 DEF Added, Insert, ReportFor, Processes
    <3>5. q # p
      BY <1>1, <3>4
    <3> QED
      BY <1>1, <1>h, <2>3, <3>3, <3>4, <3>5 DEF InsertsExcused
  <2>4. ASSUME proc'[p] = proc[p], ~HasAccount(accounts, proc[p].name), NEW q \in Admins,
               UpdatePassword(q)
        PROVE  FALSE
    <3>1. PICK i \in DOMAIN accounts' :
            accounts'[i].name = proc[p].name /\ accounts'[i].form = NewForm
      BY <1>1, <2>4 DEF HasAccount
    <3> QED
      BY <2>4, <3>1, RowsUpdated DEF HasAccount
  <2>5. CASE accounts' = accounts /\ proc'[p] = proc[p]
    BY <1>1, <2>2, <2>5
  <2> QED
    BY <1>1, <2>1, <2>2, <2>3, <2>4, <2>5, ToInsert, AccountsStep
<1>2. ASSUME NEW p \in Admins, NEW q \in Admins, p # q, proc'[p].at = "insert",
             proc'[q].at = "insert", proc'[p].name = proc'[q].name
      PROVE  proc'[p].name \in raced'
  <2>1. ASSUME NEW a \in Admins, NEW b \in Admins, a # b, NEW pw \in Passwords,
               proc'[a].at = "insert", proc'[b].at = "insert", proc'[a].name = proc'[b].name,
               Create(a, proc'[a].name, pw)
        PROVE  proc'[a].name \in raced'
    <3>1. proc'[b] = proc[b]
      BY <1>0, <2>1 DEF Create, Start
    <3> QED
      BY <2>1, <3>1, CreateChecks
  <2>2. CASE proc'[p] = proc[p] /\ proc'[q] = proc[q]
    BY <1>2, <1>h, <2>2 DEF InsertsExcused
  <2> QED
    BY <1>2, <2>1, <2>2, ToInsert
<1>3. NewForm' = NewForm
  BY SameBackend, Zenon DEF NewForm
<1>4. ASSUME NEW name PROVE HasAccount(accounts, name)' => HasAccount(accounts', name)
  BY <1>3, Zenon DEF HasAccount
<1> QED
  BY <1>1, <1>2, <1>4, Zenon DEF InsertsExcused

\* An INSERT does not give a second row to a name, but to one that has its excuse.
LEMMA UniqueStep == TypeOK /\ NamesInv /\ [Next]_vars => RowsUnique'
<1> SUFFICES ASSUME TypeOK, NamesInv, [Next]_vars,
                    NEW i \in DOMAIN accounts', NEW j \in DOMAIN accounts',
                    accounts'[i].name = accounts'[j].name, accounts'[i].form = accounts'[j].form
             PROVE  i = j \/ (backend = "mysql" /\ accounts'[i].name \in raced' \cup missed')
  BY SameBackend, Zenon DEF RowsUnique
<1>h. raced \subseteq raced' /\ missed \subseteq missed'
  BY HistoryGrows
<1>1. CASE i \in DOMAIN accounts /\ j \in DOMAIN accounts
  <2>1. /\ accounts'[i].name = accounts[i].name /\ accounts'[i].form = accounts[i].form
        /\ accounts'[j].name = accounts[j].name /\ accounts'[j].form = accounts[j].form
    BY <1>1, NamesKept
  <2> QED
    BY <1>1, <1>h, <2>1 DEF NamesInv, RowsUnique
<1>2. ASSUME NEW p \in Admins, Added(p), NEW old \in DOMAIN accounts,
             accounts'[old].name = proc[p].name, accounts'[old].form = NewForm
      PROVE  backend = "mysql" /\ proc[p].name \in raced' \cup missed'
  <2>1. accounts[old] = accounts'[old]
    BY <1>2, RowAdded
  <2>2. HasAccount(accounts, proc[p].name)
    BY <1>2, <2>1 DEF HasAccount
  <2>3. backend = "mysql"
    BY <1>2, <2>2, HasAccountIs DEF Added, Insertable
  <2>4. proc[p].name \in raced \cup missed
    BY <1>2, <2>2 DEF NamesInv, InsertsExcused, Added, Insert
  <2> QED
    BY <1>h, <2>3, <2>4
<1>3. ASSUME NEW p \in Admins, Added(p), ~(i \in DOMAIN accounts /\ j \in DOMAIN accounts)
      PROVE  i = j \/ (backend = "mysql" /\ accounts'[i].name \in raced' \cup missed')
  <2>1. /\ i \notin DOMAIN accounts => i = Len(accounts) + 1 /\ accounts'[i] = Row(p)
        /\ j \notin DOMAIN accounts => j = Len(accounts) + 1 /\ accounts'[j] = Row(p)
    BY <1>3, RowAdded
  <2>2. Row(p).name = proc[p].name /\ Row(p).form = NewForm
    BY DEF Row
  <2> QED
    BY <1>2, <1>3, <2>1, <2>2
<1>4. CASE accounts' = accounts \/ \E p \in Admins : UpdatePassword(p)
  BY <1>1, <1>4, RowsUpdated
<1> QED
  BY <1>1, <1>3, <1>4, AccountsStep

LEMMA FormsStep == TypeOK /\ OwnForms /\ [Next]_vars => OwnForms'
<1> SUFFICES ASSUME TypeOK, OwnForms, [Next]_vars, NEW i \in DOMAIN accounts'
             PROVE  accounts'[i].form = NewForm \/ (i = 1 /\ backend = "sqlite")
  BY SameBackend, Zenon DEF OwnForms, NewForm
<1>1. CASE i \in DOMAIN accounts
  BY <1>1, NamesKept DEF OwnForms
<1>2. ASSUME NEW p \in Admins, Added(p), i \notin DOMAIN accounts
      PROVE  accounts'[i].form = NewForm
  <2>1. accounts'[i] = Row(p)
    BY <1>2, RowAdded
  <2>2. Row(p).form = NewForm
    BY DEF Row
  <2> QED
    BY <2>1, <2>2
<1>3. CASE accounts' = accounts \/ \E p \in Admins : UpdatePassword(p)
  BY <1>1, <1>3, RowsUpdated
<1> QED
  BY <1>1, <1>2, <1>3, AccountsStep

\* On SQLite two accounts share a username only if one of them is the account that came
\* with the table; on MySQL only after a query that failed or two -createaccount that
\* overlapped.
THEOREM NamesDistinct == Spec => []NamesUnique
<1>1. Init => NamesInv
  <2> SUFFICES ASSUME Init PROVE NamesInv
    OBVIOUS
  <2>1. \A p \in Admins : proc[p].at = "ready"
    BY DEF Init, NoProcess
  <2>2. DOMAIN accounts = {1} /\ accounts[1].form = "text" /\ backend \in {"sqlite", "mysql"}
    BY ConstantsOK DEF Init, Default
  <2>3. InsertsExcused /\ RowsUnique
    BY <2>1, <2>2 DEF InsertsExcused, RowsUnique
  <2>4. OwnForms
    BY <2>2 DEF OwnForms, NewForm
  <2> QED
    BY <2>3, <2>4 DEF NamesInv
<1>2. TypeOK /\ NamesInv /\ [Next]_vars => NamesInv'
  BY ExcusedStep, UniqueStep, FormsStep DEF NamesInv
<1>3. TypeOK /\ NamesInv => NamesUnique
  <2> SUFFICES ASSUME TypeOK, NamesInv, NEW i \in DOMAIN accounts, NEW j \in DOMAIN accounts,
                      i # j, accounts[i].name = accounts[j].name
               PROVE  \/ backend = "sqlite" /\ 1 \in {i, j}
                      \/ backend = "mysql" /\ accounts[i].name \in raced \cup missed
    BY Zenon DEF NamesUnique
  <2>1. backend \in {"sqlite", "mysql"}
    BY ConstantsOK DEF TypeOK
  <2>2. CASE accounts[i].form = accounts[j].form
    <3>1. backend = "mysql" /\ accounts[i].name \in raced \cup missed
      BY <2>2 DEF NamesInv, RowsUnique
    <3> QED
      BY <3>1
  <2>3. CASE accounts[i].form # accounts[j].form
    <3>1. backend = "sqlite" /\ (i = 1 \/ j = 1)
      BY <2>3 DEF NamesInv, OwnForms
    <3> QED
      BY <3>1
  <2> QED
    BY <2>2, <2>3
<1> QED
  BY <1>1, <1>2, <1>3, TypeCorrect, PTL DEF Spec

-----------------------------------------------------------------------------
(* The handles of the same accounts: HandleDB.tla, for any set of players.   *)

SessionRecords == [player : Players \cup {None}, handle : Handles \cup {None}]

HandleTypes ==
  /\ handle \in [Players -> Handles \cup {None}]
  /\ session \in [Sessions -> SessionRecords]

\* The player has the handle in the table or in a session.
Holds(l, h) ==
  handle[l] = h \/ \E s \in Sessions : session[s].player = l /\ session[s].handle = h

Excused(k, l, word) ==
  \/ <<{k, l}, word>> \in overlapped
  \/ <<k, word>> \in misread \/ <<l, word>> \in misread

\* The same as the property, of the handles that sessions hold besides the saved ones:
\* what a session holds may be saved at any time.
HoldersClashOnlyIfRaced ==
  \A k, l \in Players : \A g, h \in Handles :
    k # l /\ Holds(k, g) /\ Holds(l, h) /\ g.word = h.word => Excused(k, l, h.word)

HandleInv == HandleTypes /\ HoldersClashOnlyIfRaced

LEMMA HandleInvInit == HandleInit => HandleInv
<1> SUFFICES ASSUME HandleInit PROVE HandleInv
  OBVIOUS
<1>1. HandleTypes
  BY DEF HandleInit, HandleTypes, SessionRecords, NoSession
<1>2. \A l \in Players, h \in Handles : ~Holds(l, h)
  BY HandleConstantsOK DEF HandleInit, Holds, NoSession
<1> QED
  BY <1>1, <1>2 DEF HandleInv, HoldersClashOnlyIfRaced

\* Nobody is excused less than before.
LEMMA ExcusesGrow ==
  ASSUME HandleNext \/ UNCHANGED handleVars
  PROVE  overlapped \subseteq overlapped' /\ misread \subseteq misread'
<1>1. ASSUME NEW s \in Sessions, NEW l \in Players, Login(s, l) \/ Save(s, l)
      PROVE  overlapped' = overlapped /\ misread' = misread
  BY <1>1 DEF Login, Save
<1>2. ASSUME NEW s \in Sessions, NEW l \in Players, NEW h \in Handles, CheckFree(s, l, h)
      PROVE  overlapped \subseteq overlapped' /\ misread \subseteq misread'
  BY <1>2 DEF CheckFree
<1> QED
  BY <1>1, <1>2 DEF HandleNext, handleVars

LEMMA HandleTypesStep ==
  ASSUME HandleTypes, HandleNext \/ UNCHANGED handleVars
  PROVE  HandleTypes'
<1>1. ASSUME NEW s \in Sessions, NEW l \in Players, Login(s, l) PROVE HandleTypes'
  BY <1>1 DEF HandleTypes, SessionRecords, Login
<1>2. ASSUME NEW s \in Sessions, NEW l \in Players, NEW h \in Handles, CheckFree(s, l, h)
      PROVE  HandleTypes'
  BY <1>2 DEF HandleTypes, SessionRecords, CheckFree
<1>3. ASSUME NEW s \in Sessions, NEW l \in Players, Save(s, l) PROVE HandleTypes'
  BY <1>3 DEF HandleTypes, SessionRecords, Save
<1>4. CASE UNCHANGED handleVars
  BY <1>4 DEF HandleTypes, handleVars
<1> QED
  BY <1>1, <1>2, <1>3, <1>4 DEF HandleNext

\* Only a check that says free gives a player a handle it did not hold.
LEMMA NewHolder ==
  ASSUME HandleTypes, HandleNext \/ UNCHANGED handleVars,
         NEW k \in Players, NEW g \in Handles, Holds(k, g)'
  PROVE  Holds(k, g) \/ \E s \in Sessions : CheckFree(s, k, g)
<1>1. ASSUME NEW s \in Sessions, NEW l \in Players, Login(s, l) PROVE Holds(k, g)
  BY <1>1 DEF Holds, HandleTypes, SessionRecords, Login
<1>2. ASSUME NEW s \in Sessions, NEW l \in Players, Save(s, l) PROVE Holds(k, g)
  BY <1>2 DEF Holds, HandleTypes, SessionRecords, Save
<1>3. ASSUME NEW s \in Sessions, NEW l \in Players, NEW h \in Handles, CheckFree(s, l, h)
      PROVE  Holds(k, g) \/ CheckFree(s, k, g)
  <2>1. /\ session' = [session EXCEPT ![s].handle = h] /\ handle' = handle
        /\ session[s].player = l
    BY <1>3 DEF CheckFree
  <2>2. Holds(k, g) \/ (k = l /\ g = h)
    BY <2>1 DEF Holds, HandleTypes, SessionRecords
  <2> QED
    BY <1>3, <2>2
<1>4. CASE UNCHANGED handleVars
  BY <1>4 DEF Holds, handleVars
<1> QED
  BY <1>1, <1>2, <1>3, <1>4 DEF HandleNext

\* Whoever holds the word is a rival of the one who asks for it, or has it in the table,
\* where the query finds it.
LEMMA CheckedHandle ==
  ASSUME HandleTypes,
         NEW s \in Sessions, NEW l \in Players, NEW h \in Handles, CheckFree(s, l, h),
         NEW k \in Players, k # l, NEW g \in Handles, Holds(k, g), g.word = h.word
  PROVE  <<{k, l}, h.word>> \in overlapped' \/ <<l, h.word>> \in misread'
<1>1. CASE handle[k] = g
  <2>1. Taken(h)
    BY <1>1, HandleConstantsOK DEF Taken
  <2> QED
    BY <2>1 DEF CheckFree
<1>2. CASE \E t \in Sessions : session[t].player = k /\ session[t].handle = g
  <2>1. k \in Rivals(l, h)
    BY <1>2, HandleConstantsOK DEF Rivals
  <2> QED
    BY <2>1 DEF CheckFree
<1> QED
  BY <1>1, <1>2 DEF Holds

LEMMA HoldersStep ==
  ASSUME HandleInv, HandleNext \/ UNCHANGED handleVars
  PROVE  HoldersClashOnlyIfRaced'
<1> SUFFICES ASSUME NEW k \in Players, NEW l \in Players, NEW g \in Handles, NEW h \in Handles,
                    k # l, Holds(k, g)', Holds(l, h)', g.word = h.word
             PROVE  Excused(k, l, h.word)'
  BY Zenon DEF HoldersClashOnlyIfRaced
<1>0. HandleTypes /\ HoldersClashOnlyIfRaced
  BY DEF HandleInv
<1>1. CASE Holds(k, g) /\ Holds(l, h)
  <2>1. Excused(k, l, h.word)
    BY <1>0, <1>1 DEF HoldersClashOnlyIfRaced
  <2> QED
    BY <2>1, ExcusesGrow DEF Excused
<1>2. ASSUME NEW s \in Sessions, CheckFree(s, l, h) PROVE Excused(k, l, h.word)'
  <2>1. Holds(k, g) \/ \E t \in Sessions : CheckFree(t, k, g)
    BY <1>0, NewHolder
  <2>2. CASE Holds(k, g)
    BY <1>0, <1>2, <2>2, CheckedHandle DEF Excused
  <2>3. ASSUME NEW t \in Sessions, CheckFree(t, k, g) PROVE Holds(k, g)
    <3>1. handle' = handle /\ session' = [session EXCEPT ![s].handle = h] /\ session[s].player = l
      BY <1>2 DEF CheckFree
    <3> QED
      BY <1>0, <3>1 DEF Holds, HandleTypes, SessionRecords
  <2> QED
    BY <2>1, <2>2, <2>3
<1>3. ASSUME NEW s \in Sessions, CheckFree(s, k, g), Holds(l, h) PROVE Excused(k, l, h.word)'
  <2>1. <<{l, k}, g.word>> \in overlapped' \/ <<k, g.word>> \in misread'
    BY <1>0, <1>3, CheckedHandle
  <2>2. {l, k} = {k, l}
    OBVIOUS
  <2> QED
    BY <2>1, <2>2 DEF Excused
<1> QED
  BY <1>0, <1>1, <1>2, <1>3, NewHolder

\* Whoever checks, logs in and saves in between, in however many sessions, two players
\* share a handle only if one of them was told that it is free while a session of the
\* other held it, or by a query that failed.  Either is enough: the check is no
\* reservation, and neither exception can be dropped.
THEOREM HandlesApart == HandleSpec => []HandlesClashOnlyIfRaced
<1>1. HandleInit => HandleInv
  BY HandleInvInit
<1>2. HandleInv /\ [HandleNext]_handleVars => HandleInv'
  BY HandleTypesStep, HoldersStep DEF HandleInv
<1>3. HandleInv => HandlesClashOnlyIfRaced
  <2> SUFFICES ASSUME HandleInv, NEW k \in Players, NEW l \in Players, k # l,
                      handle[k] # None, handle[l] # None, handle[k].word = handle[l].word
               PROVE  \/ <<{k, l}, handle[k].word>> \in overlapped
                      \/ {<<k, handle[k].word>>, <<l, handle[k].word>>} \cap misread # {}
    BY Zenon DEF HandlesClashOnlyIfRaced
  <2>1. handle[k] \in Handles /\ handle[l] \in Handles
    BY DEF HandleInv, HandleTypes
  <2>2. Excused(k, l, handle[l].word)
    BY <2>1, Zenon DEF HandleInv, HoldersClashOnlyIfRaced, Holds
  <2> QED
    BY <2>2 DEF Excused
<1> QED
  BY <1>1, <1>2, <1>3, PTL DEF HandleSpec
=============================================================================
