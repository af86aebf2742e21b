------------------------------ MODULE AccountsDB ------------------------------
(***************************************************************************)
(* The commands that administer accounts and keys: -createaccount,          *)
(* -setpassword and -createkey.  Each runs in a process of its own, beside   *)
(* others, as two statements with anything in between; it may be killed, and *)
(* the database may refuse to be opened or to execute a statement.          *)
(***************************************************************************)
EXTENDS AccountText, Integers, Sequences

CONSTANTS
  Backends,          \* "sqlite", "mysql"
  Admins,            \* the processes
  Passwords,
  Unset,             \* the default account's password, which is no hash
  Keys,              \* key and iv together
  MaxAccounts        \* bound: accounts before a -createaccount

Names == [word : Words, spelling : Spellings]

ASSUME ConstantsOK ==
  /\ Backends \subseteq {"sqlite", "mysql"}
  /\ Names # {}
  /\ Unset \notin Passwords
  /\ None \notin Passwords \cup Keys \cup Names
  /\ Faults \subseteq {"open", "query", "update", "file"}
  /\ MaxAccounts \in Nat

VARIABLES
  backend,    \* the configured database
  accounts,   \* account_data: username and password, in the order of license
  keys,       \* server_keys
  keyfile,    \* serverkey.bin
  proc,       \* the process that each administrator runs
  lost,       \* history: names whose INSERT failed
  missed,     \* history: names whose query failed
  raced,      \* history: names that two processes were inserting at a time
  torn        \* history: keys of commands that failed or were killed

tables == <<accounts, keys, keyfile>>
history == <<lost, missed, raced, torn>>
vars == <<backend, tables, proc, history>>

\* X'...' is stored as a blob by SQLite, whatever the type of the column.
Forms == {"text", "blob"}

Rows == [name : Names, form : Forms, pw : Passwords \cup {Unset}]

Processes ==
  [at : {"ready", "insert", "update", "key", "done"}, cmd : {"none", "create", "set", "key"},
   name : Names \cup {None}, pw : Passwords \cup {None}, key : Keys \cup {None},
   result : {"none", "ok", "failed"}]

TypeOK ==
  /\ backend \in Backends
  /\ accounts \in Seq(Rows)
  /\ keys \subseteq Keys
  /\ keyfile \in Keys \cup {None}
  /\ proc \in [Admins -> Processes]
  /\ \A p \in Admins :
       /\ proc[p].at \in {"insert", "update"} => proc[p].name \in Names /\ proc[p].pw \in Passwords
       /\ proc[p].at = "key" => proc[p].key \in Keys
  /\ lost \subseteq Names /\ missed \subseteq Names /\ raced \subseteq Names
  /\ torn \subseteq Keys

NoProcess == [at |-> "ready", cmd |-> "none", name |-> None, pw |-> None, key |-> None,
              result |-> "none"]

\* The username of the account that comes with the table.
DefaultName == CHOOSE name \in Names : TRUE

Default == [name |-> DefaultName, form |-> "text", pw |-> Unset]

Init ==
  /\ backend \in Backends
  /\ accounts = <<Default>>
  /\ keys = {}
  /\ keyfile = None
  /\ proc = [p \in Admins |-> NoProcess]
  /\ lost = {} /\ missed = {} /\ raced = {} /\ torn = {}

\* The process is over, and says how it went.
Report(p, cmd, result) ==
  proc' = [proc EXCEPT ![p] = [NoProcess EXCEPT !.at = "done", !.cmd = cmd, !.result = result]]

\* The process goes on, for this name and with this password.
Start(p, cmd, at, name, pw) ==
  proc' = [proc EXCEPT ![p] =
             [NoProcess EXCEPT !.at = at, !.cmd = cmd, !.name = name, !.pw = pw]]

ReportFor(p, result) == proc' = [proc EXCEPT ![p].at = "done", ![p].result = result]

-------------------------------------------------------------------------------
(* -createaccount: look for the name, then insert it.                      *)

NewForm == IF backend = "sqlite" THEN "blob" ELSE "text"

\* username = X'...': exactly these bytes, and for SQLite only blobs.
SameBytes(name) == {i \in DOMAIN accounts : accounts[i].name = name /\ accounts[i].form = NewForm}

CreateAnyway(p, name, pw) ==
  /\ proc[p].at = "ready"
  /\ Len(accounts) <= MaxAccounts
  /\ Start(p, "create", "insert", name, pw)
  /\ UNCHANGED <<tables, history>>

Create(p, name, pw) ==
  /\ proc[p].at = "ready"
  /\ Len(accounts) <= MaxAccounts
  /\ \E ok \in Outcomes("query") :
       /\ SameBytes(name) = {} \/ ~ok
       /\ missed' = IF ok THEN missed ELSE missed \cup {name}
  /\ Start(p, "create", "insert", name, pw)
  /\ raced' = IF \E q \in Admins : proc[q].at = "insert" /\ proc[q].name = name
                THEN raced \cup {name} ELSE raced
  /\ UNCHANGED <<tables, lost, torn>>

\* The account exists, or the database cannot be opened.
CreateRefused(p, name) ==
  /\ proc[p].at = "ready"
  /\ SameBytes(name) # {} \/ "open" \in Faults
  /\ Report(p, "create", "failed")
  /\ UNCHANGED <<tables, history>>

InsertableIgnoringCase(name) == \A i \in DOMAIN accounts : accounts[i].name.word # name.word

\* Only the SQLite table declares username UNIQUE.
Insertable(name) == backend = "mysql" \/ SameBytes(name) = {}

Inserted(name, pw) ==
  IF Insertable(name) THEN Append(accounts, [name |-> name, form |-> NewForm, pw |-> pw])
                      ELSE accounts

\* Whether the row went in is not looked at.
Insert(p) ==
  /\ proc[p].at = "insert"
  /\ \E ok \in Outcomes("update") :
       /\ accounts' = IF ok THEN Inserted(proc[p].name, proc[p].pw) ELSE accounts
       /\ lost' = IF ok THEN lost ELSE lost \cup {proc[p].name}
  /\ ReportFor(p, "ok")
  /\ UNCHANGED <<keys, keyfile, missed, raced, torn>>

-------------------------------------------------------------------------------
(* -setpassword: look for the name, then update its rows.                  *)

\* username = '...': for SQLite the same text, for MySQL in any spelling.
SameText(name) ==
  {i \in DOMAIN accounts : /\ accounts[i].form = "text"
                           /\ IF backend = "sqlite" THEN accounts[i].name = name
                              ELSE accounts[i].name.word = name.word}

SetPassword(p, name, pw) ==
  /\ proc[p].at = "ready"
  /\ SameText(name) # {}
  /\ Start(p, "set", "update", name, pw)
  /\ UNCHANGED <<tables, history>>

\* No such account, or a query or an open that fails.
SetRefused(p, name, pw) ==
  /\ proc[p].at = "ready"
  /\ SameText(name) = {} \/ Faults \cap {"query", "open"} # {}
  /\ proc' = [proc EXCEPT ![p] = [NoProcess EXCEPT !.at = "done", !.cmd = "set", !.name = name,
                                                   !.pw = pw, !.result = "failed"]]
  /\ UNCHANGED <<tables, history>>

UpdatePassword(p) ==
  /\ proc[p].at = "update"
  /\ \E ok \in Outcomes("update") :
       accounts' = IF ok
         THEN [i \in DOMAIN accounts |->
                 IF i \in SameText(proc[p].name) THEN [accounts[i] EXCEPT !.pw = proc[p].pw]
                 ELSE accounts[i]]
         ELSE accounts
  /\ ReportFor(p, "ok")
  /\ UNCHANGED <<keys, keyfile, history>>

-------------------------------------------------------------------------------
(* -createkey: write the file, then insert the key.                        *)

\* RAND_bytes does not repeat itself.
Fresh(k) == k \notin keys /\ k # keyfile /\ \A p \in Admins : proc[p].key # k

WriteKeyFile(p, k) ==
  /\ proc[p].at = "ready"
  /\ Fresh(k)
  /\ keyfile' = k
  /\ torn' = torn \ {k}
  /\ proc' = [proc EXCEPT ![p] = [NoProcess EXCEPT !.at = "key", !.cmd = "key", !.key = k]]
  /\ UNCHANGED <<accounts, keys, lost, missed, raced>>

\* The file cannot be opened or written.
KeyFileRefused(p) ==
  /\ proc[p].at = "ready"
  /\ "file" \in Faults
  /\ Report(p, "key", "failed")
  /\ UNCHANGED <<tables, history>>

KeysReplaced(k) == {k}

\* "key" without quotes is a name for SQLite and a reserved word for MySQL.
KeysWith(k) == IF backend = "sqlite" THEN keys \cup {k} ELSE keys

InsertKey(p) ==
  /\ proc[p].at = "key"
  /\ \E ok \in Outcomes("update") :
       /\ keys' = IF ok THEN KeysWith(proc[p].key) ELSE keys
       /\ torn' = IF ok THEN torn ELSE torn \cup {proc[p].key}
  /\ ReportFor(p, "ok")
  /\ UNCHANGED <<accounts, keyfile, lost, missed, raced>>

KeyNotOpened(p) ==
  /\ proc[p].at = "key"
  /\ "open" \in Faults
  /\ torn' = torn \cup {proc[p].key}
  /\ ReportFor(p, "failed")
  /\ UNCHANGED <<tables, lost, missed, raced>>

-------------------------------------------------------------------------------
Killed(p) ==
  /\ proc[p].at \in {"insert", "update", "key"}
  /\ torn' = IF proc[p].at = "key" THEN torn \cup {proc[p].key} ELSE torn
  /\ proc' = [proc EXCEPT ![p] = NoProcess]
  /\ UNCHANGED <<tables, lost, missed, raced>>

\* The administrator, having read the report, runs another command.
Again(p) ==
  /\ proc[p].at = "done"
  /\ proc' = [proc EXCEPT ![p] = NoProcess]
  /\ UNCHANGED <<tables, history>>

AdminStep(p) ==
  \/ \E name \in Names, pw \in Passwords :
       \/ Create(p, name, pw)
       \/ SetPassword(p, name, pw) \/ SetRefused(p, name, pw)
  \/ \E name \in Names : CreateRefused(p, name)
  \/ Insert(p)
  \/ UpdatePassword(p)
  \/ \E k \in Keys : WriteKeyFile(p, k)
  \/ KeyFileRefused(p)
  \/ InsertKey(p) \/ KeyNotOpened(p)
  \/ Killed(p)
  \/ Again(p)

Next == (\E p \in Admins : AdminStep(p)) /\ UNCHANGED backend

Spec == Init /\ [][Next]_vars

-------------------------------------------------------------------------------
\* Two accounts with one username: on SQLite only the one that came with the table, whose
\* username is text, and one that was created under that name, which is a blob; on MySQL,
\* whose table has no UNIQUE, only after two -createaccount that overlapped or a query that
\* failed (server.cpp:128, :587).  A login then tells them apart by their passwords alone
\* (ClientAuthPackets.cpp:38-40).
NamesUnique ==
  \A i, j \in DOMAIN accounts :
    i # j /\ accounts[i].name = accounts[j].name =>
      \/ backend = "sqlite" /\ 1 \in {i, j}
      \/ backend = "mysql" /\ accounts[i].name \in raced \cup missed

\* When -createaccount reports success there is an account of that name, unless the
\* INSERT itself failed: one in another spelling does not count, and one that
\* another process inserted in between does (server.cpp:128-151).
CreatedNameExists ==
  \A p \in Admins : proc[p].cmd = "create" /\ proc[p].result = "ok" =>
    proc[p].name \in lost \/ SameBytes(proc[p].name) # {}

\* The key in the file is in the table or still on its way, unless its own command
\* failed or was killed, however many commands overlap (server.cpp:229-262).
KeyFileIsAccepted ==
  backend = "sqlite" /\ keyfile # None =>
    \/ keyfile \in keys \cup torn
    \/ \E p \in Admins : proc[p].at = "key" /\ proc[p].key = keyfile

\* No account disappears, and a password changes only by a -setpassword for that
\* name: never by a -createaccount that meets the name (server.cpp:146, :195).
OnlySetPasswordChanges ==
  [][\A i \in DOMAIN accounts :
       /\ i \in DOMAIN accounts' /\ accounts'[i].name = accounts[i].name
       /\ accounts'[i].pw # accounts[i].pw =>
            \E p \in Admins : /\ proc[p].at = "update" /\ proc'[p].at = "done"
                              /\ proc[p].name.word = accounts[i].name.word
                              /\ proc[p].pw = accounts'[i].pw]_vars
===============================================================================
