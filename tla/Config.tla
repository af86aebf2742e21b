-------------------------------- MODULE Config --------------------------------
(***************************************************************************)
(* LoadConfig and VerifyConfig: the entries of config.json are read one     *)
(* after the other, an entry of the wrong type marks the file as malformed,  *)
(* and what was read is then verified.  The entries are independent of each  *)
(* other, but for the database type, which decides what the others are for.  *)
(* Lifecycle runs these steps where the program begins.                     *)
(***************************************************************************)
EXTENDS Integers, Sequences, FiniteSets

CONSTANTS
  Ports,   \* the integers that a file may have for a port
  Width,   \* ports are read modulo this, 2^16
  MaxOdd   \* bound: unusual entries of a file

\* The ports that the server has at first are below Width.
ASSUME PortsOK ==
  /\ Ports \subseteq Nat /\ MaxOdd \in Nat
  /\ Width \in Nat /\ Width > 8080

OrderSwapped == <<"databasetype", "databaseusername", "databasepassword", "databasehost",
                  "databasename", "serverport", "databaseport", "webserver", "webserverport",
                  "logpath">>

\* In the order in which they are read.
Order == <<"databasetype", "databaseusername", "databasepassword", "databasehost",
           "databasename", "databaseport", "serverport", "webserver", "webserverport",
           "logpath">>

Strings == {"databaseusername", "databasepassword", "databasehost", "databasename"}

PortEntries == {"databaseport", "serverport", "webserverport"}

\* Entries that only MySQL needs.
ForMysql == {"databaseusername", "databasepassword", "databasehost", "databaseport"}

\* "wrong" stands for a value of another type, or none.
AllFiles == [databasetype : {"mysql", "other", "wrong"},
             strings : [Strings -> {"", "text", "wrong"}],
             ports : [PortEntries -> Ports \cup {-1}],
             webserver : {"true", "false", "wrong"},
             logpath : {"text", "wrong"}]

Odd(f) ==
  {e \in Strings : f.strings[e] # "text"}
    \cup {e \in PortEntries : f.ports[e] \notin 1 .. Width - 1}
    \cup {e \in {"databasetype", "webserver", "logpath"} : f[e] = "wrong"}

Files == {f \in AllFiles : Cardinality(Odd(f)) <= MaxOdd}

VARIABLES
  file,       \* config.json; a port of -1 is "wrong"
  next,       \* the entry to be read
  malformed,
  mysql,      \* databasetype
  strings, ports, webserver,  \* what the server has
  result      \* "none", "ok", "refused"

configVars == <<file, next, malformed, mysql, strings, ports, webserver, result>>

ConfigTypeOK ==
  /\ file \in Files
  /\ next \in 1 .. Len(Order) + 1
  /\ malformed \in BOOLEAN /\ mysql \in BOOLEAN /\ webserver \in BOOLEAN
  /\ strings \in [Strings -> {"", "text"}]
  /\ ports \in [PortEntries -> 0 .. Width - 1]
  /\ result \in {"none", "ok", "refused"}

Defaults == [databaseport |-> 3306, serverport |-> 7946, webserverport |-> 8080]

ConfigInit ==
  /\ file \in Files
  /\ next = 1
  /\ malformed = FALSE
  /\ mysql = FALSE
  /\ strings = [e \in Strings |-> ""]
  /\ ports = Defaults
  /\ webserver = TRUE
  /\ result = "none"

Reading(entry) == next <= Len(Order) /\ Order[next] = entry /\ next' = next + 1

Used(entry) == mysql \/ entry \notin ForMysql

\* Once malformed, always malformed.
Marked(fine) == malformed' = (malformed \/ ~fine)

ReadType ==
  /\ Reading("databasetype")
  /\ mysql' = (file.databasetype = "mysql")
  /\ Marked(file.databasetype # "wrong")
  /\ UNCHANGED <<file, strings, ports, webserver, result>>

ReadString(e) ==
  /\ Reading(e)
  /\ strings' = IF Used(e) /\ file.strings[e] # "wrong"
                  THEN [strings EXCEPT ![e] = file.strings[e]] ELSE strings
  /\ Marked(Used(e) => file.strings[e] # "wrong")
  /\ UNCHANGED <<file, mysql, ports, webserver, result>>

\* databaseport is stored in serverport.
Target(e) == IF e = "databaseport" THEN "serverport" ELSE e

ReadPort(e) ==
  /\ Reading(e)
  /\ ports' = IF Used(e) /\ file.ports[e] # -1
                THEN [ports EXCEPT ![Target(e)] = file.ports[e] % Width] ELSE ports
  /\ Marked(Used(e) => file.ports[e] # -1)
  /\ UNCHANGED <<file, mysql, strings, webserver, result>>

ReadWebserver ==
  /\ Reading("webserver")
  /\ webserver' = IF file.webserver = "wrong" THEN webserver ELSE file.webserver = "true"
  /\ Marked(file.webserver # "wrong")
  /\ UNCHANGED <<file, mysql, strings, ports, result>>

\* The path goes to the logger; what it is does not matter here.
ReadLogpath ==
  /\ Reading("logpath")
  /\ Marked(file.logpath # "wrong")
  /\ UNCHANGED <<file, mysql, strings, ports, webserver, result>>

Verified ==
  /\ strings["databasename"] # ""
  /\ ~(ports["webserverport"] = 0 /\ webserver)
  /\ mysql => /\ \A e \in Strings : strings[e] # ""
              /\ ports["databaseport"] # 0 /\ ports["serverport"] # 0

VerifyConfig ==
  /\ next > Len(Order) /\ result = "none"
  /\ result' = IF ~malformed /\ Verified THEN "ok" ELSE "refused"
  /\ UNCHANGED <<file, next, malformed, mysql, strings, ports, webserver>>

Read ==
  \/ ReadType
  \/ \E e \in Strings : ReadString(e)
  \/ \E e \in PortEntries : ReadPort(e)
  \/ ReadWebserver
  \/ ReadLogpath

-------------------------------------------------------------------------------
\* What the file must have for the server to start, whatever its other entries are.
Complete ==
  /\ file.databasetype # "wrong" /\ file.webserver # "wrong" /\ file.logpath # "wrong"
  /\ file.strings["databasename"] = "text"
  /\ file.ports["serverport"] # -1 /\ file.ports["webserverport"] # -1
  /\ file.webserver = "true" => file.ports["webserverport"] % Width # 0
  /\ file.databasetype = "mysql" =>
       /\ \A e \in Strings : file.strings[e] = "text"
       /\ file.ports["databaseport"] # -1 /\ file.ports["serverport"] % Width # 0

\* A file is accepted if and only if it has all that its kind of database and server
\* need, and a log path: no later entry makes up for an earlier one (server.cpp:318-560).
AcceptedIffComplete == result # "none" => (result = "ok" <=> Complete)
===============================================================================
