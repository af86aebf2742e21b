---------------------------- MODULE LifecycleProofs ----------------------------
(* Theorems about Lifecycle and the configuration it begins with, for any   *)
(* file, any number of slots, any callers and any faults.                   *)
EXTENDS Lifecycle, TLAPS

-------------------------------------------------------------------------------
(* The configuration.                                                      *)

LEMMA LenOrder == Len(Order) = 10
BY DEF Order

LEMMA OrderIs ==
  /\ Len(Order) = 10
  /\ Order[1] = "databasetype" /\ Order[2] = "databaseusername"
  /\ Order[3] = "databasepassword" /\ Order[4] = "databasehost" /\ Order[5] = "databasename"
  /\ Order[6] = "databaseport" /\ Order[7] = "serverport" /\ Order[8] = "webserver"
  /\ Order[9] = "webserverport" /\ Order[10] = "logpath"
BY DEF Order

\* What comes when.
Place(e) ==
  CASE e = "databasetype" -> 1 [] e = "databaseusername" -> 2 [] e = "databasepassword" -> 3
    [] e = "databasehost" -> 4 [] e = "databasename" -> 5 [] e = "databaseport" -> 6
    [] e = "serverport" -> 7 [] e = "webserver" -> 8 [] e = "webserverport" -> 9
    [] e = "logpath" -> 10

Entries == {"databasetype", "webserver", "logpath"} \cup Strings \cup PortEntries

LEMMA ReadingInPlace ==
  ASSUME ConfigTypeOK, NEW e \in Entries, Reading(e)
  PROVE  next = Place(e) /\ next' = next + 1
<1>1. next \in 1 .. 10 /\ Order[next] = e /\ next' = next + 1
  <2>1. next <= Len(Order) /\ Order[next] = e /\ next' = next + 1
    BY DEF Reading
  <2>2. next \in 1 .. Len(Order) + 1
    BY DEF ConfigTypeOK
  <2>3. next \in 1 .. 10
    BY <2>1, <2>2, LenOrder
  <2> QED
    BY <2>1, <2>3
<1>2. \/ next = 1 \/ next = 2 \/ next = 3 \/ next = 4 \/ next = 5
      \/ next = 6 \/ next = 7 \/ next = 8 \/ next = 9 \/ next = 10
  BY <1>1
<1> QED
  BY <1>1, <1>2, OrderIs DEF Place

\* A port modulo the width of its variable.
LEMMA PortFits ==
  ASSUME NEW p \in Nat
  PROVE  p % Width \in 0 .. Width - 1
BY PortsOK

LEMMA FileParts ==
  ASSUME ConfigTypeOK
  PROVE  /\ file.databasetype \in {"mysql", "other", "wrong"}
         /\ file.webserver \in {"true", "false", "wrong"} /\ file.logpath \in {"text", "wrong"}
         /\ file.strings \in [Strings -> {"", "text", "wrong"}]
         /\ file.ports \in [PortEntries -> Ports \cup {-1}]
BY DEF ConfigTypeOK, Files, AllFiles

LEMMA ConfigTypeInit == ConfigInit => ConfigTypeOK
<1> SUFFICES ASSUME ConfigInit PROVE ConfigTypeOK
  OBVIOUS
<1>1. next \in 1 .. Len(Order) + 1
  <2>1. next = 1
    BY DEF ConfigInit
  <2> QED
    BY <2>1, LenOrder
<1>2. ports \in [PortEntries -> 0 .. Width - 1]
  <2>1. Defaults = [e \in PortEntries |-> Defaults[e]]
    BY DEF Defaults, PortEntries
  <2>2. \A e \in PortEntries : Defaults[e] \in 0 .. Width - 1
    BY PortsOK DEF Defaults, PortEntries
  <2>3. ports = Defaults
    BY DEF ConfigInit
  <2> QED
    BY <2>1, <2>2, <2>3
<1>3. strings \in [Strings -> {"", "text"}]
  BY DEF ConfigInit
<1> QED
  BY <1>1, <1>2, <1>3 DEF ConfigInit, ConfigTypeOK

LEMMA ReadKeepsType ==
  ASSUME ConfigTypeOK, Read
  PROVE  ConfigTypeOK' /\ result' = result
<1>1. next' \in 1 .. Len(Order) + 1
  <2>1. \E e \in Entries : Reading(e)
    BY DEF Read, ReadType, ReadString, ReadPort, ReadWebserver, ReadLogpath, Entries
  <2> QED
    BY <2>1, ReadingInPlace, LenOrder DEF Place, Entries, Strings, PortEntries
<1>2. ASSUME ReadType PROVE ConfigTypeOK' /\ result' = result
  BY <1>1, <1>2 DEF ReadType, Marked, ConfigTypeOK
<1>3. ASSUME NEW e \in Strings, ReadString(e) PROVE ConfigTypeOK' /\ result' = result
  <2>1. strings' \in [Strings -> {"", "text"}]
    BY <1>3, FileParts DEF ReadString, ConfigTypeOK
  <2> QED
    BY <1>1, <1>3, <2>1 DEF ReadString, Marked, ConfigTypeOK
<1>4. ASSUME NEW e \in PortEntries, ReadPort(e) PROVE ConfigTypeOK' /\ result' = result
  <2>1. file.ports[e] \in Nat \cup {-1}
    <3>1. file.ports \in [PortEntries -> Ports \cup {-1}]
      BY FileParts
    <3>2. Ports \subseteq Nat
      BY PortsOK
    <3> QED
      BY <3>1, <3>2
  <2>2. file.ports[e] # -1 => file.ports[e] % Width \in 0 .. Width - 1
    BY <2>1, PortFits
  <2>3. ports' \in [PortEntries -> 0 .. Width - 1]
    BY <1>4, <2>2 DEF ReadPort, ConfigTypeOK
  <2> QED
    BY <1>1, <1>4, <2>3 DEF ReadPort, Marked, ConfigTypeOK
<1>5. ASSUME ReadWebserver PROVE ConfigTypeOK' /\ result' = result
  BY <1>1, <1>5 DEF ReadWebserver, Marked, ConfigTypeOK
<1>6. ASSUME ReadLogpath PROVE ConfigTypeOK' /\ result' = result
  BY <1>1, <1>6 DEF ReadLogpath, Marked, ConfigTypeOK
<1> QED
  BY <1>2, <1>3, <1>4, <1>5, <1>6 DEF Read

LEMMA VerifyKeepsType ==
  ASSUME ConfigTypeOK, VerifyConfig
  PROVE  ConfigTypeOK' /\ result' # "none"
BY DEF ConfigTypeOK, VerifyConfig

-------------------------------------------------------------------------------
(* The program.                                                            *)

\* What a step of the main thread, the server thread or a caller leaves alone when it
\* is not the configuration's.
ConfigSame == UNCHANGED configVars

LEMMA SameConfigType == ConfigTypeOK /\ ConfigSame => ConfigTypeOK' /\ result' = result
BY DEF ConfigTypeOK, ConfigSame, configVars

\* TypeOK but for the configuration.
RunTypeOK ==
  /\ mode \in Modes
  /\ running \in BOOLEAN /\ paused \in BOOLEAN
  /\ main \in MainSteps
  /\ thread \in Looping \cup {"none", "setup", "ended"}
  /\ left \in 0 .. Slots
  /\ db \in {"unset", "open", "busy", "closed"}
  /\ lost \in 0 .. MaxLost /\ leaky \in BOOLEAN
  /\ stopped \in {"no", "early", "late"}

LEMMA TypeParts ==
  TypeOK <=> ConfigTypeOK /\ RunTypeOK /\ (result = "none" <=> main = "config")
BY ZenonT(30) DEF TypeOK, RunTypeOK

LEMMA InitType == Init => TypeOK
<1> SUFFICES ASSUME Init PROVE TypeOK
  OBVIOUS
<1>1. ConfigTypeOK
  BY ConfigTypeInit DEF Init
<1>2. RunTypeOK
  <2>1. 0 \in 0 .. Slots /\ 0 \in 0 .. MaxLost
    BY ConstantsOK
  <2> QED
    BY <2>1, Zenon DEF Init, RunTypeOK, MainSteps, Looping
<1>3. result = "none" <=> main = "config"
  BY DEF Init, ConfigInit
<1> QED
  BY <1>1, <1>2, <1>3, TypeParts

\* Every step but those that read and verify the configuration.
Others ==
  \/ CheckDB \/ Command \/ Start \/ SeeStopped \/ CloseDB \/ Delete \/ Exit
  \/ Thread \/ Stop \/ Pause \/ Unpause

LEMMA NextParts == Next <=> LoadConfig \/ Configure \/ Others
BY DEF Next, Main, Others

LEMMA OthersKeepConfig ==
  ASSUME Others, main \in MainSteps
  PROVE  /\ ConfigSame
         /\ main = "config" <=> main' = "config"
<1>1. ASSUME CheckDB \/ Command \/ Start \/ SeeStopped \/ CloseDB \/ Delete \/ Exit
      PROVE  ConfigSame /\ main # "config" /\ main' # "config"
  BY <1>1 DEF CheckDB, Command, Start, SeeStopped, CloseDB, Delete, Exit, ConfigSame, AfterCommand
<1>2. ASSUME Thread \/ Stop \/ Pause \/ Unpause
      PROVE  ConfigSame /\ main' = main
  BY <1>2 DEF Thread, Listen, SocketFails, Loop, Hold, Quiet, StartRequest, EndPass, EndRequest,
              Stop, Pause, Unpause, ConfigSame
<1> QED
  BY <1>1, <1>2 DEF Others

LEMMA EndsAre ==
  ASSUME NEW kind \in Requests
  PROVE  Ends(kind) \subseteq {"closes", "keeps", "unfinalized"}
BY DEF Ends, LoginEnds, GetTeamDataEnds, RemoveTeamMemberEnds

LEMMA OthersKeepType ==
  ASSUME RunTypeOK, Others
  PROVE  RunTypeOK'
<1> USE DEF RunTypeOK, MainSteps, Looping
<1>1. CASE CheckDB
  BY <1>1 DEF CheckDB, AfterCommand
<1>2. CASE Command
  BY <1>2 DEF Command, AfterCommand
<1>3. CASE Start
  BY <1>3 DEF Start, dbVars
<1>4. CASE SeeStopped
  BY <1>4 DEF SeeStopped, dbVars
<1>5. CASE CloseDB
  BY <1>5 DEF CloseDB, Closed
<1>6. CASE Delete
  BY <1>6 DEF Delete, dbVars
<1>7. CASE Exit
  BY <1>7 DEF Exit, dbVars
<1>8. ASSUME Listen \/ SocketFails \/ Loop PROVE RunTypeOK'
  BY <1>8 DEF Listen, SocketFails, Loop, dbVars
<1>9. CASE Hold
  BY <1>9, ConstantsOK DEF Hold, dbVars
<1>10. ASSUME Quiet \/ EndPass PROVE RunTypeOK'
  <2>1. left' \in 0 .. Slots
    BY <1>10, ConstantsOK DEF Quiet, EndPass
  <2> QED
    BY <1>10, <2>1 DEF Quiet, EndPass, dbVars
<1>11. CASE StartRequest
  <2>1. left' \in 0 .. Slots
    BY <1>11, ConstantsOK DEF StartRequest
  <2>2. lost' \in 0 .. MaxLost /\ db' = "open"
    BY <1>11, ConstantsOK DEF StartRequest, Open
  <2> QED
    BY <1>11, <2>1, <2>2 DEF StartRequest
<1>12. ASSUME NEW kind \in Requests, EndRequest(kind) PROVE RunTypeOK'
  <2>1. db' \in {"unset", "open", "busy", "closed"}
    BY <1>12, EndsAre DEF EndRequest, Closed
  <2> QED
    BY <1>12, <2>1 DEF EndRequest
<1>13. ASSUME Stop \/ Pause \/ Unpause PROVE RunTypeOK'
  BY <1>13 DEF Stop, Pause, Unpause, dbVars
<1> QED
  BY <1>1, <1>2, <1>3, <1>4, <1>5, <1>6, <1>7, <1>8, <1>9, <1>10, <1>11, <1>12, <1>13
     DEF Others, Thread

LEMMA StepType == TypeOK /\ [Next]_vars => TypeOK'
<1> SUFFICES ASSUME TypeOK, [Next]_vars PROVE TypeOK'
  OBVIOUS
<1>0. ConfigTypeOK /\ RunTypeOK /\ (result = "none" <=> main = "config")
  BY TypeParts
<1>1. CASE LoadConfig
  <2>1. ConfigTypeOK' /\ result' = result
    BY <1>0, <1>1, ReadKeepsType DEF LoadConfig
  <2>2. RunTypeOK' /\ main' = main
    BY <1>0, <1>1 DEF LoadConfig, RunTypeOK, dbVars
  <2> QED
    BY <1>0, <2>1, <2>2, TypeParts DEF TypeOK, RunTypeOK
<1>2. CASE Configure
  <2>1. ConfigTypeOK' /\ result' # "none"
    BY <1>0, <1>2, VerifyKeepsType DEF Configure
  <2>2. main' \in {"check", "deleting", "closing"}
    BY <1>2 DEF Configure, AfterCommand
  <2>3. RunTypeOK'
    BY <1>0, <1>2, <2>2 DEF Configure, RunTypeOK, dbVars, MainSteps
  <2> QED
    BY <2>1, <2>2, <2>3 DEF TypeOK, RunTypeOK
<1>3. CASE Others
  <2>1. RunTypeOK'
    BY <1>0, <1>3, OthersKeepType
  <2>2. ConfigTypeOK' /\ result' = result /\ (main = "config" <=> main' = "config")
    BY <1>0, <1>3, OthersKeepConfig, SameConfigType DEF RunTypeOK
  <2> QED
    BY <1>0, <2>1, <2>2 DEF TypeOK, RunTypeOK
<1>4. CASE UNCHANGED vars
  <2>1. ConfigTypeOK'
    BY <1>0, <1>4, SameConfigType DEF vars, ConfigSame
  <2>2. RunTypeOK'
    BY <1>0, <1>4 DEF vars, RunTypeOK, dbVars
  <2>3. result' = result /\ main' = main
    BY <1>4 DEF vars, configVars
  <2> QED
    BY <1>0, <2>1, <2>2, <2>3 DEF TypeOK, RunTypeOK
<1> QED
  BY <1>1, <1>2, <1>3, <1>4, NextParts

\* Every variable keeps to its range: in particular every port fits in its variable,
\* and the configuration is verified when the main thread goes on, never before.
THEOREM TypeCorrect == Spec => []TypeOK
<1>1. Init => TypeOK
  BY InitType
<1>2. TypeOK /\ [Next]_vars => TypeOK'
  BY StepType
<1> QED
  BY <1>1, <1>2, PTL DEF Spec

-------------------------------------------------------------------------------
(* The two threads and the connection.                                     *)

\* Where the main thread has not started the other one.
Before == {"config", "check", "command", "starting", "spawning"}

Leaving == {"closing", "deleting", "leaving", "gone"}

\* There is a thread exactly from Start on; unless somebody called Stop, the main thread
\* only leaves it when it has ended.
Owner ==
  /\ main \in Before => thread = "none"
  /\ main = "waiting" => thread # "none"
  /\ stopped = "no" =>
       /\ main = "spawning" => running
       /\ main = "waiting" => running \/ thread = "ended"
       /\ main \in Leaving => thread \in {"none", "ended"}

\* What a late Stop did stays done.
Late == stopped = "late" => ~running /\ thread \notin {"none", "setup"} /\ main \notin Before

\* While no request left the connection open, it is open only within a request, or where
\* no other request comes.
Tidy ==
  ~leaky =>
    /\ db # "busy" /\ lost = 0
    /\ db = "open" => thread \in {"request", "none", "ended"}
    /\ main \in {"starting", "spawning"} => db # "open"

\* What the steps of the configuration leave alone.
RunSame == UNCHANGED <<mode, running, paused, thread, left, dbVars, stopped>>

LEMMA ConfigSteps ==
  ASSUME TypeOK, LoadConfig \/ Configure
  PROVE  RunSame /\ main = "config" /\ main' \in {"config", "check", "closing", "deleting"}
BY DEF LoadConfig, Configure, RunSame, AfterCommand

LEMMA OwnerKept ==
  ASSUME TypeOK, Owner, [Next]_vars
  PROVE  Owner'
<1> USE DEF Owner, Before, Leaving
<1>1. CASE LoadConfig \/ Configure
  <2>1. RunSame /\ main = "config" /\ main' \in {"config", "check", "closing", "deleting"}
    BY <1>1, ConfigSteps
  <2> QED
    BY <2>1 DEF RunSame
<1>2. CASE CheckDB \/ Command
  BY <1>2 DEF CheckDB, Command, AfterCommand
<1>3. CASE Start
  BY <1>3 DEF Start
<1>4. CASE SeeStopped
  BY <1>4 DEF SeeStopped
<1>5. CASE CloseDB \/ Delete
  BY <1>5 DEF CloseDB, Delete
<1>6. CASE Exit
  BY <1>6 DEF Exit
<1>7. CASE Listen
  BY <1>7 DEF Listen
<1>8. CASE SocketFails
  BY <1>8 DEF SocketFails
<1>9. CASE Loop
  BY <1>9 DEF Loop
<1>10. CASE Hold \/ Quiet \/ EndPass
  BY <1>10 DEF Hold, Quiet, EndPass
<1>11. CASE StartRequest
  BY <1>11 DEF StartRequest
<1>12. CASE \E kind \in Requests : EndRequest(kind)
  BY <1>12 DEF EndRequest
<1>13. CASE Stop
  BY <1>13 DEF Stop
<1>14. CASE Pause \/ Unpause
  BY <1>14 DEF Pause, Unpause
<1>15. CASE UNCHANGED vars
  BY <1>15 DEF vars
<1> QED
  BY <1>1, <1>2, <1>3, <1>4, <1>5, <1>6, <1>7, <1>8, <1>9, <1>10, <1>11, <1>12, <1>13, <1>14,
     <1>15 DEF Next, Main, Thread

LEMMA LateKept ==
  ASSUME TypeOK, Owner, Late, [Next]_vars
  PROVE  Late'
<1> USE DEF Late, Before
<1>1. CASE LoadConfig \/ Configure
  <2>1. RunSame /\ main = "config" /\ main' \in {"config", "check", "closing", "deleting"}
    BY <1>1, ConfigSteps
  <2> QED
    BY <2>1 DEF RunSame
<1>2. CASE CheckDB \/ Command
  BY <1>2 DEF CheckDB, Command
<1>3. CASE Start
  BY <1>3 DEF Start
<1>4. CASE SeeStopped
  BY <1>4 DEF SeeStopped
<1>5. CASE CloseDB \/ Delete
  BY <1>5 DEF CloseDB, Delete
<1>6. CASE Exit
  BY <1>6 DEF Exit
<1>7. CASE Listen \/ SocketFails
  BY <1>7 DEF Listen, SocketFails
<1>8. CASE Loop
  BY <1>8 DEF Loop
<1>9. CASE Hold \/ Quiet \/ EndPass
  BY <1>9 DEF Hold, Quiet, EndPass
<1>10. CASE StartRequest
  BY <1>10 DEF StartRequest
<1>11. CASE \E kind \in Requests : EndRequest(kind)
  BY <1>11 DEF EndRequest
<1>12. CASE Stop
  BY <1>12 DEF Stop, Looping, Owner
<1>13. CASE Pause \/ Unpause
  BY <1>13 DEF Pause, Unpause
<1>14. CASE UNCHANGED vars
  BY <1>14 DEF vars
<1> QED
  BY <1>1, <1>2, <1>3, <1>4, <1>5, <1>6, <1>7, <1>8, <1>9, <1>10, <1>11, <1>12, <1>13, <1>14
     DEF Next, Main, Thread

LEMMA TidyKept ==
  ASSUME TypeOK, Owner, Tidy, [Next]_vars
  PROVE  Tidy'
<1> USE DEF Tidy
<1>1. CASE LoadConfig \/ Configure
  <2>1. RunSame /\ main = "config" /\ main' \in {"config", "check", "closing", "deleting"}
    BY <1>1, ConfigSteps
  <2> QED
    BY <2>1 DEF RunSame, dbVars
<1>2. CASE CheckDB
  <2>1. thread = "none" /\ thread' = "none" /\ lost' = lost /\ leaky' = leaky
    BY <1>2 DEF CheckDB, Owner, Before
  <2>2. db' \in {"closed", "open"} /\ (main' \in {"starting", "spawning"} => db' = "closed")
    BY <1>2 DEF CheckDB, AfterCommand
  <2> QED
    BY <2>1, <2>2
<1>3. CASE Command
  BY <1>3 DEF Command, AfterCommand, Owner, Before
<1>4. CASE Start
  BY <1>4 DEF Start, dbVars, Owner, Before
<1>5. CASE SeeStopped
  BY <1>5 DEF SeeStopped, dbVars
<1>6. CASE CloseDB
  BY <1>6 DEF CloseDB, Closed
<1>7. CASE Delete
  BY <1>7 DEF Delete, dbVars
<1>8. CASE Exit
  BY <1>8 DEF Exit, dbVars
<1>9. CASE Listen \/ SocketFails
  BY <1>9 DEF Listen, SocketFails, dbVars
<1>10. CASE Loop
  BY <1>10 DEF Loop, dbVars
<1>11. CASE Hold \/ Quiet \/ EndPass
  BY <1>11 DEF Hold, Quiet, EndPass, dbVars
<1>12. CASE StartRequest
  <2>1. thread = "pass" /\ thread' = "request" /\ leaky' = leaky /\ main' = main
    BY <1>12 DEF StartRequest
  <2>2. ~leaky => lost' = lost
    BY <1>12, <2>1 DEF StartRequest, Open
  <2>3. db' = "open" /\ main \notin {"starting", "spawning"}
    BY <1>12, <2>1 DEF StartRequest, Open, Owner, Before
  <2> QED
    BY <2>1, <2>2, <2>3
<1>13. CASE \E kind \in Requests : EndRequest(kind)
  <2>1. ASSUME NEW kind \in Requests, EndRequest(kind), ~leaky'
        PROVE  ~leaky /\ db' = Closed(db) /\ lost' = lost /\ main' = main
    BY <2>1 DEF EndRequest, TypeOK
  <2>2. ~leaky /\ db # "busy" => Closed(db) = "closed"
    BY DEF Closed
  <2> QED
    BY <1>13, <2>1, <2>2
<1>14. CASE Stop \/ Pause \/ Unpause
  BY <1>14 DEF Stop, Pause, Unpause, dbVars
<1>15. CASE UNCHANGED vars
  BY <1>15 DEF vars, dbVars
<1> QED
  BY <1>1, <1>2, <1>3, <1>4, <1>5, <1>6, <1>7, <1>8, <1>9, <1>10, <1>11, <1>12, <1>13, <1>14,
     <1>15 DEF Next, Main, Thread

RunInv == TypeOK /\ Owner /\ Late /\ Tidy

LEMMA RunInvHolds == Spec => []RunInv
<1>1. Init => RunInv
  BY InitType DEF Init, RunInv, Owner, Late, Tidy, Leaving
<1>2. RunInv /\ [Next]_vars => RunInv'
  BY StepType, OwnerKept, LateKept, TidyKept DEF RunInv
<1> QED
  BY <1>1, <1>2, PTL DEF Spec

\* Whatever the faults and the requests, while nobody but the server thread calls Stop the
\* connections are deleted and the database is closed only when that thread has ended.
THEOREM DeletedOnlyWhenThreadEnded == Spec => []DeletedWhenThreadEnded
<1>1. RunInv => DeletedWhenThreadEnded
  BY DEF RunInv, Owner, Leaving, DeletedWhenThreadEnded
<1> QED
  BY <1>1, RunInvHolds, PTL

\* With any number of slots and however long the server runs, only a request that left the
\* connection open, or a statement on it, makes it lose one.
THEOREM OnlyRequestsLoseHandles == Spec => []HandlesLostByRequests
<1>1. RunInv => HandlesLostByRequests
  BY DEF RunInv, Tidy, HandlesLostByRequests, TypeOK
<1> QED
  BY <1>1, RunInvHolds, PTL

\* A Stop during the loop sticks: Start and the thread have both set running before.
THEOREM LateStopStays == Spec => []LateStopSticks
<1>1. RunInv => LateStopSticks
  BY DEF RunInv, Late, LateStopSticks
<1> QED
  BY <1>1, RunInvHolds, PTL

-------------------------------------------------------------------------------
(* How the program ends: the safety behind EndedThreadEndsProgram and        *)
(* LateStopEndsProgram.                                                    *)

\* The thread is through, or somebody stopped it while it was in its loop.
Ending == thread = "ended" \/ stopped = "late"

\* A thread that has ended left running false for the main thread to see: nobody
\* sets it again, because Start and Listen both come before.
EndedSeen ==
  thread = "ended" => main \in Leaving \/ (main = "waiting" /\ ~running)

LEMMA EndedSeenKept ==
  ASSUME TypeOK, Owner, EndedSeen, [Next]_vars
  PROVE  EndedSeen'
<1> USE DEF EndedSeen, Leaving
<1>1. CASE LoadConfig \/ Configure
  <2>1. RunSame /\ main = "config"
    BY <1>1, ConfigSteps
  <2>2. thread' = "none"
    BY <2>1 DEF RunSame, Owner, Before
  <2> QED
    BY <2>2
<1>2. CASE CheckDB \/ Command
  <2>1. thread = "none" /\ thread' = thread
    BY <1>2 DEF CheckDB, Command, Owner, Before
  <2> QED
    BY <2>1
<1>3. CASE Start
  BY <1>3 DEF Start, Owner, Before
<1>4. CASE SeeStopped \/ CloseDB \/ Delete \/ Exit
  <2>1. main' \in Leaving
    BY <1>4 DEF SeeStopped, CloseDB, Delete, Exit
  <2> QED
    BY <2>1
<1>5. CASE Listen \/ Hold \/ StartRequest \/ Quiet \/ EndPass
  <2>1. thread' # "ended"
    BY <1>5 DEF Listen, Hold, StartRequest, Quiet, EndPass
  <2> QED
    BY <2>1
<1>6. CASE \E kind \in Requests : EndRequest(kind)
  BY <1>6 DEF EndRequest
<1>7. CASE SocketFails \/ Loop
  <2>1. thread' = "ended" => ~running' /\ main' = main /\ thread # "none"
    BY <1>7 DEF SocketFails, Loop
  <2>2. thread # "none" => main \notin Before
    BY DEF Owner
  <2> QED
    BY <2>1, <2>2 DEF Before, TypeOK, MainSteps
<1>8. CASE Stop \/ Pause \/ Unpause
  BY <1>8 DEF Stop, Pause, Unpause
<1>9. CASE UNCHANGED vars
  BY <1>9 DEF vars
<1> QED
  BY <1>1, <1>2, <1>3, <1>4, <1>5, <1>6, <1>7, <1>8, <1>9 DEF Next, Main, Thread

\* The steps that the main thread has left once it is to end.
MainLeft ==
  CASE main = "waiting"  -> 4
    [] main = "closing"  -> 3
    [] main = "deleting" -> 2
    [] main = "leaving"  -> 1
    [] main = "gone"     -> 0

\* Once the thread has ended or was stopped in its loop, the main thread is past its
\* start and finds running false if it still waits, every step it takes is one of the
\* last four, and nothing that the other thread or a caller does takes it back
\* (SBOL DB Server.cpp:114-120, server.cpp:1091).
EndComesCloser ==
  Ending =>
    /\ main \in {"waiting"} \cup Leaving
    /\ main = "waiting" => ~running
    /\ Ending'
    /\ Main => MainLeft' < MainLeft
    /\ ~Main => main' = main

LEMMA EndStep ==
  ASSUME RunInv, EndedSeen, Next, Ending
  PROVE  EndComesCloser
<1>1. main \in {"waiting"} \cup Leaving /\ (main = "waiting" => ~running)
  BY DEF Ending, EndedSeen, RunInv, Late, Before, Leaving, TypeOK, MainSteps
<1>2. main \notin {"config", "check", "command", "starting", "spawning"}
  BY <1>1 DEF Leaving
<1>3. Main => SeeStopped \/ CloseDB \/ Delete \/ Exit
  BY <1>2 DEF Main, LoadConfig, Configure, CheckDB, Command, Start
<1>4. ASSUME Main PROVE MainLeft' < MainLeft
  <2>1. \/ main = "waiting" /\ main' = "closing"
        \/ main = "closing" /\ main' \in {"deleting", "gone"}
        \/ main = "deleting" /\ main' = "leaving"
        \/ main = "leaving" /\ main' = "gone"
    BY <1>3, <1>4 DEF SeeStopped, CloseDB, Delete, Exit
  <2> QED
    BY <2>1 DEF MainLeft
<1>5. ASSUME ~Main PROVE main' = main
  BY <1>5 DEF Next, Thread, Listen, SocketFails, Loop, Hold, Quiet, StartRequest, EndPass,
     EndRequest, Stop, Pause, Unpause
<1>6. Ending'
  <2>1. CASE SeeStopped \/ CloseDB \/ Delete \/ Exit
    BY <2>1 DEF SeeStopped, CloseDB, Delete, Exit, Ending
  <2>2. CASE Thread
    BY <2>2 DEF Thread, Listen, SocketFails, Loop, Hold, Quiet, StartRequest, EndPass,
       EndRequest, Ending
  <2>3. CASE Stop
    <3>1. running /\ main \in {"spawning", "waiting"}
      BY <2>3 DEF Stop, Serving
    <3> QED
      BY <1>1, <1>2, <3>1
  <2>4. CASE Pause \/ Unpause
    BY <2>4 DEF Pause, Unpause, Ending
  <2> QED
    BY <1>3, <2>1, <2>2, <2>3, <2>4 DEF Next
<1> QED
  BY <1>1, <1>4, <1>5, <1>6 DEF EndComesCloser

THEOREM EndIsFourStepsAway == Spec => [][EndComesCloser]_vars
<1>1. Init => EndedSeen
  BY DEF Init, EndedSeen
<1>2. RunInv /\ EndedSeen /\ [Next]_vars => EndedSeen'
  BY EndedSeenKept DEF RunInv
<1>3. RunInv /\ EndedSeen /\ [Next]_vars => [EndComesCloser]_vars
  <2>1. ASSUME RunInv, EndedSeen, Next PROVE EndComesCloser
    BY <2>1, EndStep DEF EndComesCloser
  <2> QED
    BY <2>1
<1> QED
  BY <1>1, <1>2, <1>3, RunInvHolds, PTL DEF Spec

-------------------------------------------------------------------------------
(* What has been read, and what it decides.                                *)

Done(e) == next > Place(e)

\* The file names a MySQL database, so that its entries count.
Mysql == file.databasetype = "mysql"

Needed(e) == Mysql \/ e \notin ForMysql

WrongType(e) ==
  \/ e = "databasetype" /\ file.databasetype = "wrong"
  \/ e = "webserver" /\ file.webserver = "wrong"
  \/ e = "logpath" /\ file.logpath = "wrong"
  \/ e \in Strings /\ Needed(e) /\ file.strings[e] = "wrong"
  \/ e \in PortEntries /\ Needed(e) /\ file.ports[e] = -1

TypeRead == Done("databasetype") => mysql = Mysql

StringsRead ==
  \A e \in Strings :
    Done(e) /\ Needed(e) /\ file.strings[e] # "wrong" => strings[e] = file.strings[e]

\* No entry reaches the variable of the database's port.
PortsRead ==
  /\ ports["databaseport"] = 3306
  /\ \A e \in {"serverport", "webserverport"} :
       Done(e) /\ file.ports[e] # -1 => ports[e] = file.ports[e] % Width

WebserverRead ==
  Done("webserver") /\ file.webserver # "wrong" => webserver = (file.webserver = "true")

MalformedIff == malformed <=> \E e \in Entries : Done(e) /\ WrongType(e)

ReadSoFar == TypeRead /\ StringsRead /\ PortsRead /\ WebserverRead /\ MalformedIff

Judged ==
  result # "none" => next = 11 /\ (result = "ok" <=> ~malformed /\ Verified)

LEMMA Places ==
  /\ Place("databasetype") = 1 /\ Place("databaseusername") = 2
  /\ Place("databasepassword") = 3 /\ Place("databasehost") = 4 /\ Place("databasename") = 5
  /\ Place("databaseport") = 6 /\ Place("serverport") = 7 /\ Place("webserver") = 8
  /\ Place("webserverport") = 9 /\ Place("logpath") = 10
BY DEF Place

LEMMA DoneAfter ==
  ASSUME ConfigTypeOK, NEW e \in Entries, Reading(e)
  PROVE  /\ \A d \in Entries : Done(d)' <=> Done(d) \/ d = e
         /\ ~Done(e)
         /\ e # "databasetype" => Done("databasetype")
         /\ e = "databaseport" => ~Done("serverport")
<1>1. next = Place(e) /\ next' = next + 1
  BY ReadingInPlace
<1>2. \A d \in Entries : Place(d) \in 1 .. 10 /\ (Place(d) = Place(e) => d = e)
  BY Places DEF Entries, Strings, PortEntries
<1>3. e # "databasetype" => Place(e) > 1
  BY Places DEF Entries, Strings, PortEntries
<1>4. \A d \in Entries : Done(d) <=> Place(e) > Place(d)
  BY <1>1 DEF Done
<1>5. \A d \in Entries : Done(d)' <=> Place(e) + 1 > Place(d)
  BY <1>1 DEF Done
<1>6. \A d \in Entries : Done(d)' <=> Done(d) \/ d = e
  BY <1>2, <1>4, <1>5
<1>7. ~Done(e) /\ (e # "databasetype" => Done("databasetype"))
  BY <1>2, <1>3, <1>4, Places DEF Entries
<1>8. e = "databaseport" => ~Done("serverport")
  BY <1>4, Places DEF Entries, PortEntries
<1> QED
  BY <1>6, <1>7, <1>8

LEMMA MarkedRight ==
  ASSUME ConfigTypeOK, MalformedIff, NEW e \in Entries, Reading(e), file' = file,
         NEW fine, fine <=> ~WrongType(e), Marked(fine)
  PROVE  MalformedIff'
<1>1. \A d \in Entries : Done(d)' <=> Done(d) \/ d = e
  BY DoneAfter
<1>2. \A d \in Entries : WrongType(d)' <=> WrongType(d)
  BY DEF WrongType, Needed, Mysql
<1>3. malformed' <=> malformed \/ WrongType(e)
  BY DEF Marked, ConfigTypeOK
<1>4. malformed <=> \E d \in Entries : Done(d) /\ WrongType(d)
  BY DEF MalformedIff
<1>5. malformed' <=> \E d \in Entries : (Done(d) \/ d = e) /\ WrongType(d)
  BY <1>3, <1>4, Zenon
<1>6. malformed' <=> \E d \in Entries : Done(d)' /\ WrongType(d)'
  BY <1>1, <1>2, <1>5, Zenon
<1> QED
  BY <1>6 DEF MalformedIff

\* Whether an entry counts is known when it is read.
LEMMA UsedIsNeeded ==
  ASSUME ConfigTypeOK, TypeRead, NEW e \in Entries, Reading(e), e # "databasetype"
  PROVE  Used(e) <=> Needed(e)
BY DoneAfter DEF TypeRead, Used, Needed

LEMMA TypeStep ==
  ASSUME ConfigTypeOK, ReadSoFar, ReadType
  PROVE  ReadSoFar'
<1>0. Reading("databasetype") /\ "databasetype" \in Entries
  BY DEF ReadType, Entries
<1>1. \A d \in Entries : Done(d)' <=> Done(d) \/ d = "databasetype"
  BY <1>0, DoneAfter
<1>2. UNCHANGED <<file, strings, ports, webserver>> /\ mysql' = (file.databasetype = "mysql")
  BY DEF ReadType
<1>3. TypeRead'
  BY <1>2 DEF TypeRead, Mysql
<1>4. StringsRead'
  BY <1>1, <1>2 DEF StringsRead, ReadSoFar, Strings, Entries, Needed, Mysql
<1>5. PortsRead'
  BY <1>1, <1>2 DEF PortsRead, ReadSoFar, Entries, PortEntries
<1>6. WebserverRead'
  BY <1>1, <1>2 DEF WebserverRead, ReadSoFar, Entries
<1>7. MalformedIff'
  <2>1. ~WrongType("databasetype") <=> file.databasetype # "wrong"
    BY DEF WrongType, Strings, PortEntries
  <2>2. Marked(file.databasetype # "wrong")
    BY DEF ReadType
  <2> QED
    BY <1>0, <1>2, <2>1, <2>2, MarkedRight DEF ReadSoFar
<1> QED
  BY <1>3, <1>4, <1>5, <1>6, <1>7 DEF ReadSoFar

LEMMA StringStep ==
  ASSUME ConfigTypeOK, ReadSoFar, NEW e \in Strings, ReadString(e)
  PROVE  ReadSoFar'
<1>0. Reading(e) /\ e \in Entries /\ e \notin {"databasetype", "webserver", "logpath"} /\ e \notin PortEntries
  BY DEF ReadString, Entries, Strings, PortEntries
<1>1. \A d \in Entries : Done(d)' <=> Done(d) \/ d = e
  BY <1>0, DoneAfter
<1>2. UNCHANGED <<file, mysql, ports, webserver>>
  BY DEF ReadString
<1>3. Used(e) <=> Needed(e)
  BY <1>0, UsedIsNeeded DEF ReadSoFar
<1>4. TypeRead'
  BY <1>0, <1>1, <1>2 DEF TypeRead, ReadSoFar, Entries, Mysql
<1>5. StringsRead'
  <2>1. strings' = IF Needed(e) /\ file.strings[e] # "wrong"
                     THEN [strings EXCEPT ![e] = file.strings[e]] ELSE strings
    BY <1>3 DEF ReadString
  <2>2. strings \in [Strings -> {"", "text"}]
    BY DEF ConfigTypeOK
  <2>3. \A d \in Strings : (Needed(d)' <=> Needed(d)) /\ (Done(d)' <=> Done(d) \/ d = e)
    BY <1>1, <1>2 DEF Needed, Mysql, Entries
  <2>4. \A d \in Strings :
          Done(d) /\ Needed(d) /\ file.strings[d] # "wrong" => strings[d] = file.strings[d]
    BY DEF ReadSoFar, StringsRead
  <2>5. ASSUME NEW d \in Strings, Done(d)', Needed(d)', (file.strings[d] # "wrong")'
        PROVE  strings'[d] = file.strings[d]
    <3>1. CASE d = e
      BY <2>1, <2>2, <2>3, <2>5, <3>1, <1>2
    <3>2. CASE d # e
      BY <2>1, <2>2, <2>3, <2>4, <2>5, <3>2, <1>2
    <3> QED
      BY <3>1, <3>2
  <2> QED
    BY <2>5, <1>2 DEF StringsRead
<1>6. PortsRead'
  BY <1>0, <1>1, <1>2 DEF PortsRead, ReadSoFar, Entries, PortEntries
<1>7. WebserverRead'
  BY <1>0, <1>1, <1>2 DEF WebserverRead, ReadSoFar, Entries
<1>8. MalformedIff'
  <2>1. ~WrongType(e) <=> (Used(e) => file.strings[e] # "wrong")
    BY <1>0, <1>3 DEF WrongType
  <2>2. Marked(Used(e) => file.strings[e] # "wrong")
    BY DEF ReadString
  <2> QED
    BY <1>0, <1>2, <2>1, <2>2, MarkedRight DEF ReadSoFar
<1> QED
  BY <1>4, <1>5, <1>6, <1>7, <1>8 DEF ReadSoFar

LEMMA PortStep ==
  ASSUME ConfigTypeOK, ReadSoFar, NEW e \in PortEntries, ReadPort(e)
  PROVE  ReadSoFar'
<1>0. Reading(e) /\ e \in Entries /\ e \notin {"databasetype", "webserver", "logpath"} /\ e \notin Strings
  BY DEF ReadPort, Entries, Strings, PortEntries
<1>1. \A d \in Entries : Done(d)' <=> Done(d) \/ d = e
  BY <1>0, DoneAfter
<1>2. UNCHANGED <<file, mysql, strings, webserver>>
  BY DEF ReadPort
<1>3. Used(e) <=> Needed(e)
  BY <1>0, UsedIsNeeded DEF ReadSoFar
<1>4. TypeRead'
  BY <1>0, <1>1, <1>2 DEF TypeRead, ReadSoFar, Entries, Mysql
<1>5. StringsRead'
  BY <1>0, <1>1, <1>2 DEF StringsRead, ReadSoFar, Strings, Entries, Needed, Mysql
<1>6. PortsRead'
  <2>1. ports' = IF Used(e) /\ file.ports[e] # -1
                   THEN [ports EXCEPT ![Target(e)] = file.ports[e] % Width] ELSE ports
    BY DEF ReadPort
  <2>2. /\ ports \in [PortEntries -> 0 .. Width - 1]
        /\ ports["databaseport"] = 3306
        /\ \A d \in {"serverport", "webserverport"} :
             Done(d) /\ file.ports[d] # -1 => ports[d] = file.ports[d] % Width
    <3>1. ports \in [PortEntries -> 0 .. Width - 1]
      BY DEF ConfigTypeOK
    <3>2. PortsRead
      BY DEF ReadSoFar
    <3> QED
      BY <3>1, <3>2 DEF PortsRead
  <2>3. {"serverport", "webserverport"} \subseteq Entries
    BY DEF Entries, PortEntries
  <2>4. CASE e = "databaseport"
    <3>1. ~Done("serverport")' /\ (Done("webserverport")' => Done("webserverport"))
      BY <1>0, <1>1, <2>3, <2>4, DoneAfter
    <3>2. ports'["databaseport"] = 3306 /\ ports'["webserverport"] = ports["webserverport"]
      BY <2>1, <2>2, <2>4 DEF Target, PortEntries
    <3> QED
      BY <1>2, <2>2, <3>1, <3>2 DEF PortsRead
  <2>5. CASE e # "databaseport"
    <3>1. e \in {"serverport", "webserverport"} /\ Target(e) = e /\ Used(e)
      BY <2>5 DEF PortEntries, Target, Used, ForMysql
    <3>2. ports' = IF file.ports[e] # -1
                     THEN [ports EXCEPT ![e] = file.ports[e] % Width] ELSE ports
      BY <2>1, <3>1
    <3>3. \A d \in PortEntries : d # e => ports'[d] = ports[d]
      BY <2>2, <3>2
    <3>4. file.ports[e] # -1 => ports'[e] = file.ports[e] % Width
      BY <2>2, <3>2
    <3>5. ports'["databaseport"] = 3306
      BY <2>2, <2>5, <3>3 DEF PortEntries
    <3>6. ASSUME NEW d \in {"serverport", "webserverport"}, Done(d)', file.ports[d] # -1
          PROVE  ports'[d] = file.ports[d] % Width
      <4>1. d = e \/ Done(d)
        BY <1>1, <2>3, <3>6
      <4> QED
        BY <2>2, <3>3, <3>4, <3>6, <4>1 DEF PortEntries
    <3> QED
      BY <1>2, <3>5, <3>6 DEF PortsRead
  <2> QED
    BY <2>4, <2>5
<1>7. WebserverRead'
  BY <1>0, <1>1, <1>2 DEF WebserverRead, ReadSoFar, Entries
<1>8. MalformedIff'
  <2>1. ~WrongType(e) <=> (Used(e) => file.ports[e] # -1)
    BY <1>0, <1>3 DEF WrongType
  <2>2. Marked(Used(e) => file.ports[e] # -1)
    BY DEF ReadPort
  <2> QED
    BY <1>0, <1>2, <2>1, <2>2, MarkedRight DEF ReadSoFar
<1> QED
  BY <1>4, <1>5, <1>6, <1>7, <1>8 DEF ReadSoFar

LEMMA LogpathStep ==
  ASSUME ConfigTypeOK, ReadSoFar, ReadLogpath
  PROVE  ReadSoFar'
<1>0. Reading("logpath") /\ "logpath" \in Entries
  BY DEF ReadLogpath, Entries
<1>1. \A d \in Entries : Done(d)' <=> Done(d) \/ d = "logpath"
  BY <1>0, DoneAfter
<1>2. UNCHANGED <<file, mysql, strings, ports, webserver>>
  BY DEF ReadLogpath
<1>3. TypeRead'
  BY <1>1, <1>2 DEF TypeRead, ReadSoFar, Entries, Mysql
<1>4. StringsRead'
  BY <1>1, <1>2 DEF StringsRead, ReadSoFar, Strings, Entries, Needed, Mysql
<1>5. PortsRead'
  BY <1>1, <1>2 DEF PortsRead, ReadSoFar, Entries, PortEntries
<1>6. WebserverRead'
  BY <1>1, <1>2 DEF WebserverRead, ReadSoFar, Entries
<1>7. MalformedIff'
  <2>1. ~WrongType("logpath") <=> file.logpath # "wrong"
    BY DEF WrongType, Strings, PortEntries
  <2>2. Marked(file.logpath # "wrong")
    BY DEF ReadLogpath
  <2> QED
    BY <1>0, <1>2, <2>1, <2>2, MarkedRight DEF ReadSoFar
<1> QED
  BY <1>3, <1>4, <1>5, <1>6, <1>7 DEF ReadSoFar

LEMMA WebserverStep ==
  ASSUME ConfigTypeOK, ReadSoFar, ReadWebserver
  PROVE  ReadSoFar'
<1>0. Reading("webserver") /\ "webserver" \in Entries
  BY DEF ReadWebserver, Entries
<1>1. \A d \in Entries : Done(d)' <=> Done(d) \/ d = "webserver"
  BY <1>0, DoneAfter
<1>2. UNCHANGED <<file, mysql, strings, ports>>
  BY DEF ReadWebserver
<1>3. TypeRead'
  BY <1>1, <1>2 DEF TypeRead, ReadSoFar, Entries, Mysql
<1>4. StringsRead'
  BY <1>1, <1>2 DEF StringsRead, ReadSoFar, Strings, Entries, Needed, Mysql
<1>5. PortsRead'
  BY <1>1, <1>2 DEF PortsRead, ReadSoFar, Entries, PortEntries
<1>6. WebserverRead'
  BY <1>2 DEF WebserverRead, ReadWebserver
<1>7. MalformedIff'
  <2>1. ~WrongType("webserver") <=> file.webserver # "wrong"
    BY DEF WrongType, Strings, PortEntries
  <2>2. Marked(file.webserver # "wrong")
    BY DEF ReadWebserver
  <2> QED
    BY <1>0, <1>2, <2>1, <2>2, MarkedRight DEF ReadSoFar
<1> QED
  BY <1>3, <1>4, <1>5, <1>6, <1>7 DEF ReadSoFar

\* Once all is read, the file decides whether it is accepted.
LEMMA CompleteIsAccepted ==
  ASSUME ConfigTypeOK, ReadSoFar, next = 11
  PROVE  ~malformed /\ Verified <=> Complete
<1>1. \A e \in Entries : Done(e)
  BY Places DEF Done, Entries, Strings, PortEntries
<1>2. malformed <=> \E e \in Entries : WrongType(e)
  BY <1>1 DEF ReadSoFar, MalformedIff
<1>3. mysql = Mysql
  BY <1>1 DEF ReadSoFar, TypeRead, Entries
<1>4. \A e \in Strings : Needed(e) /\ file.strings[e] # "wrong" => strings[e] = file.strings[e]
  BY <1>1 DEF ReadSoFar, StringsRead, Entries
<1>5. /\ ports["databaseport"] = 3306
      /\ \A e \in {"serverport", "webserverport"} :
           file.ports[e] # -1 => ports[e] = file.ports[e] % Width
  BY <1>1 DEF ReadSoFar, PortsRead, Entries, PortEntries
<1>6. file.webserver # "wrong" => webserver = (file.webserver = "true")
  BY <1>1 DEF ReadSoFar, WebserverRead, Entries
<1>7. Needed("databasename") /\ Needed("serverport") /\ Needed("webserverport")
  BY DEF Needed, ForMysql
<1>8. "databasename" \in Strings /\ (\A e \in Strings : Needed(e) <=> Mysql \/ e = "databasename")
      /\ (Needed("databaseport") <=> Mysql)
  BY DEF Strings, Needed, ForMysql
<1>9. file.strings \in [Strings -> {"", "text", "wrong"}]
  BY FileParts
\* The file has no entry of a wrong type.
<1> DEFINE Right ==
      /\ file.databasetype # "wrong" /\ file.webserver # "wrong" /\ file.logpath # "wrong"
      /\ \A e \in Strings : Needed(e) => file.strings[e] # "wrong"
      /\ file.ports["serverport"] # -1 /\ file.ports["webserverport"] # -1
      /\ Mysql => file.ports["databaseport"] # -1
<1>10. ~malformed <=> Right
  <2>1. (\A e \in Entries : ~WrongType(e)) <=> Right
    <3>1. ~WrongType("databasetype") <=> file.databasetype # "wrong"
      BY DEF WrongType, Strings, PortEntries
    <3>2. ~WrongType("webserver") <=> file.webserver # "wrong"
      BY DEF WrongType, Strings, PortEntries
    <3>7. ~WrongType("logpath") <=> file.logpath # "wrong"
      BY DEF WrongType, Strings, PortEntries
    <3>3. \A e \in Strings : ~WrongType(e) <=> (Needed(e) => file.strings[e] # "wrong")
      BY DEF WrongType, Strings, PortEntries
    <3>4. \A e \in PortEntries : ~WrongType(e) <=> (Needed(e) => file.ports[e] # -1)
      BY DEF WrongType, Strings, PortEntries
    <3>5. (\A e \in PortEntries : ~WrongType(e)) <=>
            /\ file.ports["serverport"] # -1 /\ file.ports["webserverport"] # -1
            /\ Mysql => file.ports["databaseport"] # -1
      BY <3>4, <1>7, <1>8 DEF PortEntries
    <3>6. (\A e \in Entries : ~WrongType(e)) <=>
            /\ ~WrongType("databasetype") /\ ~WrongType("webserver") /\ ~WrongType("logpath")
            /\ \A e \in Strings : ~WrongType(e)
            /\ \A e \in PortEntries : ~WrongType(e)
      BY DEF Entries
    <3> QED
      BY <3>1, <3>2, <3>3, <3>5, <3>6, <3>7, Zenon
  <2> QED
    BY <1>2, <2>1 DEF ConfigTypeOK
<1>11. Complete => Right
  BY <1>8 DEF Complete, Mysql
<1>12. Right => (Verified <=> Complete)
  <2> SUFFICES ASSUME Right PROVE Verified <=> Complete
    OBVIOUS
  <2>1. strings["databasename"] # "" <=> file.strings["databasename"] = "text"
    BY <1>4, <1>7, <1>8, <1>9
  <2>2. ~(ports["webserverport"] = 0 /\ webserver) <=>
          (file.webserver = "true" => file.ports["webserverport"] % Width # 0)
    <3>1. ports["webserverport"] = file.ports["webserverport"] % Width
      BY <1>5
    <3>2. webserver = (file.webserver = "true")
      BY <1>6, Zenon
    <3>3. webserver <=> file.webserver = "true"
      BY <3>2, Zenon
    <3> QED
      BY <3>1, <3>3
  <2>3. Mysql => \A e \in Strings : strings[e] # "" <=> file.strings[e] = "text"
    BY <1>4, <1>8, <1>9
  <2>4. ports["databaseport"] # 0 /\ ports["serverport"] = file.ports["serverport"] % Width
    BY <1>5
  <2> QED
    BY <1>3, <2>1, <2>2, <2>3, <2>4, Zenon DEF Verified, Complete, Mysql
<1> QED
  BY <1>10, <1>11, <1>12

LEMMA ReadKeepsSoFar ==
  ASSUME ConfigTypeOK, ReadSoFar, Read
  PROVE  ReadSoFar'
BY TypeStep, StringStep, PortStep, WebserverStep, LogpathStep, Zenon DEF Read

LEMMA SameSoFar ==
  ASSUME ReadSoFar, UNCHANGED <<file, next, malformed, mysql, strings, ports, webserver>>
  PROVE  ReadSoFar'
BY DEF ReadSoFar, TypeRead, StringsRead, PortsRead, WebserverRead, MalformedIff, Done, Needed,
       Mysql, WrongType

\* Behind the configuration the program goes on only with what was accepted.
Going == {"check", "command", "starting", "spawning", "waiting"}

Accepted == main \in Going \/ thread # "none" => result = "ok"

ConfigInv == TypeOK /\ ReadSoFar /\ Judged /\ Accepted

LEMMA InitConfigInv == Init => ConfigInv
<1> SUFFICES ASSUME Init PROVE ConfigInv
  OBVIOUS
<1>1. TypeOK
  BY InitType
<1>2. ~Done("databasetype") /\ ~Done("webserver") /\ (\A e \in Entries : ~Done(e))
  <2>1. \A e \in Entries : Place(e) \in 1 .. 10
    BY Places DEF Entries, Strings, PortEntries
  <2>2. next = 1
    BY DEF Init, ConfigInit
  <2>3. \A e \in Entries : ~Done(e)
    BY <2>1, <2>2 DEF Done
  <2> QED
    BY <2>3 DEF Entries
<1>3. ports["databaseport"] = 3306 /\ malformed = FALSE /\ result = "none"
  BY DEF Init, ConfigInit, Defaults
<1>4. ReadSoFar
  <2>1. TypeRead /\ WebserverRead
    BY <1>2 DEF TypeRead, WebserverRead
  <2>2. StringsRead /\ PortsRead
    <3>1. \A e \in Strings : ~Done(e)
      BY <1>2 DEF Entries
    <3>2. \A e \in {"serverport", "webserverport"} : ~Done(e)
      BY <1>2 DEF Entries, PortEntries
    <3>3. StringsRead
      BY <3>1 DEF StringsRead
    <3>4. PortsRead
      BY <1>3, <3>2 DEF PortsRead
    <3> QED
      BY <3>3, <3>4
  <2>3. MalformedIff
    BY <1>2, <1>3 DEF MalformedIff
  <2> QED
    BY <2>1, <2>2, <2>3 DEF ReadSoFar
<1>5. Judged
  BY <1>3 DEF Judged
<1>6. Accepted
  BY DEF Accepted, Init, Going
<1> QED
  BY <1>1, <1>4, <1>5, <1>6 DEF ConfigInv

LEMMA OthersKeepAccepted ==
  ASSUME Others, Accepted, result' = result
  PROVE  Accepted'
<1> USE DEF Accepted, Going
<1>1. CASE CheckDB \/ Command
  BY <1>1 DEF CheckDB, Command, AfterCommand
<1>2. CASE Start
  BY <1>2 DEF Start
<1>3. CASE SeeStopped \/ CloseDB \/ Delete
  BY <1>3 DEF SeeStopped, CloseDB, Delete
<1>4. CASE Exit
  BY <1>4 DEF Exit
<1>5. CASE Listen \/ SocketFails \/ Loop
  BY <1>5 DEF Listen, SocketFails, Loop
<1>6. CASE Hold \/ Quiet \/ EndPass \/ StartRequest
  BY <1>6 DEF Hold, Quiet, EndPass, StartRequest
<1>7. CASE \E kind \in Requests : EndRequest(kind)
  BY <1>7 DEF EndRequest
<1>8. CASE Stop \/ Pause \/ Unpause
  BY <1>8 DEF Stop, Pause, Unpause
<1> QED
  BY <1>1, <1>2, <1>3, <1>4, <1>5, <1>6, <1>7, <1>8 DEF Others, Thread

LEMMA StepConfigInv ==
  ASSUME ConfigInv, [Next]_vars
  PROVE  ConfigInv'
<1>0. TypeOK /\ ConfigTypeOK /\ ReadSoFar /\ Judged /\ Accepted /\ TypeOK'
  BY StepType, TypeParts DEF ConfigInv
<1>1. CASE LoadConfig
  <2>1. result = "none" /\ result' = result
    BY <1>0, <1>1, TypeParts, ReadKeepsType DEF LoadConfig
  <2>2. ReadSoFar'
    BY <1>0, <1>1, ReadKeepsSoFar DEF LoadConfig
  <2>3. Judged'
    BY <2>1 DEF Judged
  <2>4. Accepted'
    BY <1>0, <1>1, <2>1 DEF Accepted, LoadConfig, Going
  <2> QED
    BY <1>0, <2>2, <2>3, <2>4 DEF ConfigInv
<1>2. CASE Configure
  <2>1. /\ next > Len(Order) /\ result' = IF ~malformed /\ Verified THEN "ok" ELSE "refused"
        /\ UNCHANGED <<file, next, malformed, mysql, strings, ports, webserver>>
        /\ result = "none" /\ main = "config"
    BY <1>2 DEF Configure, VerifyConfig
  <2>2. ReadSoFar'
    BY <1>0, <2>1, SameSoFar
  <2>3. next = 11
    <3>1. next \in 1 .. Len(Order) + 1
      BY <1>0 DEF ConfigTypeOK
    <3> QED
      BY <2>1, <3>1, LenOrder
  <2>4. Judged'
    <3>1. Verified' <=> Verified
      BY <2>1 DEF Verified
    <3> QED
      BY <2>1, <2>3, <3>1 DEF Judged
  <2>5. Accepted'
    <3>1. thread' = thread /\ main' = IF result' = "ok" THEN "check" ELSE AfterCommand
      BY <1>2 DEF Configure
    <3>2. thread = "none"
      BY <1>0, <2>1 DEF Accepted
    <3> QED
      BY <3>1, <3>2 DEF Accepted, Going, AfterCommand
  <2> QED
    BY <1>0, <2>2, <2>4, <2>5 DEF ConfigInv
<1>3. CASE Others
  <2>1. ConfigSame
    BY <1>0, <1>3, OthersKeepConfig DEF TypeOK
  <2>2. UNCHANGED <<file, next, malformed, mysql, strings, ports, webserver, result>>
    BY <2>1 DEF ConfigSame, configVars
  <2>3. ReadSoFar'
    BY <1>0, <2>2, SameSoFar
  <2>4. Judged'
    BY <1>0, <2>2 DEF Judged, Verified
  <2>5. Accepted'
    BY <1>0, <1>3, <2>2, OthersKeepAccepted
  <2> QED
    BY <1>0, <2>3, <2>4, <2>5 DEF ConfigInv
<1>4. CASE UNCHANGED vars
  <2>1. UNCHANGED <<file, next, malformed, mysql, strings, ports, webserver, result, main, thread>>
    BY <1>4 DEF vars, configVars
  <2>2. ReadSoFar'
    BY <1>0, <2>1, SameSoFar
  <2>3. Judged' /\ Accepted'
    BY <1>0, <2>1 DEF Judged, Verified, Accepted
  <2> QED
    BY <1>0, <2>2, <2>3 DEF ConfigInv
<1> QED
  BY <1>1, <1>2, <1>3, <1>4, NextParts

\* For every file, whatever its ports are and however many of its entries are wrong: it is
\* accepted if and only if it is complete, and the server then listens where it says.
THEOREM ListensWhereItIsTold == Spec => []ListensWhereTold
<1>1. Init => ConfigInv
  BY InitConfigInv
<1>2. ConfigInv /\ [Next]_vars => ConfigInv'
  BY StepConfigInv
<1>3. ConfigInv => ListensWhereTold
  <2> SUFFICES ASSUME ConfigInv PROVE ListensWhereTold
    OBVIOUS
  <2>0. ConfigTypeOK /\ ReadSoFar /\ Judged /\ Accepted
    BY TypeParts DEF ConfigInv
  <2>1. AcceptedIffComplete
    BY <2>0, CompleteIsAccepted DEF Judged, AcceptedIffComplete
  <2>2. ASSUME thread \in Looping PROVE ports["serverport"] = file.ports["serverport"] % Width
    <3>1. result = "ok"
      BY <2>0, <2>2 DEF Accepted, Looping
    <3>2. next = 11 /\ file.ports["serverport"] # -1
      BY <2>0, <2>1, <3>1 DEF Judged, AcceptedIffComplete, Complete
    <3>3. Done("serverport")
      BY <3>2, Places DEF Done
    <3> QED
      BY <2>0, <3>2, <3>3 DEF ReadSoFar, PortsRead
  <2> QED
    BY <2>1, <2>2 DEF ListensWhereTold
<1> QED
  BY <1>1, <1>2, <1>3, PTL DEF Spec
===============================================================================
