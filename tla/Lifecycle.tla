------------------------------- MODULE Lifecycle -------------------------------
(***************************************************************************)
(* A run of the program from its start to its exit: the main thread, which  *)
(* begins by reading the configuration (Config), the server thread, the two  *)
(* flags they share, and the connection to the database.  Both threads use   *)
(* the one handle db; nothing is locked.  The main thread deletes the server *)
(* and exits when it sees that running is false, and the exit ends the       *)
(* server thread, which was detached.                                       *)
(***************************************************************************)
EXTENDS Config

CONSTANTS
  Modes,     \* how the program is called: "server", "create", "set", "key"
  Callers,   \* what others may call: "stop", "pause", "unpause"
  Faults,    \* what may fail: "open", "socket"
  Requests,  \* the kinds of requests that battle servers send, of AllRequests
  Slots,     \* the connections of one pass
  MaxLost    \* bound: handles lost

AllRequests == {"login", "save", "team data", "remove member", "other"}

ASSUME ConstantsOK ==
  /\ Modes \subseteq {"server", "create", "set", "key"}
  /\ Callers \subseteq {"stop", "pause", "unpause"}
  /\ Faults \subseteq {"open", "socket"}
  /\ Requests \subseteq AllRequests
  /\ Slots \in Nat /\ MaxLost \in Nat

VARIABLES
  mode,             \* how the program was called
  running, paused,  \* the flags
  main,             \* where the main thread is
  thread,           \* where the server thread is
  left,             \* the slots it has left in this pass
  db,               \* the handle: "unset", "open", "busy" with a statement, "closed"
  lost,             \* handles that were overwritten before they were closed
  leaky,            \* history: a request kept its connection, or left a statement
  stopped           \* history: Stop was called before or after the thread was in its loop

dbVars == <<db, lost, leaky>>
vars == <<configVars, mode, running, paused, main, thread, left, dbVars, stopped>>

MainSteps ==
  {"config", "check", "starting", "spawning", "waiting", "command", "closing", "deleting",
   "leaving", "gone"}

Looping == {"loop", "hold", "pass", "request"}

TypeOK ==
  /\ ConfigTypeOK
  /\ mode \in Modes
  /\ running \in BOOLEAN /\ paused \in BOOLEAN
  /\ main \in MainSteps
  /\ thread \in Looping \cup {"none", "setup", "ended"}
  /\ left \in 0 .. Slots
  /\ db \in {"unset", "open", "busy", "closed"}
  /\ lost \in 0 .. MaxLost /\ leaky \in BOOLEAN
  /\ result = "none" <=> main = "config"
  /\ stopped \in {"no", "early", "late"}

Init ==
  /\ ConfigInit
  /\ mode \in Modes
  /\ running = FALSE /\ paused = FALSE
  /\ main = "config" /\ thread = "none"
  /\ left = 0
  /\ db = "unset" /\ lost = 0 /\ leaky = FALSE
  /\ stopped = "no"

Outcomes(kind) == IF kind \in Faults THEN BOOLEAN ELSE {TRUE}

-------------------------------------------------------------------------------
(* The connection.  A handle that is opened over is lost; one that could not *)
(* be opened is to be closed all the same.                                 *)

Open ==
  /\ lost < MaxLost \/ db \notin {"open", "busy"}
  /\ db' = "open"
  /\ lost' = IF db \in {"open", "busy"} THEN lost + 1 ELSE lost

\* sqlite3_close leaves a connection with a statement open.
Closed(handle) == IF handle = "busy" /\ ~mysql THEN "busy" ELSE "closed"

-------------------------------------------------------------------------------
(* The main thread.                                                        *)

\* What main does with a server that failed, or a command that is over.
AfterCommand == IF mode = "key" THEN "deleting" ELSE "closing"

LoadConfig ==
  /\ main = "config"
  /\ Read
  /\ UNCHANGED <<mode, running, paused, main, thread, left, dbVars, stopped>>

Configure ==
  /\ main = "config"
  /\ VerifyConfig
  /\ main' = IF result' = "ok" THEN "check" ELSE AfterCommand
  /\ UNCHANGED <<mode, running, paused, thread, left, dbVars, stopped>>

CheckDBKeepsOpen ==
  /\ main = "check"
  /\ \E ok \in Outcomes("open") :
       /\ db' = "open"
       /\ main' = IF ~ok THEN AfterCommand ELSE IF mode = "server" THEN "starting" ELSE "command"
  /\ UNCHANGED <<configVars, mode, running, paused, thread, left, lost, leaky, stopped>>

\* Opens and closes the database, unless it cannot be opened or lacks a table.
CheckDB ==
  /\ main = "check"
  /\ \E ok \in Outcomes("open") :
       /\ db' = IF ok THEN "closed" ELSE "open"
       /\ main' = IF ~ok THEN AfterCommand ELSE IF mode = "server" THEN "starting" ELSE "command"
  /\ UNCHANGED <<configVars, mode, running, paused, thread, left, lost, leaky, stopped>>

\* A command refused keeps the connection open, but for one that writes no key file.
Command ==
  /\ main = "command"
  /\ \/ db' = "closed"
     \/ mode # "key" /\ db' = "open"
     \/ mode = "key" /\ "open" \in Faults /\ db' = "open"
  /\ main' = AfterCommand
  /\ UNCHANGED <<configVars, mode, running, paused, thread, left, lost, leaky, stopped>>

StartThreadFirst ==
  /\ \/ main = "starting" /\ thread' = "setup" /\ main' = "spawning" /\ UNCHANGED running
     \/ main = "spawning" /\ running' = TRUE /\ main' = "waiting" /\ UNCHANGED thread
  /\ UNCHANGED <<configVars, mode, paused, left, dbVars, stopped>>

Start ==
  /\ \/ main = "starting" /\ running' = TRUE /\ main' = "spawning" /\ UNCHANGED thread
     \/ main = "spawning" /\ thread' = "setup" /\ main' = "waiting" /\ UNCHANGED running
  /\ UNCHANGED <<configVars, mode, paused, left, dbVars, stopped>>

SeeStoppedAndJoin ==
  /\ main = "waiting"
  /\ ~running /\ thread = "ended"
  /\ main' = "closing"
  /\ UNCHANGED <<configVars, mode, running, paused, thread, left, dbVars, stopped>>

SeeStopped ==
  /\ main = "waiting"
  /\ ~running
  /\ main' = "closing"
  /\ UNCHANGED <<configVars, mode, running, paused, thread, left, dbVars, stopped>>

\* The pointer db, which no constructor sets, is NULL or wild when the configuration
\* was refused: closing does nothing or ends the program.
CloseDB ==
  /\ main = "closing"
  /\ IF db = "unset"
       THEN db' = db /\ main' \in {"deleting", "gone"}
       ELSE db' = Closed(db) /\ main' = "deleting"
  /\ UNCHANGED <<configVars, mode, running, paused, thread, left, lost, leaky, stopped>>

\* ~Server deletes the connections; db stays.
Delete ==
  /\ main = "deleting"
  /\ main' = "leaving"
  /\ UNCHANGED <<configVars, mode, running, paused, thread, left, dbVars, stopped>>

Exit ==
  /\ main = "leaving"
  /\ main' = "gone"
  /\ thread' = IF thread = "none" THEN "none" ELSE "ended"
  /\ UNCHANGED <<configVars, mode, running, paused, left, dbVars, stopped>>

Main ==
  LoadConfig \/ Configure \/ CheckDB \/ Command \/ Start \/ SeeStopped \/ CloseDB \/ Delete \/ Exit

-------------------------------------------------------------------------------
(* The server thread.                                                      *)

Listen ==
  /\ thread = "setup"
  /\ running' = TRUE
  /\ thread' = "loop"
  /\ UNCHANGED <<configVars, mode, paused, main, left, dbVars, stopped>>

SocketFailsAndGoesOn ==
  /\ thread = "setup"
  /\ "socket" \in Faults
  /\ running' = FALSE
  /\ UNCHANGED <<configVars, mode, paused, main, thread, left, dbVars, stopped>>

\* The thread's own Stop.
SocketFails ==
  /\ thread = "setup"
  /\ "socket" \in Faults
  /\ running' = FALSE
  /\ thread' = "ended"
  /\ UNCHANGED <<configVars, mode, paused, main, left, dbVars, stopped>>

Loop ==
  /\ thread = "loop"
  /\ thread' = IF running THEN "hold" ELSE "ended"
  /\ UNCHANGED <<configVars, mode, running, paused, main, left, dbVars, stopped>>

\* While paused the thread sleeps and looks at nothing else.
Hold ==
  /\ thread = "hold"
  /\ ~paused
  /\ thread' = "pass"
  /\ left' = Slots
  /\ UNCHANGED <<configVars, mode, running, paused, main, dbVars, stopped>>

\* A slot that is free, or from which no request comes.
Quiet ==
  /\ thread = "pass"
  /\ left > 0
  /\ left' = left - 1
  /\ UNCHANGED <<configVars, mode, running, paused, main, thread, dbVars, stopped>>

StartRequest ==
  /\ thread = "pass"
  /\ left > 0
  /\ Open
  /\ left' = left - 1
  /\ thread' = "request"
  /\ UNCHANGED <<configVars, mode, running, paused, main, leaky, stopped>>

\* A player without a row of rivals leaves a statement.
LoginEnds == {"closes", "unfinalized"}

\* Closed only when a query fails.
GetTeamDataEnds == {"closes", "keeps"}

\* Closed unless the member who is to go is the one who asks.
RemoveTeamMemberEnds == {"closes", "keeps"}

\* What could not be opened is closed by Save Client Data only.
Ends(kind) ==
  (CASE kind = "login" -> LoginEnds
     [] kind = "team data" -> GetTeamDataEnds
     [] kind = "remove member" -> RemoveTeamMemberEnds
     [] OTHER -> {"closes"})
    \cup IF "open" \in Faults /\ kind # "save" THEN {"keeps"} ELSE {}

EndRequest(kind) ==
  /\ thread = "request"
  /\ \E end \in Ends(kind) :
       /\ db' = CASE end = "closes" -> Closed(db)
                  [] end = "keeps" -> db
                  [] end = "unfinalized" -> Closed("busy")
       /\ leaky' = (leaky \/ end # "closes")
  /\ thread' = "pass"
  /\ UNCHANGED <<configVars, mode, running, paused, main, left, lost, stopped>>

EndPass ==
  /\ thread = "pass"
  /\ left = 0
  /\ thread' = "loop"
  /\ UNCHANGED <<configVars, mode, running, paused, main, left, dbVars, stopped>>

Thread ==
  \/ Listen \/ SocketFails
  \/ Loop \/ Hold
  \/ Quiet \/ StartRequest \/ EndPass
  \/ \E kind \in Requests : EndRequest(kind)

-------------------------------------------------------------------------------
(* Stop, Pause and Unpause, as another thread would call them.             *)

Serving == {"spawning", "waiting"}

Stop ==
  /\ "stop" \in Callers
  /\ main \in Serving /\ running
  /\ running' = FALSE
  /\ stopped' = IF thread \in Looping THEN "late" ELSE "early"
  /\ UNCHANGED <<configVars, mode, paused, main, thread, left, dbVars>>

Pause ==
  /\ "pause" \in Callers
  /\ main \in Serving /\ ~paused
  /\ paused' = TRUE
  /\ UNCHANGED <<configVars, mode, running, main, thread, left, dbVars, stopped>>

Unpause ==
  /\ "unpause" \in Callers
  /\ main \in Serving /\ paused
  /\ paused' = FALSE
  /\ UNCHANGED <<configVars, mode, running, main, thread, left, dbVars, stopped>>

Next == Main \/ Thread \/ Stop \/ Pause \/ Unpause

\* Both threads are scheduled.
Spec == Init /\ [][Next]_vars /\ WF_vars(Main) /\ WF_vars(Thread)

-------------------------------------------------------------------------------
\* While nobody but the server thread itself calls Stop, the main thread closes the
\* database and deletes the connections only when that thread is through with them,
\* paused or not (SBOL DB Server.cpp:114-120, server.cpp:1091).
DeletedWhenThreadEnded ==
  stopped = "no" /\ main \in {"closing", "deleting", "leaving", "gone"} =>
    thread \in {"none", "ended"}

\* A connection is opened over before it was closed only after a request that left it so:
\* Get Team Data, a Remove Team Member of the one who asks, the login of a player without
\* rivals, or one that could not open it; never because of any other request, of the table
\* check or of the main thread (database.cpp:76, :163, ClientRequestsPackets.cpp:543, :684).
HandlesLostByRequests == lost > 0 => leaky

\* A Stop that comes when the thread is in its loop is never undone: neither by Start
\* nor by the thread, which both set running (server.cpp:81, :1100).
LateStopSticks == stopped = "late" => ~running

\* A file is accepted if and only if it has all that its kind of database and server
\* need, and a log path, and then the server listens on the port of its own entry (up to
\* 16 bits), although another one is stored in the same variable (server.cpp:438, :459, :1076).
ListensWhereTold ==
  /\ AcceptedIffComplete
  /\ thread \in Looping => ports["serverport"] = file.ports["serverport"] % Width

\* A server whose thread gave up does not stay around (SBOL DB Server.cpp:114):
\* Start sets running before there is a thread that may reset it (server.cpp:81-82).
EndedThreadEndsProgram == thread = "ended" ~> main = "gone"

\* A Stop ends the program, even while the thread is paused and does not look at
\* running: the main thread waits for no other (SBOL DB Server.cpp:114, server.cpp:1104).
LateStopEndsProgram == stopped = "late" ~> main = "gone"
===============================================================================
