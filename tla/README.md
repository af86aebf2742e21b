# A verification project for the SBOL database server

The SBOL DB Server keeps the accounts, cars and teams of an online racing game in
an SQLite or MySQL database and serves them to *battle servers* over TCP. This
directory holds TLA+ models of it, TLC runs on small instances, and theorems
checked by TLAPS for every value of the constants. Line numbers refer to
`src/SBOL DB Server/`.

## 1. The system

### 1.1 Components, their state and operations

| Component | State | Operations |
|---|---|---|
| Connection table and server thread (`server.cpp` 809-930, 1052-1188, `client.cpp` 10-37) | ten `CLIENT` slots, `serverConnections`/`serverNumConnections`, the listening socket | accept into the lowest free slot; for each occupied slot: send, receive, close if marked, heartbeat |
| Battle server authentication (`ServerAuthPackets.cpp`) | `isAuth`, `key`, `iv` of a slot, table `server_keys` | handshake, heartbeat |
| Packet dispatch (`client.cpp` 96-149, `packets.h`) | `todc`, `inbuf` | refuse or call the handler of the packet's type |
| Receive path (`server.cpp` 790-808, 974-1033) | `rcvbuf`, `rcvread`, `hassize`, `packetsize`, `inbuf` | append what the socket has, cut a packet off, dispatch it |
| Send path (`client.cpp` 38-91, 239-287, `server.cpp` 931-973, `serverpacket.*`) | `outbuf`, `sendQueue`, `sndbuf`, `snddata` | pad, queue, move to `sndbuf`, send in pieces |
| Broadcasts (`ClientOperationsPackets.cpp`, `server.cpp` 1172-1178) | none; one `SERVERPACKET` is sent to every slot | chat, notices, team chat, team data |
| Teams (`ClientRequestsPackets.cpp` 270-739) | `team_data`; `teamid`, `teamarea` of `account_data` | create, invite type, comment, delete, get data, team area, remove member; the team column of Save and login |
| Player data (`ClientRequestsPackets.cpp` 24-269, `ClientAuthPackets.cpp` 15-409) | the other columns of `account_data`; `rival_data`, `garage_data`, `item_data`, `sign_data` | save, swap or move a car, remove a car, login |
| Administration (`server.cpp` 115-272, `ClientAuthPackets.cpp` 410-441) | `username`, `password`, `handle` of `account_data`; `server_keys` | `-createaccount`, `-setpassword`, `-createkey`, login check, handle check |
| Lifecycle (`server.cpp` 74-114, 565-569, 1052-1108, `SBOL DB Server.cpp`) | `running`, `paused`, `db` | start, stop, pause, unpause, the commands of the main thread, close the database, delete the server |
| Database wrapper (`database.cpp`) | the handle, `results` | open, exec, get a blob, close |
| Configuration (`server.cpp` 281-564) | `config.json` and the members it fills | load entry by entry, verify |
| Table creation (`server.cpp` 565-789) | the schema, the default account | look for each table, create it, insert the default account |
| Logger (`Logger.cpp`), thread pool (`ThreadPool.h`, unused) | log files | log |

### 1.2 How they interact

One thread runs everything that touches a connection. A pass of `ServerThread`
accepts at most one connection into a slot, then gives each occupied slot a turn:
`Send` moves bytes out, `Recv` moves bytes in and, when a packet is complete, calls
its handler at once; the handler opens the database, executes its statements one by
one, closes it, and calls `CLIENT::Send` on its own slot or `SendToAll` on all of
them. `Disconnect` only sets `todc`; the slot is closed at the end of its turn, and
the end of the turn also sends a heartbeat when its timer has run out. The main thread
only starts the server, polls `running`, closes the database and deletes the server; it uses
the same handle `db` as the server thread, without a lock. Administration commands are
processes of their own that share the database file, and each of them, like the server
itself, first reads the configuration and creates what tables are missing.

### 1.3 What is hard

* **Order.** Peers connect, send, close and reset between any two steps of a pass; slots
  are reused; what a slot keeps of its last client depends on `Initialize` and on what
  the same iteration does after it.
* **Bytes.** `recv` and `send` take any number of bytes; sizes are 16 bits wide; several
  bounds are off by one or tested in the wrong order.
* **Reuse of packets.** `outbuf` is sent again by handlers that fall through, and one
  packet is sent to every slot although each `Send` changes it.
* **Failure.** A request is a series of statements without a transaction, and the code
  looks at no error: a failed `SELECT` looks like one without rows.
* **Crashes.** A save is a dozen statements; the server, or a command between its two
  statements, may be killed anywhere, and what was executed stays.
* **Processes.** Commands and servers overlap: each looks first and writes later.
* **Two threads, two flags.** `running` is written by both threads and read by both; the end
  of the main thread ends the other one wherever it is.
* **Staleness.** Battle servers keep a player's data for a whole session and write it
  back, whatever happened to the player's team meanwhile.
* **Progress.** One packet per slot and pass; slots are freed only by an error or a
  heartbeat that fails; the send loop must not hang.

`PROJECT.json` lists each hazard at its line with the properties that cover it.

### 1.4 What makes each component correct

* Connection table: the registry is exact, a socket is in one place, a free slot is
  clean, a marked slot stays marked and is closed, only offenders are disconnected,
  peers that left lose their slots.
* Authentication: one connection per key; nothing but broadcasts and heartbeats goes to
  a peer that has not authenticated, and no answer to another peer's packet.
* Receive path: a queue of packets - each one handled once, in order; nothing is
  dispatched from the middle of a packet.
* Send path: a byte stream - bytes leave once, in order, without gaps, and all of them if the
  peer reads; the queue of one that does not should be bounded (section 5: it is not); the
  padding hangs on no packet but one that was sent too often.
* Teams: names unique, ids never reused, only leaders act, answers tell the truth.
* Player data: after a save without failures a login returns what was saved; a bay shows one
  car; no save touches an impounded car; a player is locked out, or loses data, only for a cause
  that can be named.
* Administration: names unique, but for the account that came with the table; a reported account is there,
  the key in the file is accepted, passwords change by `-setpassword` only, and two players have one handle only if
  one of them was told that it is free while a session of the other held it.
* Table creation: whoever goes on has every table; the default account is never reset.
* Configuration: a file is accepted exactly when it is complete, its log path included, and its port is the one used.
* Lifecycle: connections are deleted only when the thread that uses them has ended; handles are lost
  only by the four kinds of request that keep them or a statement on them; a stop sticks and ends the program.

## 2. The modules

| Module | What it is | Proofs |
|---|---|---|
| `ClientTable` | abstract: who is connected, under which key, and who is to go | |
| `ServerLoop` (`MCServerLoop`) | the server thread with whole packets and messages; refines `ClientTable` | `ServerLoopProofs` |
| `PacketFifo` | abstract: one dispatch for each packet, in order, of the packet or, when it fills the buffer, of the one before it | |
| `RecvPath` | the receive path of one slot, byte by byte; refines `PacketFifo` | `RecvPathProofs` |
| `ByteStream` | abstract: positions accepted and delivered in order, reset | |
| `SendPath` | the send path of one slot, byte by byte; refines `ByteStream` | `SendPathProofs` |
| `TeamBook` | abstract: who is in which team, and what its leader may do | |
| `TeamDB` (`MCTeamDB`) | the team requests over the two tables, statement by statement; refines `TeamBook` | `TeamDBProofs` |
| `Garage` | abstract: what every bay of a player holds | |
| `PlayerDB` (`MCPlayerDB`) | logins, saves with failures and crashes, garage requests; refines `Garage` | `PlayerDBProofs` |
| `AccountText` | what the next two share: names and handles in several spellings, statements that may fail | |
| `AccountsDB` (`MCAccountsDB`) | the three commands as processes | `AccountsDBProofs` |
| `HandleDB` (`MCHandleDB`) | the handle check and the save that stores the handle, in sessions that overlap | `AccountsDBProofs` |
| `Schema` | the creation of the tables by several processes | `SchemaProofs` |
| `Config` | `config.json`, entry by entry, and its verification | |
| `Lifecycle` | main thread, server thread, flags and handle; extends `Config`, with which a run begins | `LifecycleProofs` |

`ServerLoop` composes the slots; `RecvPath` and `SendPath` are what one slot's turn does
with bytes. `ServerLoop` may take a packet from a slot's stream as a whole because
`RecvPath` implements `PacketFifo`, and hand a message over as a whole because `SendPath`
implements `ByteStream`. `TeamDB` is what the "request" and "update" packets of
`ServerLoop` do to the database; requests are atomic with regard to each other because
one thread executes them, while other processes show only as statements that fail. `PlayerDB` is the
other half of these requests; it takes the save apart, because there a crash between two statements matters.
A definition whose name extends another's (`UpsertAny`, `StartThreadFirst`) and which no
`Next` reaches is a plausible slip in that code: put in its place, it breaks a property, which
shows that the property depends on the code being as it is.

### 2.1 ServerLoop

A slot is an index of `connections`; `sock`, `connIndex`, `todc`, `isAuth`, `key`, `beat`
(`lastHeartBeat`), `sendq` and `outbuf` are its fields. `listed` and `nconn` stand for
`serverConnections` and `serverNumConnections`. `pc` and `cur` say where the pass is.
Each turn is three steps - `SendStep`, `RecvStep` with the packet handler inside it, and
`CloseSlot` or `KeepSlot` - so the peers may act between them. A packet is its kind and, for
a handshake, the key it names; a message is its kind and the peer whose packet caused it.

`AcceptConnection` accepts one connection when a slot is free; when none is, its loop
drains the backlog and forgets the sockets (`AcceptWhenFull`). `InitializeConnection` wipes
the slot in `CloseSlot`, and since the loop then calls `SendHeartBeat` on the wiped slot,
its timer is armed and a heartbeat is left in `outbuf`. The comparison of keys in
`Unseen` is exact except for keys with a zero byte: `GetValue` cuts these, and what
`memcmp` reads behind the cut is undefined, so either outcome is allowed; the run has no such key (`NulKeys` is
empty), so that exception is only in the proof. `HandshakeRefuse` may follow any handshake, because the query for the
key may fail, which looks like no such key. A client's
heartbeat stores milliseconds where the loop compares seconds, so `ClientBeat` may leave
the timer run out or out of reach for decades. A packet of an authenticated slot that is too
short to be decrypted (`client.cpp` 105) is dropped, and counts as an `Update` that changes
nothing.

`ClientTable` forgets slots, packets, timers and the list of connections: it has the set of connected peers
(`Connected`, the sockets of the occupied slots), the key each one logged in with (`Logins`) and those that are
to be disconnected (`Doomed`). `AcceptIntoSlot` maps to `Admit`, which has room for `ClientLimit` peers only; a handshake
to `Authenticate`, which a doomed peer cannot take and which takes no key twice but one with a zero byte; `CloseSlot` to
`Drop`, which takes doomed peers only; everything that sets `todc` to `Doom`, at once for all whom an
oversized broadcast reaches. The rest of the pass is stuttering.

### 2.2 RecvPath and PacketFifo

The stream of a connection is the sequence of the offsets where its packets end; `rcvbuf`
is the `rcvread` bytes behind offset `consumed`. `RecvBytes(n)`, `RecvNothing`,
`RecvZero` and `RecvError` are the four outcomes of `recv`; each calls `ProcessRecv`, which is one
operator with the size field in 16 bits (`Wrap`), the flag `hassize` that the
constructor leaves uninitialised, and the cut. `setArray` refuses a packet of exactly the buffer
size, which is cut off all the same: it is lost, and the handler sees the packet before it once
more. `PacketFifo` promises just that (`GetLatestAgain`), so the refinement maps `handled` as it is
and needs no assumption on sizes, and `EveryPacketHandled` asks of each packet below that size
(`Fits`) that it is itself dispatched, also behind one of that size (`Leaves`). A packet larger than the buffer stalls
the connection: `recv` has no room and returns 0 from then on, until a heartbeat or an error ends
the connection. Other slots reach in
only by `Doom`.

### 2.3 SendPath and ByteStream

A `SERVERPACKET` is its size, its offset and, as a history, how often it was sent. `Padded`
is the closed form of the padding loop; `Stuck` says when that loop cannot end because
`append` refuses the byte it wants. `SendHere` is all of `CLIENT::Send`. The two size tests
after the padding can never fail, because the size is a multiple of the block below the
buffer size (`PaddedFits` in `SendPathProofs`). `SendToAll` is a loop over the slots in any
order - this one is somewhere among the others - that hands on the packet as the last
`Send` left it. `SendSome(n)` is a partial send.

### 2.4 TeamDB

`teamid` and `teamarea` are the columns of `account_data`; `teams` is `team_data`, a
function on the ids in use; `nextId` is what AUTOINCREMENT gives next. `told` holds the ids
that answers have told the battle servers: a Save writes back any of them, or none,
because a battle server keeps what it was told for as long as the session lasts. In each request
`ok[i]` says whether its i-th statement succeeds (`Outcomes`). The database is SQLite, whose
reading of `SET teamid = NULL AND teamarea = 0` is `NullAnd`: a Boolean, NULL or 0. `dismissed` is a
history of whom that assignment was meant to remove.

`TeamBook` has the team each player is in (`Membership`: a `teamid` that names no live team is none), the rows of the
teams, the teams that battle servers know and whether a query for a name has failed. Creating maps to
`Found`: while no query failed the name is new and the founder is the only member of a new team, or, if the last
statement failed, nobody is. Afterwards it maps to `FoundUnsure`, in which the founder may land in another team of the
name. The other requests map to `Configure`, `Dismiss`, `Disband` and `Admit`, which only the leader of a team makes
and which touch no other team, and to `Learn`, and a Save to `Join`, into a team that a battle server knows: one that is
gone admits nobody, because ids are not used again. A deletion whose row stays is a `Dismiss` of all members, or `Learn`;
one whose members keep the id is still a `Disband`, because the id names no team any more.

### 2.5 PlayerDB and Garage

Every statement names one license, so a table is a function from licenses to sequences of rows in
the order of `rowid`. `rows` holds the three tables of one row per player (rivals, items,
sign), `garage` that of the cars; `known`, `lots` and `plan` are the columns of
`account_data` that later statements or logins look at. A save is a `job` that walks through `After`, one
action per table and one per car, each with the outcomes of its query and its update; `Crash` may come
between any two. A query that fails looks like no row, so `Upsert` then inserts a second one. `Login`
copies what the tables show (`ToldMissing`) into `session`, and a save writes it back.
`Impound`, `Release`, `BlockItems` and `UnblockItems` are an administrator's, between requests. An update of items goes
to all rows that are open when it is executed, so a block that is set or lifted while a session runs may bring items to
light of which the session knows nothing, and its next save overwrites them with what it holds: `exposed` remembers these
players, and `BlanksHaveACause` names this cause beside a misread login, a torn save and a second session. Removing a car
deletes by bay, and the rows that are left keep their order (`old`).

`Garage` promises what a garage is to a player: a function from bays to cars, with `Put`, `Take`, `Swap` and
`Move`. Of a player whose garage had two cars put in one bay (`tangled`) it promises nothing any more;
until then each request maps to the operation of its name (`KeepsPromise`), whatever statements fail.

### 2.6 AccountsDB and HandleDB

`accounts` is `account_data` in the order of licenses, with the form, text or blob, in which the name was
stored: SQLite keeps `X'...'` as a blob, whatever the type of the column, and a blob equals no text. The default
account is inserted as text, so `-createaccount` finds no account of its name, SQLite's UNIQUE does not object, and the two
share a name without any race or failure; a login, which compares `HEX(LOWER(username))`, takes the one whose password
matches. `NamesUnique` says that on SQLite this is the only case.
Each administrator's process is at one of its two statements, which other processes
interleave; `Killed` ends it there. `Insert` reports success whatever its statement did, as the code
does, because the result of `Close` overwrites that of the INSERT. `WriteKeyFile` precedes
`InsertKey`. The variable `backend`, which no step changes, is the configured database: every run and proof is about
both databases' readings of the same statements.

`HandleDB` has the handle of every player in the table and, for each session, the player and the handle the battle server
holds. A player may have several sessions, old ones included. `CheckFree` is the check that answers "free": the packet
names no license, so it may come at any time, also from a player who has a handle. One that is answered "taken", or not
at all, changes nothing. `Save` writes what the session holds, unconditionally, even no handle. What a battle server
does with the answers is not in this repository: the model assumes that a session saves no handle but the one it was told at
its login or one that a check found free. `overlapped` and `misread` remember who was told so while another's session
held the handle, or by a query that failed. The module is separate because what a handle does depends on no other column.

### 2.7 Schema

`made` is the set of tables; each process is at a step of the check of one table. The result of a `CREATE` is
not looked at; MySQL's branch looks for the table again, SQLite's does not. `Describe`
reads the definition of the table whether or not there is one: what the code does with an
empty result is undefined, so the process goes on or dies (`DescribeDies`).

### 2.8 Config and Lifecycle

`file` is the whole configuration file: what type each entry has, whether a string is empty, which port it
names. The entries are read in `Order`, `logpath` last; one of the wrong type sets `malformed`, and `databaseport` goes to the
server's port (`Target`), as the code does. `VerifyConfig` judges what was read.

`main` is where the main thread is, `thread` where the server thread is, within its loop: at the
test of `running` ("loop"), at that of `paused` ("hold"), in a pass over the slots, or within a request. `db`
is the handle, used by both; `lost` counts handles opened over. `Ends` says how a request may leave the handle: Get Team
Data keeps it when its queries succeed, Remove Team Member when it names the one who asks, a login without a row of
rivals leaves a statement, and every handler but Save keeps a handle that could not be opened. `Exit` ends the server thread,
which is detached. `Stop`, `Pause` and `Unpause` have no caller in this repository besides the thread's own Stop
(`SocketFails`); they are public, so another thread may call them at any time while the server serves.

## 3. The runs

| Run | Bounds | What it shows |
|---|---|---|
| `server_loop_safety` | 2 slots, 3 peers, 1 key, 1 unread packet per peer, no input while a queue holds a message | the safety of the table and of authentication; refinement of `ClientTable` |
| `server_loop_liveness` | 2 slots, 2 peers, heartbeats and bad packets | marked slots are closed, packets are read, peers that left are freed |
| `recv` | buffer 6, sizes 2, 3, 5, 6, 7, 16 and 17, 16 for 2^16, 3 packets per connection | refinement of `PacketFifo`; nothing is dispatched behind a bad size; all that fits is itself handled, also behind a packet of exactly the buffer size |
| `send` | buffer 20, blocks of 4, sizes 10, 14, 17 and 19, two other clients, 21 bytes queued | refinement of `ByteStream`; when the padding loop hangs; what is queued leaves |
| `send_queue_limit` | limits 1 and 2 for 10 and 100, a peer that does not read | finding: no limit is enforced |
| `team_db` | 2 accounts, 1 word in 2 spellings, 2 teams, 1 failing statement per request | names, leaders, dismissed members; refinement of `TeamBook`, stale ids included |
| `player_garage` | 1 player, 2 bays, 2 cars, 2 cars in the garage before a save, 2 in a save | bays, impounded cars, what a clean save leaves, refinement of `Garage` |
| `player_parts` | 1 player in 2 sessions, 1 section, 1 car, 2 rows in the section before a save | what a login is told after saves that tear, sessions that overlap, blocks set and lifted, queries that fail |
| `accounts` | 2 administrators, 1 word in 2 spellings, 1 password, 2 keys, 3 accounts before a creation, SQLite and MySQL | names, reports, the key file |
| `handles` | 2 players, 3 sessions, 2 words in 2 spellings | handles clash only if a check met another's session or its query failed |
| `schema` | 2 processes, all 8 tables, MySQL | whoever starts has its tables; the default account is not reset |
| `lifecycle` | ports 0, 3306, 2^16 and 2^16 + 7946, 2 unusual entries, 2 slots, 2 lost handles, all four ways to call the program | threads, flags, handle and configuration from start to exit |

Why the bounds are enough. The hazards of the table are between two slots and one more peer
than there are slots, the least number that fills the table and then waits, is leaked or
gets a slot that another has left. A peer's packets are read one per turn, so one
unread packet shows every order of a packet with a close or reset. The byte models scale the
buffer down with every constant that is compared with it: each comparison (`<`, `<=`,
off by a header) is taken both ways by the sizes chosen. Three packets allow two of them to share
a `recv` while a third is cut in the middle. Two accounts suffice for a leader and a member, or
two leaders; two teams for a deleted team and a later one; two spellings for a clash. Rows of
different players never meet, so one player shows all a save can do; two bays make a swap, a move
and a move into an occupied bay, and two rows in a table the duplicate of an earlier failure beside what
it duplicates. The sections are saved by the same operator over tables of their own, so one of them
suffices; it is the one with a blocked row. The overlaps of commands are between two processes; three accounts before a
creation leave room for the default, one in another spelling and one more, of whom any two may share a name. Two players
and three sessions let one of them hold an old handle in a second session while it takes, and the other one is offered,
another. One unusual entry of the configuration may hide another, not a
third; the ports are the ones that the width of the variable tells apart. Two handles are lost when one is lost
after another. The proofs remove these bounds for the safety properties.

In `TeamDB.cfg`, `AccountsDB.cfg`, `HandleDB.cfg`, `PlayerDBParts.cfg` and `ServerLoopSafety.cfg` accounts,
administrators, keys, players, sessions and peers - in `HandleDB.cfg` also words and spellings - are interchangeable,
so symmetry is used there; no run that checks liveness uses any. Deadlock
is checked everywhere but in the runs of `SendPath`, where the padding loop may hang the thread for good and the
system really stops, and in `lifecycle`, where the program ends.

Type correctness of every module with a proof module is proved for all constants, as are `Framed` and
`Contiguous`, the invariants behind two of the refinements, so no run repeats them. `DoomedStaysDoomed` and `StaleIdsStayDead`
are parts of `ServesAsTable` and `TeamsAsPromised`, which the runs check in their place; both are
still proved on their own. `HandleDB` (whose types `HandleInv` in `AccountsDBProofs` has) and the abstract modules have no
type invariant of their own.

`MaxInFlight`, `MaxQueue`, `MaxPackets`, `MaxBytes`, `MaxTeams`, `MaxFaults`, `MaxRows`, `MaxGarage`, `MaxCars`, `Sections`,
`MaxAccounts`, `MaxOdd` and `MaxLost` bound the state space and stand for nothing in the code; they appear in
guards of the environment or, as in `HeartBeat` of `SendPath`, keep a step from adding to a queue that is full
enough. `HeartBeat` may be late in the code, too, so leaving it out adds no behaviour. `MaxLost` keeps a
request from starting when two handles are lost and the present one is open; the pass goes on without it.

### 3.1 Fairness

* `WF(Thread)`: the thread never blocks - `select` has a timeout of a microsecond - and
  its loop always goes on.
* `WF(Expire)`: the clock runs.
* `SF(Deliver when the peer has closed)`: a message to a peer that closed is sometime
  accepted by the socket, and answered by a reset. This is what makes a heartbeat notice
  a peer that left.
* `SF(SomeBytes)` (`RecvPath`): bytes that were written arrive, even when the thread often finds the
  socket empty first.
* `SF(SendSome)` (`SendPath`): a peer that reads lets the socket take bytes again and again. The
  run `send_queue_limit` uses `LazyPeerSpec` without it: nothing forces a peer to read.

* `WF(Main)`, `WF(Thread)` (`Lifecycle`): the system schedules both threads. `Stop`, `Pause` and `Unpause` are
  never forced; while the flag is set a paused thread has no step, which fairness allows.

## 4. The proofs

Every theorem is about the specification of its module with its named assumptions (`ConstantsOK`, `HandleConstantsOK`,
`SizesOK`, `PortsOK`, `NoMsgIsNone`), which TLC evaluates in the runs. No theorem assumes anything
else but `TablesThere`, which is about the back end on which a `CREATE` that fails is noticed.

* `ServerLoopProofs`: `TypeCorrect` by one lemma per action; `RegistryIsExact` from
  `TypeOK /\ RegistryExact`, which is inductive: the cardinality of the occupied slots changes by
  one in `AcceptIntoSlot` and `CloseSlot` only. `SocketsStayApart` needs that a socket in a slot, in the backlog
  or leaked belongs to a peer that is not "off", so that `Connect` cannot bring a second one. `RepliesAreOwned`
  and `FreeSlotsAreClean` need that what a slot queues or keeps in `outbuf` belongs to its present socket,
  which only `Initialize` changes. The action properties follow from `TypeOK` by cases. `ServesTheTable` maps each
  action to its step of `ClientTable`, from `SocketsApart` (a peer is in one slot, so the slots' marks and keys are the
  peers'), `FreeSlotClean` (a new client starts without either) and `OneConnectionPerKey`.
* `RecvPathProofs`: `Framed` alone is not inductive; the invariant adds that ends are increasing and
  that no remembered size is larger than what was written. `ReceivesInOrder` maps each step to a step or
  a stutter of `PacketFifo`, for packets of any sizes; a packet that fills the buffer maps to
  `GetLatestAgain`, because until the slot is doomed `inbuf` holds what was dispatched last. `WholePacketsDispatched` needs `InStep`, the link between what is cut off
  and what is dispatched.
* `SendPathProofs`: `SendInv` joins `Contiguous` with what holds of every packet - it is never
  larger than the buffer, and its offset is its size plus the headers it lost. From it follow
  `StallsAreWornOut` and, with `PaddedFits`, that `snddata` never exceeds the buffer. `SendsInOrder`
  maps each step to `Accept`, `Deliver`, `Reset` or a stutter of `ByteStream`. `QueuedBytesMoveUp` is about what `MessageTaken`
  finds while bytes are outstanding.
* `TeamDBProofs`: `TeamInv` adds to `TypeOK` that every id in `account_data` was once given to a
  team (`IdsIssued`); with it only `nextId` can join the table (`RowsJoin`), so stale ids stay dead.
  `NamesStayUnique` is proved together with it; `DismissedStayOut` needs that 0, which `NullAnd` may leave, is no id.
  `TeamsKeepTheirPromise` goes request by request, with `TeamInv` for the ids and the uniqueness of names for the team that
  the SELECT by name finds. A stale id, in a column or written back by `Save`, maps to no team.
* `PlayerDBProofs`: `OneCarPerBay` and `LockedOutForACause` are inductive with `TypeOK` and, for the latter,
  with what the job has done so far. `CleanSavesStick` carries an invariant along the statements: each
  table already passed shows what the job holds. `BlanksForACause` relates sessions to tables: while a player has
  one session, nothing failed and no block brought items to light, where the session holds a
  blank, nothing else is stored (`SessionBlanks`); `RowsInv` says that the tables have no rows before the account is saved. `GarageKept` is the
  refinement, action by action; a save's car, a swap, a move and a removal each map to their operation by lemmas on
  what a bay shows.
* `AccountsDBProofs`: `NamesDistinct` needs that a process about to insert a name that is there overlapped another, or
  had its query fail (`InsertsExcused`), that SQLite's blobs are unique (`RowsUnique`) and that only the first account of
  its table is text (`OwnForms`); `CreatedThere` that only a -createaccount inserts and that its name stays;
  `FileKeyAccepted` is inductive with `TypeOK`. `PasswordsKept`, about a property no run repeats, follows from the actions.
  `HandlesApart`, about `HandleDB`, strengthens the property from the handles that are saved to those that players hold,
  in the table or in any session (`HoldersClashOnlyIfRaced`): what clashes in the table clashed between holders first,
  and only `CheckFree` makes a new one.
* `SchemaProofs`: a process at table n, past its creation, has the tables before n; `made` only grows.
* `LifecycleProofs`: `Owner` says that there is a thread exactly from Start on and that main leaves it only when it
  ended, `Late` what a late Stop leaves, and `Tidy` that without a request that keeps it the connection is
  open within requests only. `ListensWhereItIsTold` carries `ReadSoFar` through the entries: what each entry done
  has left in its variable, and that `malformed` tells whether one of them was of a wrong type. The
  two entries that share a variable are told apart by their places in `Order`.

### 4.1 The safety behind the liveness properties

That something must happen cannot be proved here (fairness and ENABLED are out of the prover's reach), and stays
with TLC. What can be proved for all constants is that each step of the kind that fairness forces brings it closer, by
a measure that no other step takes back:

| Liveness property | Theorem | Measure |
|---|---|---|
| `DoomedIsClosed` | `DoomedIsClosedInAPass` | `StepsTo(s, 3)`, the steps of the thread to the end of the slot's turn; at most `3 * ClientLimit` |
| `PacketsAreRead` | `PacketIsReadInAPass` | `StepsTo(s, 2)`, those to its receive |
| `EveryPacketHandled` | `WholePacketsDispatched` | the bytes of the front packet that are missing; at 0 a visit cuts it off, and dispatches it itself if it fits `inbuf` |
| `QueuedLeaves` | `QueuedBytesMoveUp` | the bytes queued that have not left; while there are any, the next visit has some to send |
| `EndedThreadEndsProgram`, `LateStopEndsProgram` | `EndIsFourStepsAway` | `MainLeft`, the steps of the main thread to the exit; at most four |

`GoneIsFreed` has no such theorem: it goes through the clock, the heartbeat and the network, and what brings it
closer is several fairness conditions in turn.

Only checked by TLC: the liveness properties themselves and the finding. What a recursive definition computes is
not needed anywhere: there is none.

## 5. Findings

`send_queue_limit`: the `else if (size > 100)` behind `if (size > 10)` at `client.cpp:265-272`
is dead, so the peer that line 274 says "was disconnected" is kept, however long its queue.

What else the models contain because the code does it, and where:

* a packet larger than the buffer is not disconnected, as the comment at `server.cpp:799` has it, but stalls its
  connection (`RecvZero`);
* `SET teamid = NULL AND teamarea = 0` stores 0 in a member with a team area, who is then refused a team of its own
  with "already in team" (`NullAnd`, `CreateRefused` of `TeamDB`);
* a client's heartbeat stores milliseconds in a field of seconds (`ClientBeat`);
* Get Team Data keeps its connection on its successful paths, Remove Team Member when it names the one who asks
  (`ClientRequestsPackets.cpp:684`), and a login without rivals leaves a statement that keeps SQLite's connection open
  (`Ends`);
* on SQLite an account may be created under the name of the default account, and a login finds either (`NewForm`);
* items that an administrator unblocks during a session are overwritten by its next save, with blanks if the login was
  told of none (`UnblockItems`);
* a packet of exactly the buffer size is lost, and its handler runs on the packet before it once more (`CopyToInbuf`);
* a configuration without a `logpath` is refused (`ReadLogpath`);
* a save that dies between two statements locks the player out (`LockedOutOnlyByTornSave` says that nothing else does);
* `-createaccount` reports success for an INSERT that was refused; on SQLite `-setpassword` finds none of the names
  that it stored, and on MySQL nothing but its own query keeps a name from being taken twice (`Insert`,
  `SameText`, `Insertable`); `-createkey` cannot insert on MySQL (`KeysWith`);
* `databaseport` is stored in the server's port, and the port of the database stays 3306 (`Target`);
* on SQLite a `CREATE` that fails goes unseen, so `StartedHasTables` is for MySQL and for runs without such a failure;
  a process killed after creating `account_data` leaves it without the default account for good (`Killed`);
* `CloseDB` closes a handle that the last request has already closed, or that was never set.

## 6. Not modelled, and why

* Vendored code: `include/` holds SQLite's amalgamation and the headers of MySQL, OpenSSL and the JSON library, all
  but 4,045 lines of the repository's C and C++; the models take from them only what the code relies on
  (what a failed statement returns, `sqlite3_close` with a statement open).
* The text of packets, logging, the window title: no state the properties depend on. Encryption and compression
  are compiled out (`DISABLE_ENCRYPTION`, `DISABLE_COMPRESSION` in `globals.h`). The logger writes; the thread pool
  is not used.
* A packet type just past the dispatch table (`client.cpp:134`): a jump to an undefined address
  has no successor state.
* The ranking, and the numbers of `account_data` that one UPDATE stores together (money, points, distances):
  copied, compared with nothing. Mail addresses and privileges are stored and not compared.
* `teamcount`, `survivalwin`, `survivallose`: nothing reads `teamcount` (the answers count the
  members), and nothing writes the others.
* A login that fails because a query for the garage failed: the battle server is told nothing, nothing changes.
* The bay of Remove Car is read as 8 bits where a save writes 32; bays are below 256.
* Impounding, blocking and barring are done by other programs on the database: `PlayerDB` lets the first two happen
  between requests only, and takes the third as given.
* A configuration file that is missing (it is written with its defaults and read) or does not parse (it is refused).
* `TeamDB` and `PlayerDB` follow the SQLite back end, the default of `config.json`.

## 7. What is left

* `RecvPath` and `SendPath` composed for one slot, with the handler's answer between them. They share
  only `todc`, the connection and `outbuf`, which each of them has as environment (`Doom`, `Answer`); the
  composition would check these against each other, at the product of two large state spaces.
* The accounts of `AccountsDB` as an abstract specification of their own; its properties say most of it.
* Save and the team requests in one model: the columns they share are those in `TeamDB`.
