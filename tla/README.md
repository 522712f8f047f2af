# ISUCONDITION in TLA+

TLA+ models of the program in `src/` (a Go web application of the ISUCON 11
qualifier with the shared libraries it is deployed with), TLC configurations
that check them on small instances, and TLAPS proofs for every instance.
Source lines below are those of `src/`; `main.go` is `go/main.go`.

## 1. The system

Three hosts run the same binary. nginx hands HTTP requests to the processes on
app1 and app2; app3 runs the database (MariaDB) and a process that serves no
HTTP but is a member of `group`. The processes talk over `rpcgroup`, two groups
on two ports: `group` (all three) and `appgroup` (app1, app2). systemd restarts
a process that ends (`Restart = always`). An external service, JIA, activates
ISUs; an activated ISU posts condition reports to the application.

| component | state | operations | interacts with |
|---|---|---|---|
| registration (`main.go:609-746`) | rows of `isu`, `user`; the open transaction | POST /api/auth, POST /api/isu | JIA (inside the transaction), `InsertIsu` on `appgroup` (after COMMIT) |
| caches (`main.go:363-414`) | `cacheIsu`, `cacheIsuFromUUID` of every process, two `sync.Map`s | `initializeCache`, `InsertIsu`, lookups of five handlers | loaded from `isu`; written by RPC of the other process |
| reset (`main.go:319-361`, `sql/`) | the four tables, the service URL | POST /initialize: script, URL, `InitializeFunction` on `group` | drops tables under running handlers, reloads all caches, starts the profilers |
| rpcgroup (`go/rpcgroup/`) | a channel, a connection and a goroutine per peer; `funcMap` | `Group.Call`, `Client.Call`, `serve`, `Connect`, `Register` | its errors are `log.Fatal`: the death of a process can spread |
| condition log (`main.go:525-607, 1085-1423`) | rows of `isu_condition` | POST and GET /api/condition, GET /api/trend, GET /api/isu | ISUs, paging clients |
| graph (`main.go:921-1083`) | local variables of one request | `generateIsuGraphResponse` | reads `isu_condition` |
| profiler (`tools/logger.go`, `logger.sh`) | two token channels, one goroutine per start, log directories | `GetNextLogID`, `StartLogger` | called by `InitializeFunction` |
| connections (`main.go:239-258` and every handler) | ten connections per process; transactions, metadata locks | `db.Get`, `Beginx`, `Commit`, DROP, LOCK TABLES | all of the above wait here for each other, and for JIA |
| sessions, pages, icons (`main.go:483-525, 748-870, 1425`) | cookies | signout, me, static pages | - |
| logviewer (`logviewer/main.go`) | the table of viewers under a mutex, their processes and ports | `ServeHTTP`, `GetAvailablePort`, `Exec` | a program of its own that shows what the profiler wrote |
| lockmap, deployment scripts | - | - | not linked into the program |

What is hard here: lookups answer from memory that is filled by two writers
without a common lock (a reload and a broadcast); the broadcast comes after the
COMMIT and dies with its process; a reset runs DDL under open transactions and
may meet another reset; a process may receive calls before it has booted; an
RPC error kills the caller; reports arrive late, twice and in batches with a
bad element, and go on while a reset replaces their table; readers send several
statements without a transaction; handlers, transactions, DDL and JIA wait for
each other with ten connections; the profiler hands out two tokens with a race
in every `select`; and a panic leaves a mutex locked. The list with lines is
`hazards` in `PROJECT.json`.

What makes each part correct:

* registration and caches: an uncommitted row is never served; a 201 is
  honoured by every process until a reset; the two maps agree; a row in the
  table was activated;
* reset: afterwards nothing dropped is served but what two known races leave,
  the URL is the one given, and it ends;
* rpcgroup: at most one run per member, return only after all, nobody waits for
  ever, nothing lost or doubled in the queue; a registration's broadcast uses it
  that way;
* condition log: what is stored can be read; batches are all or nothing; pages
  and walks lose nothing; trend and list are consistent with a moment; a reset
  that succeeded has restored the seeds;
* connections: waits never close a circle, JIA stops only who asks it, and
  everything ends when JIA answers;
* graph: every report is counted once and in its hour;
* profiler: one at a time, stopped only for a successor, its directory there;
* logviewer: one viewer per profile, and answers unless a handler panicked.

## 2. Modules

| module | models | checked by | proved in |
|---|---|---|---|
| `IsuRegistry` | registration, caches, reset, process life cycle | `MCIsuRegistry`, 4 runs | `IsuRegistryProofs`, `IsuCacheProofs` |
| `Registry` | what POST /api/isu promises (abstract) | as a property of `IsuRegistry` | `IsuRegistryProofs` |
| `Broadcast` | what `Group.Call` promises (abstract) | as a property of `RpcGroup` and of `IsuRegistry` | `RpcGroupProofs`, `IsuRegistryProofs` |
| `RpcGroup` | `go/rpcgroup` in detail | `MCRpcGroup`, 1 run | `RpcGroupProofs` |
| `RpcReconnect` | what `client.go` promises of a broken connection, with a history variable over `RpcGroup` | `MCRpcReconnect`, 1 run | - |
| `ConditionFormat` | `isValidConditionFormat`, `calculateConditionLevel` | with `ConditionLog` | `ConditionLogProofs` |
| `ConditionLog` | reports, their readers, and a reset under them | `MCConditionLog`, 2 runs | `ConditionLogProofs` |
| `ConnectionPool` | what every handler waits for | `MCConnectionPool`, 1 run | `ConnectionPoolProofs` |
| `IsuGraph` | the day's graph | `MCIsuGraph`, 1 run | `IsuGraphProofs` |
| `Logger` | the profiler | `MCLogger`, 1 run | `LoggerProofs` |
| `LogViewer` | the server for the log directories | `MCLogViewer`, 1 run | `LogViewerProofs` |

`PROJECT.json` maps every definition to its lines. The definitions with a
suffix (`Respond_Early`) are plausible mistakes that stand in for the
definition without it; each shows that a property notices such a mistake.

### IsuRegistry

One request of POST /api/isu is an element of `Reg`, and also the row it makes.
`pc[r]` follows the handler: `PostIsu` (session and user lookup),
`InsertIsuRow` (the unique index waits for an uncommitted row with the same
uuid and answers 409 to a committed one), `ReadServiceURL`, `Activate` (JIA
accepts, refuses, or accepts while its answer is lost), `Commit`, `Respond`;
`Abort` and `CommitUnacknowledged` are its error returns. `ins[r][d]` is the
call of `InsertIsu` on host d: `DeliverInsert`, then one step for each map.

`load[h][l]` is one run of `initializeCache` on host h, for a reset or for
`Boot`: the two assignments, the SELECT, and two stores per row are steps of
their own. The assignment of a `sync.Map` is a data race with a store in
another goroutine: `ClearPair` and `ClearUuid` may leave the old map when a
store is under way. A load that does not find the table is `log.Fatal`
(`SelectFatal`).

`ipc[i]` is a reset, statement by statement as far as the tables are concerned.
The four DROPs and four CREATEs are grouped: dropping the URL's table, dropping
`isu`, and then dropping `user` and creating; no handler that matters can tell
the members of a group apart. (Two resets that overlap are therefore interleaved
by groups, not by every single statement.) DDL waits for transactions that use the table; a failing statement ends the
script and the reset answers 500. `InitializeFunction` is queued on every
member of `group`; a member that is listening but not yet registered, or has no
database yet, panics (`InitPanics`).

Three variables are histories that no guard reads: `committed`, `quiet` (no
reset overlapped anything) and `raced`. `raced[h]` has the rows that a race of
the code may leave in the maps of h after a reset dropped them: a row that was
on its way into h when it was dropped (`Unstored`: an `InsertIsu` not ended, a
load that has selected), and the rows of a map that a store put back when
`initializeCache` assigned a fresh one (`PutBack`). The code does have these
races. `InitializeEvicts` confines the stale rows to them, whatever else
overlaps the resets; it does not say that there are none.

`HostDiesIn` is the death of a process, wherever it comes from: its maps, its
requests and its connections go; MySQL rolls back; calls it executed fail at
their callers; calls it had sent go on. `conn` is the one connection of every
rpc client; calls on a connection that broke end the caller (`RpcFatal`).
`Advance` boots a process in the order of the program.

`StartLogger`, which `InitializeFunction` calls last, is not here: `Logger`
shows that it returns (`StartReturns`), and it touches nothing else. Reports are
not here either: their handlers use the maps only to admit (`ConditionAdmitted`);
`ConditionLog` takes this up.

### Registry

What all this is for, seen from the table: a registration is open, made, and
answered; it is made at one moment, for an ISU that JIA has accepted and that
has no row; a request that was refused, or whose process died, makes none later.
`Die` takes any open requests with it, `Drop` and `Reload` are what a reset does.
`RegistrationIsAtomic` maps `IsuRegistry` to it (`RequestState`): the statements
before the COMMIT are one open request, `Commit` is `Register`, and a COMMIT whose
answer is lost is a `Register` that is answered as a refusal. `Registry` says
nothing of the caches and of URLs, which have properties of their own.

### Broadcast and RpcGroup

`Broadcast` has three variables: the state of a call, where its function has
started, where it has ended. `RpcGroup` has the channels with their capacity,
the goroutine that takes a request, connects and sends, the life of each leg of
a call, and deaths and restarts. It implements `Broadcast` under the mapping
written in the module: `started` are the members whose leg has run, `finished`
those that are done. The function itself is one step that may be cut short.
`IsuRegistry` uses the same protocol with unbounded channels and no queueing
between requests, since `RpcGroup` shows that the queue neither loses nor
doubles one. That it is the same protocol is checked, not assumed:
`InsertIsuIsBroadcast` instantiates `Broadcast` a second time, with the requests
as calls and the application processes as hosts, and every behaviour of
`IsuRegistry` is one of it. So `Broadcast` is the interface of the two: one
implements it with channels and connections, the other relies on no more.

`RpcReconnect` adds the history `late` to `RpcGroup`: the requests that `serve`
took from its channel when the connection was broken already and the member had
been restarted, while no call of the process had failed. A member that dies
again before such a request is sent takes it out. `Reconnects` says that none of
them is refused; a client that dialled again when it finds its connection broken
would satisfy it.

### ConditionFormat and ConditionLog

A condition string is a sequence of the pieces the code compares (`is_dirty=`,
`true`, `,`, other text), so that its end can fall anywhere between them.
`isValidConditionFormat` is the loop over three keys; `OutOfRange` is the string
that ends where the comma is indexed: a panic of the handler, not of the
process (net/http recovers it). `PostIsuCondition` gives one of the handler's
answers or loses it, and the batch may be sent again. A `Walk` is a client that
takes pages until one is short; it is external. `getTrend` is one step per
statement; `getIsuList` reads from the snapshot of its first statement
(REPEATABLE READ).

`script` is a reset as these handlers see it: it drops `isu_condition`, then
`isu`, creates, loads the seeds of each, and reloads the cache (`known`, of one
process). DROP and LOCK TABLES WRITE wait for lists whose transaction has used
the table; nothing else here keeps a table. Reports and registrations go on in
between, as far as a table and the cache let them, so a row may take the key of
a seed, and then the script ends (`failed`). A reader whose table is gone answers
500. ORDER BY `timestamp` leaves rows of the same second in any order, so a
query returns any of several sets. Results are sets: the order inside a page is
the timestamps' own.

Nothing is assumed of the times of reports: `postIsuCondition` accepts any
(`main.go:1352-1382`) and the index at `sql/0_Schema.sql:29` is not unique. A
page that ends in the middle of a second makes the next one, which ends before
that second, skip the rest of it. `WalkIsComplete` therefore lets a client lose a
report only if a full page ended in its second (`ends`) and the client has
another report of that ISU and second (`Straddles`); in `reports`, p1 and p2 have
two such reports. Taken from outside: admission is membership of `isu`, which
`IsuRegistry` justifies for idle processes (`ReadYourWrites`).

### ConnectionPool

A handler is the sequence of its operations on the database (`Program`): a
statement on `db`, the begin and end of a transaction, a statement of the
transaction, a question to JIA, a step of the script. `conn` says which
connections a task holds and `locks` which metadata locks; `CanGo` is what the
next operation waits for: a free connection, a DROP that is pending, the
transactions that use the table, the uncommitted row of the same uuid, or the
calls of `InitializeFunction`. `ReturnEarly` is every error return with its
deferred `Rollback`. What the statements read and write is in the other modules;
here only the uuids of committed rows count, since an INSERT waits for them.
Loops over characters and ISUs are cut to one. Resets do not overlap here.

### IsuGraph

The three loops of `generateIsuGraphResponse` on one sorted sequence of rows.
The query compares a DATETIME with a number of seconds, so rows from before the
day are in `Init` too. `calculateGraphDataPoint` is an operator with the code's
integer divisions.

### Logger

One process and its host. A start takes the token or puts a stop token,
whichever `select` picks, clears the stop channel, starts, and leaves a
goroutine that waits for a stop token or 60 seconds, runs `logger.sh term` or
`stop`, and gives the token back. `GetNextLogID` runs on the host that serves
the reset, so a start may bring any id of another host (`OtherIds`). `Crash` is
the end of the process: its goroutines and tokens go, the directories stay, a
call that was waiting is lost, and the new process begins with one start token.

### LogViewer

A request for a profile looks it up in `path2port` under `mutex`; the first one
keeps the mutex over `GetAvailablePort` (`Listen`, `Close`), `Exec` and the entry
of the port. `Panic` ends a handler between, with the mutex locked: net/http
recovers it and nothing unlocks. A viewer binds its port (`Bind`) when nothing
else has it, and may end at any time. `Exit` is `log.Fatal`: everything goes, and
systemd starts the program with an empty table.

## 3. Runs

| run | instance | distinct states | shows |
|---|---|---|---|
| `reset` | 2 hosts, 1 reset, 1 registration, no fault | 36 k | both end; a committed row reaches both processes; the URL is right |
| `crash_in_reset` | the same with 1 fault, hosts symmetric | 500 k | no dirty row is cached, a 201 is honoured, the maps agree, the reset evicts all but what two races leave, the broadcast is a call of `Broadcast`, through any death |
| `retry` | 1 host, 2 resets, 1 ISU registered twice | 927 k | what is cached was committed, against overlapping resets and a retry; implements `Registry`; URL after both resets |
| `lost_broadcast` | 2 hosts, 1 registration, 1 fault | violation | a committed row may never reach the other process |
| `rpc_calls` | 2 processes calling each other, 3 calls, capacity 1, 1 crash | 236 k | implements `Broadcast`; the queue is exact; every call ends |
| `rpc_reconnect` | 2 calls to a peer that crashes and restarts | violation | a request taken after the restart goes to the broken connection: the client does not reconnect |
| `reports` | 2 ISUs, 5 batches (2 bad, 2 with a second in common), 3 writes, 1 reader, page of 2 | 107 k | storage, batches, pages, walks, trend and list, also while a reset replaces the tables |
| `unknown_level` | a query with an unknown third level | violation | LIMIT before the filter |
| `pool` | 2 processes, 2 connections each, 2 registrations of a uuid, a list, a page, a reset | 86 k | no deadlock; JIA stops only who asks it; everything ends |
| `graph` | all sorted sequences of up to 3 reports, day of 3 hours of 2 s | 83 k | hours and rounding |
| `logger` | 3 starts, ids that repeat, 1 crash | 49 k | tokens and directories; every start returns |
| `viewer` | 3 requests for 2 profiles, 1 for a file, 2 ports, 1 exit | 25 k | one viewer per profile; who may wait for ever |

Why the bounds are enough. `reset`: the races are between one load, one reset
and one insertion; two hosts make the broadcast and the two loads distinct.
`Seed = {}` there makes fixed-key collisions of the seeds impossible; they
happen in the model when a seed exists, and a seed adds a second row to every
load. `retry` gives up the second host to have two resets and two registrations
at once. One fault suffices for the properties that name a fault, because a
death leads to more deaths by itself (`RpcFatal`, `SelectFatal`, `InitPanics`).
The theorems of section 4 cover the larger instances of what `retry` leaves out.
`rpc_calls` has a channel of one, so that the third call finds it full. A page
of 2 with four and more reports gives walks of several pages, full and short.
`MaxWriters = 3` lets any three of seven writes (a batch, the batch again, a
registration, a reset) fall between the steps of a reader: a report is repeated
late, or one is stored, dropped and followed by another in the new table. (The proofs
have any number.) `MaxReaders = 1`, of any kind:
readers change nothing but their own record, except that a DROP waits for lists,
and one list is enough to make it wait. Two connections in `pool` are the least
that both registrations can hold while the others wait; the proofs have any
number. One crash in `logger` and one exit in `viewer` can come at every step,
and a second one finds a state the first could have found.
Three reports can be two in an hour and one in another, before, at and after
either end of the day. Three starts are one that runs, one that waits and one that comes late.

Symmetry is used in one run without liveness (`crash_in_reset`), over hosts.

Deadlock is not checked where the requests of an instance are finite and the
system rests when all are answered. `IsuRegistry` has sign-ins, which are always
possible while `user` exists, so its runs check for deadlock, except `retry`:
there two scripts that run over each other may both stop half way, without the
table, and the process rests when the requests are answered with errors.

Fairness. `IsuRegistry`: a goroutine that can go on does, the database and JIA
answer, systemd restarts. Of JIA this is an assumption: `http.DefaultClient` has
no timeout, and a JIA that never answers holds the row, the metadata lock and
one of ten connections (`main.go:257`, `695`). Of systemd too: its start limit
could give up on a process that dies at every boot. No fairness on requests,
crashes, error returns (`Abort`) or sign-ins. `RpcGroup`: weak fairness per
process; a process always has the choice of its goroutines, and none is starved
in a finite instance. `ConnectionPool`: weak fairness for every process and the
mysql client, none for JIA, whose answers are the premise of `RequestsEnd`; that
one process goes on is enough, since its finite handlers cannot go on for ever
while another waits. `LogViewer`: every handler that can go on does; viewers,
requests and ends of the process come as they like. `Logger`: weak fairness for
the call and the goroutine of each start; which ready case `select` takes is
left open.

Findings (the three violations): the broadcast is not resumed after a death
(`README.md:142-144` of the repository describes every change as broadcast);
`RetryCount`'s comment (`client.go:14`) promises reconnection and `Connect` dials
only while there is no connection: in the trace a first call is served, the peer
dies and is listening again, and the next request, taken only then, is refused;
`main.go:1168` takes any three strings for the three levels.

## 4. Proofs

All theorems hold for every value of the constants that satisfies the named
assumptions (`RegistryAssumption`, `RpcAssumption`, `ConditionAssumption`,
`PoolAssumption`, `GraphAssumption`, `LoggerAssumption`, `ViewerAssumption`).

* `IsuRegistryProofs`. `TypeCorrect` (TypeOK is inductive).
  `RegisteredRowsAreActivated`: `ActivationInv` adds that the seeds are
  activated, and the ISU of every request that JIA accepted is.
  `RegistrationImplementsRegistry`: the mapping needs, at the COMMIT, that JIA has
  accepted the ISU (`ActivationInv`) and that it has no row. No guard of `Commit`
  says the second; the unique index was asked at the INSERT, several statements
  earlier. `TxInv` carries it over: no two open transactions are for one ISU, and
  no row is for the ISU of an open one (COMMITs of others cannot add it, since
  they are for other ISUs; the seeds of a reset wait for open transactions).
  `OneRowPerIsu` is the third part of `TxInv`.
  `OnlyCommittedRowsAreCached`: CacheCommitted alone is not inductive, since a row comes out of a load or an insertion; `CommitInv`
  adds that every row held by a running load, queued for insertion, or in `isu`
  is in `committed`. `CallInv`, `RunInv` and `FreshInv` are lemmas for the next
  module: no call is under way before the statement that makes it, and a 201 is
  answered when all are over; the row a load is storing is a row; the row of a
  request that has not committed was never committed.
  `ActivationsGoToConfiguredURL`: `QuietInv` says that as long as no reset
  overlapped anything, the reset that runs is the only one and nothing else is in
  flight; `UrlInv` follows `jia_service_url`: a reset that has set it leaves it
  set unless another one has begun and not ended well, and while all is quiet a
  row is activated at the URL of its time, which changes only once the table of
  the rows is empty.
  `InsertIsuImplementsBroadcast`: under the mapping a committed registration is
  an open call, so a step of the broadcast before the COMMIT would be no step of
  `Broadcast`: `CallInv` excludes it. A death has to end exactly the calls that
  were open: `AckInv` says that an acknowledged COMMIT took effect, `FreshInv`
  that no other request of the process has one. All steps of resets and loads
  leave the mapped variables alone (`SameView`).
* `IsuCacheProofs`. `RegisteredIsuIsFound` (read your writes) and `MapsAgree`.
  The invariant `LoadInv` says, for each of the maps and a row of the table that
  `InsertIsu` has stored in it: either the map still has it, or some load of the
  process is still to select, or has it among the rows it has yet to store; and
  that a row found in the first map is, or will be, in the second. It survives an
  assignment of a fresh map, because the load that assigned has yet to select;
  it survives the drop of the table, because it speaks of rows of the table.
  `ResetEvictsCaches`: a process may know (`Known`) the rows of the table and
  those in `raced`. `EvictInv` says that each map holds known rows only, unless a
  reset has dropped the table and has not cleared this map yet, or has failed
  (`PairStale`, `UuidStale`); and that the rows on their way into the maps, with a
  load or with an `InsertIsu`, are known. A DROP makes rows unknown, but it is
  then itself a reset that has not cleared; clearing ends that, and by `PutBack`
  also when the old map stays; a store adds what was known, since `DropIsu`
  records what is on its way. The proof needs no hypothesis on what overlaps.
* `RpcGroupProofs`. `TypeCorrect`, and `CallIsBroadcast`: every step of
  `RpcGroup` is a step of `Broadcast` or a stutter. The invariant that makes the
  mapping work ties the state of a call to its legs: legs exist only for calls
  that were begun, and a returned call has all its legs done.
  `RequestsAreQueuedOnce`: `QueueInv` adds to `QueuedOnce` that a client holds
  only calls of its own process, each in one place of its channel or in the hand
  of its goroutine, and exactly those that wait; Enqueue appends, Take removes
  the first, and a death empties the channels of its process.
* `ConditionLogProofs`. `AcceptedIsRendered`: `isValidConditionFormat` accepts
  exactly the renderings of a condition, for sequences of any length; with it
  `StoredNeverFails`: no batch stores a string without a level. `BatchIsAtomic`:
  if one report of a batch that is no seed is in the table, all are, and the
  batch has no bad one (`BatchInv`). `ListIsOneState`: a running list has
  answered, for each ISU it no longer has before it, from its snapshot
  (`ListInv`). `ResetLoadsSeeds`: what a step of the script achieved stays until
  the next reset (`ScriptInv`). `TrendMissesNothing`: until a reset, every ISU
  that had reports when the trend began is in a character still to come, in the
  current one, or answered once by a row at least as late (`TrendInv`). A query
  answers with a latest row only if the rows are finitely many, so `TableInv`
  says that they are; and it says that no trend which saw the drop is counted.
  `TypeCorrect`: the readers too (`TypeInv`). `PagesAreNewest`: the loop of
  `getIsuConditions` over rows in descending order, which stops when a page is
  full, yields the newest matching rows of any finite table (`PageOf`,
  `OnePage`). `WalksAreComplete`: `WalkInv` says that a client has a copy of
  every matching report stored at its start that is not earlier than the end of
  its next page, unless the report straddles: a full page ended in its second, and
  the client has another report of that ISU and second. The end is exclusive, so
  what a page cuts off in its last second is lost, and it is either a repetition
  of a row on the page or straddles. `WalksMissNothing` has the promise without
  that case, under the hypothesis `OneReportPerSecond` (no ISU has two different
  reports of one second, however often it sends one, nor do the seeds), which the
  code does not enforce; `Reported` adds that every row is a seed or a report of a
  batch, so that under the hypothesis nothing straddles.
  The three theorems have the hypothesis `KnownLevels`: no query names a level that
  does not exist. Without it they are false, and the run `unknown_level` shows
  it; getIsuConditions does not check it.
* `IsuGraphProofs`. `PointsPartition`, `HundredPercentIsAll`,
  `GraphHourByHour`. `ReadInv` gives the first loop its cuts: there is an
  increasing `f` such that the data point `i` has the reports `f[i-1]+1 .. f[i]`,
  all of one full hour, and the current hour has those after the last cut. So
  the points, flattened, are the reports read (`FlattenPieces`), and the reports
  of a point are all those of its hour (`PointHasHour`). `EmitInv` says of the
  third loop that the data points before `index` start before `thisTime` and the
  others do not; hence, when `index` is at another hour, no data point is for
  `thisTime` and the hour has no reports (`EmptyHour`). The slice of the second
  loop may hold data points after the day, and `EmitInv` allows them; it needs
  that all points of the day and none before it are there (`FilterSelects`). The
  percentages: `k * 100 \div n = 100` only if `k = n` (`PercentOf`), and the
  score likewise (`ScoreOf`).
* `ConnectionPoolProofs`. `TypeCorrect`, `NeverDeadlocks`, `JIAIsolated`.
  `HoldInv`: what a task holds follows from the operation it is at, so no
  transaction waits for a connection. `ResetInv`: one reset runs, and has made
  the calls it waits for. If nothing could go on: whoever holds a metadata
  lock then holds the one of `isu` only and wants another table next, so only a
  DROP of `isu` can be pending, and it does not block that task; hence nobody
  holds a lock, no statement is blocked, no row is open, nobody holds a
  connection, and who waits for one gets it. `JIAIsolated` from `HoldInv` alone: a
  connection that no registration holds is held by a task that can go on.
* `LoggerProofs`. `ProfilesOneAtATime`, `StoppedOnlyForAnother`,
  `StopAlwaysFindsDirectory`, from one invariant: the start token is a lock
  (`Alone`), a stop token a run can receive was put by a call that still waits
  (`Wanted`), and only the run itself removes its directory (`Kept`).
  `TypeCorrect`: the directories are finitely many, so there is a greatest, and
  the next id is a number and new (`NextIdIsNew`).
* `LogViewerProofs`. `TypeCorrect` and `ViewersAreUnique`: whoever is between the
  look-up and the entry has the mutex, and its profile is not in the table
  (`Held`); a handler that panicked keeps the mutex, so nobody follows it.

Where an argument goes by induction over numbers (a greatest element of a finite
set, an order of neighbours, the recursive function of `FlattenSeq`), the proof
takes a least counterexample instead (`LeastNat`, from the well-foundedness of
the numbers): the induction theorems of the library cannot be instantiated.

Only model-checked: liveness (`RegistrationEnds`, `InitializeEnds`,
`CommittedReachesCaches`, `CallEnds`, `StartReturns` and both `RequestsEnd`),
which the prover cannot do under fairness. Every invariant and every action
property of a passing run is a theorem.

## 5. Not modelled

* Cookies, JWT, icons and pages: the handlers are in `ConnectionPool` as users of
  the database, and share nothing else.
* Errors of single queries are not told apart; each ends its request.
* Overlapping resets outside `IsuRegistry`; the connection pool in the other
  modules, whose statements always find a connection.
* Loss of committed transactions by a crash of the database host.
* gob, reflection and results in rpcgroup; `GroupWithoutListen`, which nothing
  uses. `library/rpcgroup` is the same code byte for byte.
* In `LogViewer`: what the proxy does to HTML, and an unrelated program that takes
  a port. A viewer that finds its port taken ends in the model, as in the code,
  and its profile is answered with 502 from then on; no property excludes it,
  since nothing in the code does.
* lockmap: three operations, each one critical section, that nothing imports.
  What they guarantee depends on an `Element` that only a client would define.
* deployment and server configuration: no state of the program (see
  `components`).

## 6. Plan

Done: `IsuRegistry` with its runs and proofs; `Broadcast`, `RpcGroup` and the
refinement; `ConditionFormat` and `ConditionLog`, later with the reset; `IsuGraph`;
`Logger`, later with crashes; `ConnectionPool`; `LogViewer`; the composition of
`IsuRegistry` with `Broadcast`; the abstract `Registry` that it implements; the
proofs of section 4. What is left, in order:

1. The lookups of `IsuRegistry` in `Registry`: an idle process answers from the
   rows that were registered and broadcast, a loading one from fewer.
2. Liveness of `IsuRegistry` with deaths: which requests still end.
