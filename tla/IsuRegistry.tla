------------------------------ MODULE IsuRegistry ------------------------------
(***************************************************************************)
(* Registration of ISUs and the per-process caches of registered ISUs      *)
(* (go/main.go).  Two application processes behind nginx share a database; *)
(* each keeps `cacheIsu` and `cacheIsuFromUUID` in memory and answers      *)
(* lookups from them alone.  The caches are filled in two ways that run    *)
(* concurrently: a process (re)loads them from the table in                *)
(* initializeCache, when it boots and on POST /initialize; and POST        *)
(* /api/isu pushes its new row to every process with the RPC InsertIsu     *)
(* after its transaction has committed.  Processes die and are restarted   *)
(* by systemd at any step.                                                 *)
(***************************************************************************)
EXTENDS Naturals, FiniteSets

CONSTANTS
  Group,      (* hosts of `group`: all of them run initializeCache          *)
  AppGroup,   (* hosts of `appgroup`, which are also nginx's backends       *)
  Uuid, User,
  Reg,        (* POST /api/isu requests; a request is also the row it makes *)
  Seed,       (* rows of `isu` loaded by 1_InitData.sql                     *)
  SeedUser,   (* rows of `user` loaded by 1_InitData.sql                    *)
  UuidOf,     (* jia_isu_uuid of a row                                      *)
  OwnerOf,    (* jia_user_id of a row: the session that sent the request    *)
  InitReq,    (* POST /initialize requests; a request is also its URL       *)
  Boot,       (* the initializeCache call in main()                         *)
  None,       (* absent value                                               *)
  MaxFaults   (* bound: process crashes and commits whose answer is lost    *)

Row    == Reg \cup Seed
Loader == InitReq \cup {Boot}
Port   == {"group", "appgroup"}      (* 12345 and 12340: separate clients *)

ASSUME RegistryAssumption ==
  /\ AppGroup \subseteq Group /\ None \notin Group
  /\ None \notin Row /\ Reg \cap Seed = {}
  /\ Boot \notin InitReq /\ None \notin InitReq
  /\ UuidOf \in [Row -> Uuid] /\ OwnerOf \in [Row -> User]
  /\ SeedUser \subseteq User
  /\ \A x, y \in Seed : UuidOf[x] = UuidOf[y] => x = y
  /\ MaxFaults \in Nat

VARIABLES
  (* MySQL on app3 *)
  tables,            (* which of the tables exist                           *)
  isu,               (* committed rows of `isu`                             *)
  user,              (* rows of `user`                                      *)
  config,            (* `url` of "jia_service_url", None when absent        *)
  activated,         (* ISUs the JIA service has accepted (external)        *)
  (* application processes *)
  proc,              (* how far main() of the host has got                  *)
  cacheIsu,          (* per host: row by (uuid, user)                       *)
  cacheIsuFromUUID,  (* per host: row by uuid                               *)
  load,              (* per host and caller: a run of initializeCache       *)
  conn,              (* rpc_client of every rpcgroup.Client                 *)
  (* requests *)
  pc, host, target,  (* POST /api/isu: progress, serving host, JIA's URL    *)
  ins,               (* the InsertIsu call of a request on each host        *)
  ipc, ihost,        (* POST /initialize                                    *)
  (* history and bounds *)
  committed,         (* rows that were ever committed                       *)
  quiet,             (* no initialize overlapped other work so far          *)
  raced,             (* per host: rows that a race may leave in its maps    *)
                     (* although a reset dropped them                       *)
  faults

db     == <<tables, isu, user, config>>
caches == <<cacheIsu, cacheIsuFromUUID>>
reqs   == <<pc, host, target, ins>>
inits  == <<ipc, ihost>>
vars   == <<db, activated, proc, caches, load, conn, reqs, inits,
            committed, quiet, raced, faults>>

-----------------------------------------------------------------------------
Key(x)  == <<UuidOf[x], OwnerOf[x]>>
NoPairs == [k \in Uuid \X User |-> None]
NoUuids == [u \in Uuid |-> None]
Idle    == [stage |-> "idle", rows |-> {}, cur |-> None]

(* A request holds an open transaction, with its uncommitted row, between  *)
(* its INSERT and its COMMIT.                                               *)
OpenTx    == {"inserted", "asking", "accepted"}
InFlight  == OpenTx \cup {"authed", "committed"}
Script    == {"dropConfig", "dropIsu", "create", "loadIsu", "loadUser"}
InitPhase == Script \cup {"setConfig", "notify"}
Loading   == {"clearPair", "clearUuid", "select", "fill", "fillUuid"}

InitRunning == \E i \in InitReq : ipc[i] \in InitPhase
RegRunning  == \E r \in Reg : \/ pc[r] \in InFlight
                              \/ \E d \in Group : ins[r][d] \in {"pair", "uuid"}
Booting     == \E h \in Group : proc[h] # "serving"

(* Every process is up and has loaded the tables that 1_InitData.sql left. *)
Init ==
  /\ tables = {"config", "isu", "user"}
  /\ isu = Seed /\ user = SeedUser /\ config = None
  /\ activated = {UuidOf[x] : x \in Seed}
  /\ proc = [h \in Group |-> "serving"]
  /\ cacheIsu = [h \in Group |-> [k \in Uuid \X User |->
       IF \E x \in Seed : Key(x) = k THEN CHOOSE x \in Seed : Key(x) = k ELSE None]]
  /\ cacheIsuFromUUID = [h \in Group |-> [u \in Uuid |->
       IF \E x \in Seed : UuidOf[x] = u THEN CHOOSE x \in Seed : UuidOf[x] = u ELSE None]]
  /\ load = [h \in Group |-> [l \in Loader |-> Idle]]
  /\ conn = [p \in Port |-> [s \in Group |-> [d \in Group |-> "none"]]]
  /\ pc = [r \in Reg |-> "new"] /\ host = [r \in Reg |-> None]
  /\ target = [r \in Reg |-> None]
  /\ ins = [r \in Reg |-> [d \in Group |-> "none"]]
  /\ ipc = [i \in InitReq |-> "new"] /\ ihost = [i \in InitReq |-> None]
  /\ committed = Seed /\ quiet = TRUE /\ faults = 0
  /\ raced = [h \in Group |-> {}]

-----------------------------------------------------------------------------
At(h, l, stage) == load[h][l].stage = stage

PcStep(r, from, to) == /\ pc[r] = from
                       /\ pc' = [pc EXCEPT ![r] = to]
                       /\ UNCHANGED <<tables, user, config, proc, caches, load, conn,
                                      host, inits, quiet, raced>>

InitStep(i, from, to) == /\ ipc[i] = from
                         /\ ipc' = [ipc EXCEPT ![i] = to]
                         /\ UNCHANGED <<activated, proc, caches, conn, reqs, ihost,
                                        quiet, faults>>

Connected(p, s, d) == IF d = s THEN conn ELSE [conn EXCEPT ![p][s][d] = "open"]

-----------------------------------------------------------------------------
(* Plausible mistakes in the code, each to stand in for the definition of  *)
(* the same name without its suffix: TLC must then find a property broken. *)

(* the zero value of the URL is used when the table cannot be read         *)
getJIAServiceURL_Zero == IF "config" \in tables THEN config ELSE Boot
(* the default URL is used although the table has one                      *)
getJIAServiceURL_Default == None
(* the call to the own host goes through a client that is not there        *)
CanReach_OthersOnly(p, s, d) == d # s /\ conn[p][s][d] # "broken" /\ proc[d] # "down"
(* initializeCache adds to the old map                                     *)
ClearPair_Kept(h, l) ==
  /\ At(h, l, "clearPair") /\ load' = [load EXCEPT ![h][l].stage = "clearUuid"]
  /\ UNCHANGED <<db, activated, proc, caches, conn, reqs, inits, committed, quiet, raced, faults>>
(* READ UNCOMMITTED                                                        *)
SelectIsu_Dirty(h, l) ==
  /\ At(h, l, "select") /\ "isu" \in tables
  /\ load' = [load EXCEPT ![h][l] = [stage |-> "fill", cur |-> None,
                                     rows |-> isu \cup {r \in Reg : pc[r] \in OpenTx}]]
  /\ UNCHANGED <<db, activated, proc, caches, conn, reqs, inits, committed, quiet, raced, faults>>
(* a registered ISU is looked for with a SELECT, not with a unique index   *)
InsertIsuRow_Checked(r) ==
  /\ PcStep(r, "authed",
            IF "isu" \in tables /\ \A x \in isu : UuidOf[x] # UuidOf[r]
            THEN "inserted" ELSE "refused")
  /\ UNCHANGED <<target, isu, activated, ins, committed, faults>>
(* 201 is answered without waiting for the broadcast                       *)
Respond_Early(r) ==
  PcStep(r, "committed", "created") /\ UNCHANGED <<activated, target, isu, ins, committed, faults>>
(* InsertIsu forgets the second map                                        *)
StoreUuid_Forgotten(r, d) ==
  /\ ins[r][d] = "uuid" /\ ins' = [ins EXCEPT ![r][d] = "done"]
  /\ UNCHANGED <<db, activated, proc, caches, load, conn, pc, host, target, inits,
                 committed, quiet, raced, faults>>

-----------------------------------------------------------------------------
(* Group.call reaches its own host directly and the others through a       *)
(* Client, which dials once, retries while the connection is refused, and  *)
(* never dials again.                                                      *)
CanReach(p, s, d) == \/ d = s
                     \/ conn[p][s][d] # "broken" /\ proc[d] # "down"

(* Death of the process on host h: a crash, a panic in an RPC handler or   *)
(* log.Fatal.  Its memory goes; MySQL rolls its transactions back; calls   *)
(* it was executing fail at their callers and calls it had not sent are    *)
(* gone, but calls it had sent keep running at the peer.  ld and cn are    *)
(* `load` and `conn` at the moment of death.                               *)
HostDiesIn(h, ld, cn) ==
  /\ proc' = [proc EXCEPT ![h] = "down"]
  /\ cacheIsu' = [cacheIsu EXCEPT ![h] = NoPairs]
  /\ cacheIsuFromUUID' = [cacheIsuFromUUID EXCEPT ![h] = NoUuids]
  /\ pc' = [r \in Reg |-> IF host[r] = h /\ pc[r] \in InFlight THEN "lost" ELSE pc[r]]
  /\ ins' = [r \in Reg |-> [d \in Group |->
       IF d = h /\ ins[r][d] \in {"pair", "uuid"} THEN "failed"
       ELSE IF host[r] = h /\ ins[r][d] = "queued" THEN "none" ELSE ins[r][d]]]
  /\ ipc' = [i \in InitReq |-> IF ihost[i] = h /\ ipc[i] \in InitPhase THEN "lost" ELSE ipc[i]]
  /\ load' = [d \in Group |-> [l \in Loader |->
       IF d = h /\ ld[d][l].stage \in Loading
         THEN IF l = Boot THEN Idle ELSE [Idle EXCEPT !.stage = "failed"]
       ELSE IF l # Boot /\ ld[d][l].stage = "queued" /\ ihost[l] = h THEN Idle
       ELSE ld[d][l]]]
  /\ conn' = [p \in Port |-> [s \in Group |-> [d \in Group |->
       IF s = h THEN "none"
       ELSE IF d = h /\ cn[p][s][d] = "open" THEN "broken" ELSE cn[p][s][d]]]]
  /\ quiet' = (quiet /\ ~InitRunning)
  /\ UNCHANGED <<db, activated, host, target, ihost, committed, raced>>

HostDies(h) == HostDiesIn(h, load, conn)

Crash(h) ==
  /\ faults < MaxFaults /\ proc[h] # "down"
  /\ faults' = faults + 1
  /\ HostDies(h)

(* systemd restarts the process.  Package variables are initialised first: *)
(* rpcgroup.New listens before Register fills funcMap and before init()    *)
(* registers Isu with gob; main() then connects the database, loads the    *)
(* caches and only then serves HTTP.                                       *)
Advance(h, from, to) == /\ proc[h] = from
                        /\ proc' = [proc EXCEPT ![h] = to]
                        /\ UNCHANGED <<db, activated, caches, conn, reqs, inits,
                                       committed, quiet, raced, faults>>

Listen(h)   == Advance(h, "down", "listening") /\ UNCHANGED load
Register(h) == Advance(h, "listening", "registered") /\ UNCHANGED load
Main(h)     == /\ Advance(h, "registered", "loading")
               /\ load' = [load EXCEPT ![h][Boot].stage = "clearPair"]
Serve(h)    == /\ load[h][Boot].stage = "done"
               /\ Advance(h, "loading", "serving")
               /\ load' = [load EXCEPT ![h][Boot] = Idle]

-----------------------------------------------------------------------------
(* History: a map that stays where a fresh one was to replace it keeps     *)
(* dropped rows.                                                           *)
PutBack(h, old) == raced' = [raced EXCEPT ![h] = @ \cup (old \ (isu \cup {None}))]

(* initializeCache.  The assignment of a fresh sync.Map races with stores  *)
(* by other goroutines: a store under way can put the old map back.        *)
ClearPair(h, l) ==
  /\ At(h, l, "clearPair")
  /\ \/ cacheIsu' = [cacheIsu EXCEPT ![h] = NoPairs] /\ UNCHANGED raced
     \/ /\ \/ \E r \in Reg : ins[r][h] = "pair"
           \/ \E m \in Loader : At(h, m, "fill")
        /\ UNCHANGED cacheIsu /\ PutBack(h, {cacheIsu[h][k] : k \in Uuid \X User})
  /\ load' = [load EXCEPT ![h][l].stage = "clearUuid"]
  /\ UNCHANGED <<db, activated, proc, cacheIsuFromUUID, conn, reqs, inits,
                 committed, quiet, faults>>

ClearUuid(h, l) ==
  /\ At(h, l, "clearUuid")
  /\ \/ cacheIsuFromUUID' = [cacheIsuFromUUID EXCEPT ![h] = NoUuids] /\ UNCHANGED raced
     \/ /\ \/ \E r \in Reg : ins[r][h] = "uuid"
           \/ \E m \in Loader : At(h, m, "fillUuid")
        /\ UNCHANGED cacheIsuFromUUID /\ PutBack(h, {cacheIsuFromUUID[h][u] : u \in Uuid})
  /\ load' = [load EXCEPT ![h][l].stage = "select"]
  /\ UNCHANGED <<db, activated, proc, cacheIsu, conn, reqs, inits,
                 committed, quiet, faults>>

SelectIsu(h, l) ==
  /\ At(h, l, "select") /\ "isu" \in tables
  /\ load' = [load EXCEPT ![h][l] = [stage |-> "fill", rows |-> isu, cur |-> None]]
  /\ UNCHANGED <<db, activated, proc, caches, conn, reqs, inits,
                 committed, quiet, raced, faults>>

SelectFatal(h, l) ==
  /\ At(h, l, "select") /\ "isu" \notin tables
  /\ HostDies(h) /\ UNCHANGED faults

FillPair(h, l, x) ==
  /\ At(h, l, "fill") /\ x \in load[h][l].rows
  /\ cacheIsu' = [cacheIsu EXCEPT ![h][Key(x)] = x]
  /\ load' = [load EXCEPT ![h][l].stage = "fillUuid", ![h][l].cur = x]
  /\ UNCHANGED <<db, activated, proc, cacheIsuFromUUID, conn, reqs, inits,
                 committed, quiet, raced, faults>>

FillUuid(h, l) ==
  /\ At(h, l, "fillUuid")
  /\ LET x == load[h][l].cur IN
       /\ cacheIsuFromUUID' = [cacheIsuFromUUID EXCEPT ![h][UuidOf[x]] = x]
       /\ load' = [load EXCEPT ![h][l] = [stage |-> "fill", rows |-> @.rows \ {x},
                                          cur |-> None]]
  /\ UNCHANGED <<db, activated, proc, cacheIsu, conn, reqs, inits,
                 committed, quiet, raced, faults>>

LoadDone(h, l) ==
  /\ At(h, l, "fill") /\ load[h][l].rows = {}
  /\ load' = [load EXCEPT ![h][l].stage = "done"]
  /\ UNCHANGED <<db, activated, proc, caches, conn, reqs, inits,
                 committed, quiet, raced, faults>>

-----------------------------------------------------------------------------
(* POST /api/auth: INSERT IGNORE.                                          *)
PostAuthentication(u) ==
  /\ "user" \in tables
  /\ user' = user \cup {u}
  /\ UNCHANGED <<tables, isu, config, activated, proc, caches, load, conn, reqs,
                 inits, committed, quiet, raced, faults>>

(* POST /api/isu.  nginx hands request r to a serving process and          *)
(* getUserIDFromSession looks its user up in the table.                    *)
PostIsu(r, h) ==
  /\ pc[r] = "new" /\ proc[h] = "serving"
  /\ host' = [host EXCEPT ![r] = h]
  /\ pc' = [pc EXCEPT ![r] = IF "user" \in tables /\ OwnerOf[r] \in user
                              THEN "authed" ELSE "refused"]
  /\ quiet' = (quiet /\ ~InitRunning)
  /\ UNCHANGED <<db, activated, proc, caches, load, conn, target, ins, inits,
                 committed, raced, faults>>

(* INSERT INTO `isu`: the unique index makes it wait for an uncommitted    *)
(* row with its uuid and answers 409 to a committed one.                   *)
InsertIsuRow(r) ==
  /\ \A q \in Reg : pc[q] \in OpenTx => UuidOf[q] # UuidOf[r]
  /\ PcStep(r, "authed",
            IF "isu" \in tables /\ \A x \in isu : UuidOf[x] # UuidOf[r]
            THEN "inserted" ELSE "refused")
  /\ UNCHANGED <<target, isu, activated, ins, committed, faults>>

(* getJIAServiceURL: any error reading the table yields the default URL.   *)
(* The read keeps the table from being dropped until the transaction ends. *)
getJIAServiceURL == IF "config" \in tables THEN config ELSE None

ReadServiceURL(r) ==
  /\ PcStep(r, "inserted", "asking")
  /\ target' = [target EXCEPT ![r] = getJIAServiceURL]
  /\ UNCHANGED <<isu, activated, ins, committed, faults>>

(* JIA's answer to the activation request, which is sent with the          *)
(* transaction open.  JIA may accept and the answer may still get lost.    *)
Activate(r) ==
  /\ \/ PcStep(r, "asking", "accepted") /\ activated' = activated \cup {UuidOf[r]}
     \/ PcStep(r, "asking", "refused")  /\ activated' = activated \cup {UuidOf[r]}
     \/ PcStep(r, "asking", "refused")  /\ UNCHANGED activated
  /\ UNCHANGED <<target, isu, ins, committed, faults>>

(* COMMIT succeeds and the handler calls InsertIsu on every member of      *)
(* appgroup.                                                               *)
Commit(r) ==
  /\ PcStep(r, "accepted", "committed")
  /\ isu' = isu \cup {r}
  /\ committed' = committed \cup {r}
  /\ ins' = [ins EXCEPT ![r] = [d \in Group |-> IF d \in AppGroup THEN "queued" ELSE "none"]]
  /\ UNCHANGED <<target, activated, faults>>

(* COMMIT took effect but its answer was lost: the handler returns 500.    *)
CommitUnacknowledged(r) ==
  /\ faults < MaxFaults /\ faults' = faults + 1
  /\ PcStep(r, "accepted", "refused")
  /\ isu' = isu \cup {r}
  /\ committed' = committed \cup {r}
  /\ UNCHANGED <<target, activated, ins>>

(* Any other error return; the deferred Rollback drops the row.            *)
Abort(r) ==
  /\ \E from \in {"authed", "accepted"} : PcStep(r, from, "refused")
  /\ UNCHANGED <<target, isu, activated, ins, committed, faults>>

Respond(r) ==
  /\ \A d \in AppGroup : ins[r][d] = "done"
  /\ PcStep(r, "committed", "created")
  /\ UNCHANGED <<target, isu, activated, ins, committed, faults>>

-----------------------------------------------------------------------------
DeliverInsert(r, d) ==
  /\ ins[r][d] = "queued" /\ proc[d] # "listening"
  /\ CanReach("appgroup", host[r], d) /\ conn' = Connected("appgroup", host[r], d)
  /\ ins' = [ins EXCEPT ![r][d] = "pair"]
  /\ UNCHANGED <<db, activated, proc, caches, load, pc, host, target,
                 inits, committed, quiet, raced, faults>>

(* InsertIsu. *)
StorePair(r, d) ==
  /\ ins[r][d] = "pair"
  /\ cacheIsu' = [cacheIsu EXCEPT ![d][Key(r)] = r]
  /\ ins' = [ins EXCEPT ![r][d] = "uuid"]
  /\ UNCHANGED <<db, activated, proc, cacheIsuFromUUID, load, conn, pc, host, target,
                 inits, committed, quiet, raced, faults>>

StoreUuid(r, d) ==
  /\ ins[r][d] = "uuid"
  /\ cacheIsuFromUUID' = [cacheIsuFromUUID EXCEPT ![d][UuidOf[r]] = r]
  /\ ins' = [ins EXCEPT ![r][d] = "done"]
  /\ UNCHANGED <<db, activated, proc, cacheIsu, load, conn, pc, host, target,
                 inits, committed, quiet, raced, faults>>

(* InitializeFunction on d: it panics, and kills the process, before it is *)
(* registered and before main() has opened the database.                   *)
DeliverInit(i, d) ==
  /\ At(d, i, "queued") /\ proc[d] \in {"loading", "serving"}
  /\ CanReach("group", ihost[i], d) /\ conn' = Connected("group", ihost[i], d)
  /\ load' = [load EXCEPT ![d][i].stage = "clearPair"]
  /\ UNCHANGED <<db, activated, proc, caches, reqs, inits, committed, quiet, raced, faults>>

InitPanics(i, d) ==
  /\ At(d, i, "queued") /\ proc[d] \in {"listening", "registered"}
  /\ CanReach("group", ihost[i], d)
  /\ HostDiesIn(d, [load EXCEPT ![d][i].stage = "clearPair"],
                Connected("group", ihost[i], d))
  /\ UNCHANGED faults

(* Client.Call: an RPC error - the peer died with the call, or the cached  *)
(* connection is to a dead process, or the peer cannot decode an Isu yet - *)
(* is log.Fatal in the caller.                                             *)
RpcFailed(p, s, d, stage) ==
  \/ stage = "failed"
  \/ stage = "queued" /\ d # s
     /\ (conn[p][s][d] = "broken" \/ (p = "appgroup" /\ proc[d] = "listening"))

RpcFatal(s) ==
  /\ \E d \in Group :
       \/ \E r \in Reg : /\ host[r] = s /\ pc[r] = "committed"
                         /\ RpcFailed("appgroup", s, d, ins[r][d])
       \/ \E i \in InitReq : /\ ihost[i] = s /\ ipc[i] = "notify"
                             /\ RpcFailed("group", s, d, load[d][i].stage)
  /\ HostDies(s) /\ UNCHANGED faults

-----------------------------------------------------------------------------
(* POST /initialize: sql/init.sh, the service URL, then InitializeFunction *)
(* on every member of group.  DDL waits for the transactions that use the  *)
(* table; the mysql client stops at the first failing statement.           *)
PostInitialize(i, h) ==
  /\ ipc[i] = "new" /\ proc[h] = "serving"
  /\ ipc' = [ipc EXCEPT ![i] = "dropConfig"] /\ ihost' = [ihost EXCEPT ![i] = h]
  /\ quiet' = (quiet /\ ~InitRunning /\ ~RegRunning /\ ~Booting)
  /\ UNCHANGED <<db, activated, proc, caches, load, conn, reqs, committed, raced, faults>>

DropConfig(i) ==
  /\ \A r \in Reg : pc[r] \notin {"asking", "accepted"}
  /\ InitStep(i, "dropConfig", "dropIsu")
  /\ tables' = tables \ {"config"} /\ config' = None
  /\ UNCHANGED <<isu, user, load, committed, raced>>

(* History: the rows that are on their way into the maps of a process, with *)
(* an InsertIsu that it has not ended, or selected by an initializeCache    *)
(* and not filled in yet.                                                   *)
Unstored(h) ==
  {r \in Reg : ins[r][h] \in {"queued", "pair", "uuid"}} \cup UNION {load[h][l].rows : l \in Loader}

DropIsu(i) ==
  /\ \A r \in Reg : pc[r] \notin OpenTx
  /\ InitStep(i, "dropIsu", "create")
  /\ tables' = tables \ {"isu"} /\ isu' = {}
  /\ raced' = [h \in Group |-> raced[h] \cup (isu \cap Unstored(h))]
  /\ UNCHANGED <<user, config, load, committed>>

(* DROP `user`, then CREATE `isu`, `user` and `isu_association_config`.    *)
CreateTables(i) ==
  /\ user' = {}
  /\ IF {"isu", "config"} \cap tables = {}
       THEN InitStep(i, "create", "loadIsu") /\ tables' = {"config", "isu", "user"}
       ELSE /\ InitStep(i, "create", "failed")
            /\ tables' = IF "isu" \in tables THEN tables \ {"user"}
                                             ELSE tables \cup {"isu", "user"}
  /\ UNCHANGED <<isu, config, load, committed, raced>>

(* The rows have fixed ids from 1 up: they collide with any row that was   *)
(* registered in the table since it was created.                           *)
LoadIsu(i) ==
  /\ \A r \in Reg : pc[r] \notin OpenTx
  /\ IF "isu" \in tables /\ isu = {}
       THEN InitStep(i, "loadIsu", "loadUser") /\ isu' = Seed
            /\ committed' = committed \cup Seed
       ELSE InitStep(i, "loadIsu", "failed") /\ UNCHANGED <<isu, committed>>
  /\ UNCHANGED <<tables, user, config, load, raced>>

LoadUser(i) ==
  /\ IF "user" \in tables /\ user \cap SeedUser = {}
       THEN InitStep(i, "loadUser", "setConfig") /\ user' = user \cup SeedUser
       ELSE InitStep(i, "loadUser", "failed") /\ UNCHANGED user
  /\ UNCHANGED <<tables, isu, config, load, committed, raced>>

SetConfig(i) ==
  /\ IF "config" \in tables
       THEN /\ InitStep(i, "setConfig", "notify")
            /\ config' = i
            /\ load' = [d \in Group |-> [load[d] EXCEPT ![i].stage = "queued"]]
       ELSE InitStep(i, "setConfig", "failed") /\ UNCHANGED <<config, load>>
  /\ UNCHANGED <<tables, isu, user, committed, raced>>

Initialized(i) ==
  /\ \A d \in Group : At(d, i, "done")
  /\ InitStep(i, "notify", "ok")
  /\ UNCHANGED <<db, load, committed, raced>>

-----------------------------------------------------------------------------
LoadStep(h, l) ==
  \/ ClearPair(h, l) \/ ClearUuid(h, l) \/ SelectIsu(h, l) \/ SelectFatal(h, l)
  \/ (\E x \in Row : FillPair(h, l, x)) \/ FillUuid(h, l) \/ LoadDone(h, l)

HostStep(h) ==
  \/ Listen(h) \/ Register(h) \/ Main(h) \/ Serve(h) \/ RpcFatal(h)

RegStep(r) ==
  InsertIsuRow(r) \/ ReadServiceURL(r) \/ Activate(r) \/ Commit(r) \/ Respond(r)

InsertStep(r, d) == DeliverInsert(r, d) \/ StorePair(r, d) \/ StoreUuid(r, d)

InitCallStep(i, d) == DeliverInit(i, d) \/ InitPanics(i, d)

InitReqStep(i) ==
  \/ DropConfig(i) \/ DropIsu(i) \/ CreateTables(i) \/ LoadIsu(i) \/ LoadUser(i)
  \/ SetConfig(i) \/ Initialized(i)

Next ==
  \/ \E u \in User : PostAuthentication(u)
  \/ \E h \in AppGroup : \/ \E r \in Reg : PostIsu(r, h)
                         \/ \E i \in InitReq : PostInitialize(i, h)
  \/ \E r \in Reg : RegStep(r) \/ CommitUnacknowledged(r) \/ Abort(r)
  \/ \E r \in Reg, d \in Group : InsertStep(r, d)
  \/ \E i \in InitReq : InitReqStep(i)
  \/ \E i \in InitReq, d \in Group : InitCallStep(i, d)
  \/ \E h \in Group : HostStep(h) \/ Crash(h)
  \/ \E h \in Group, l \in Loader : LoadStep(h, l)

(* Running goroutines, the database, JIA and systemd make progress; nobody *)
(* has to send a request, fail or crash.                                   *)
Fairness ==
  /\ \A r \in Reg : WF_vars(RegStep(r) \/ \E d \in Group : InsertStep(r, d))
  /\ \A i \in InitReq : WF_vars(InitReqStep(i) \/ \E d \in Group : InitCallStep(i, d))
  /\ \A h \in Group : WF_vars(HostStep(h) \/ \E l \in Loader : LoadStep(h, l))

Spec == Init /\ [][Next]_vars
FairSpec == Spec /\ Fairness

-----------------------------------------------------------------------------
TypeOK ==
  /\ tables \subseteq {"config", "isu", "user"}
  /\ isu \subseteq Row /\ user \subseteq User
  /\ config \in InitReq \cup {None}
  /\ activated \subseteq Uuid
  /\ proc \in [Group -> {"down", "listening", "registered", "loading", "serving"}]
  /\ cacheIsu \in [Group -> [Uuid \X User -> Row \cup {None}]]
  /\ cacheIsuFromUUID \in [Group -> [Uuid -> Row \cup {None}]]
  /\ load \in [Group -> [Loader ->
       [stage : Loading \cup {"idle", "queued", "done", "failed"},
        rows : SUBSET Row, cur : Row \cup {None}]]]
  /\ conn \in [Port -> [Group -> [Group -> {"none", "open", "broken"}]]]
  /\ pc \in [Reg -> InFlight \cup {"new", "created", "refused", "lost"}]
  /\ host \in [Reg -> Group \cup {None}]
  /\ target \in [Reg -> InitReq \cup {None}]
  /\ ins \in [Reg -> [Group -> {"none", "queued", "pair", "uuid", "done", "failed"}]]
  /\ ipc \in [InitReq -> InitPhase \cup {"new", "ok", "failed", "lost"}]
  /\ ihost \in [InitReq -> Group \cup {None}]
  /\ committed \subseteq Row
  /\ quiet \in BOOLEAN /\ raced \in [Group -> SUBSET Row]
  /\ faults \in 0 .. MaxFaults

(* getIsuID, getIsuIcon, getIsuGraph and getIsuConditions find the ISU of  *)
(* the session's user in cacheIsu alone; postIsuCondition admits an ISU's  *)
(* report if its uuid is in cacheIsuFromUUID.                              *)
IsuFound(h, k)           == cacheIsu[h][k] # None
ConditionAdmitted(h, u)  == cacheIsuFromUUID[h][u] # None

IdleCache(h) == proc[h] = "serving" /\ \A l \in Loader : load[h][l].stage \notin Loading
Settled      == /\ \E i \in InitReq : ipc[i] = "ok"
                /\ \A i \in InitReq : ipc[i] \in {"new", "ok"}

(* No process answers from a registration whose transaction has not        *)
(* committed: the RPC goes out after tx.Commit, and what initializeCache   *)
(* selects is committed.                                                   *)
CacheCommitted ==
  \A h \in Group :
    /\ \A k \in Uuid \X User : cacheIsu[h][k] \in committed \cup {None}
    /\ \A u \in Uuid : cacheIsuFromUUID[h][u] \in committed \cup {None}

(* Read your writes.  Once POST /api/isu has answered 201, and as long as  *)
(* no reset has dropped the row, every process that is serving and not in  *)
(* the middle of initializeCache finds the ISU in both maps - whatever     *)
(* loads, resets, insertions and restarts ran meanwhile.                   *)
ReadYourWrites ==
  \A r \in Reg : pc[r] = "created" /\ r \in isu =>
    \A h \in AppGroup : IdleCache(h) => /\ IsuFound(h, Key(r))
                                        /\ ConditionAdmitted(h, UuidOf[r])

(* The two maps agree on registered rows: they are cleared and filled one  *)
(* after the other and without a lock, yet an idle process that shows an   *)
(* ISU to its owner does not turn the ISU's reports away.                  *)
FoundIsAdmitted ==
  \A h \in Group : IdleCache(h) =>
    \A r \in Reg \cap isu : cacheIsu[h][Key(r)] = r /\ ins[r][h] # "uuid"
                           => ConditionAdmitted(h, UuidOf[r])

(* A row is visible in the table only if JIA has accepted its activation.  *)
RegisteredIsActivated == \A x \in isu : UuidOf[x] \in activated

(* Once every reset that was sent has answered 200, activations go to a    *)
(* URL a reset was given, not to the default URL; and when no reset        *)
(* overlapped other work, every registered ISU was activated at the        *)
(* configured URL.                                                         *)
ActivatedAtConfiguredURL ==
  Settled => /\ getJIAServiceURL \in InitReq
             /\ quiet => \A r \in Reg \cap isu : target[r] = config

(* Once every reset that was sent has answered 200, a process still knows  *)
(* an ISU that a reset dropped only through one of two races: when its row *)
(* was dropped it was on its way into the maps of the process, or a store  *)
(* put the old map back.  Whatever else overlaps the resets - requests,    *)
(* restarts, other resets - leaves nothing behind.                         *)
InitializeEvicts ==
  Settled =>
    \A h \in Group :
      /\ \A k \in Uuid \X User : cacheIsu[h][k] \in isu \cup raced[h] \cup {None}
      /\ \A u \in Uuid : cacheIsuFromUUID[h][u] \in isu \cup raced[h] \cup {None}

(* A registration takes effect at one moment, while its request is open,   *)
(* and there is never a second row for the ISU: not for a retry that is    *)
(* under way at the same time, nor when the answer to COMMIT is lost, nor  *)
(* after the death of the process, nor across a reset.                     *)
RequestState(step) ==
  CASE step \in {"new", "authed"} \cup OpenTx -> "open"
    [] step = "committed" -> "made"
    [] OTHER -> step

Registration == INSTANCE Registry WITH
  Request <- Reg, rows <- isu, active <- activated,
  request <- [r \in Reg |-> RequestState(pc[r])]

RegistrationIsAtomic == Registration!Spec

(* The call of InsertIsu is what RpcGroup shows Group.Call to be: begun    *)
(* once, by a commit that was acknowledged, it starts at most once on each *)
(* application process, also after the caller's death, and 201 is answered *)
(* only when all of them have stored the row in both maps - whichever      *)
(* processes die, restart and reload their maps meanwhile.                 *)
InsertIsuCall == INSTANCE Broadcast WITH
  Host <- AppGroup, Call <- Reg,
  call <- [r \in Reg |-> CASE pc[r] = "committed" -> "open"
                          [] pc[r] = "created" -> "returned"
                          [] pc[r] = "lost" /\ r \in committed -> "dead"
                          [] OTHER -> "new"],
  started  <- [r \in Reg |-> {d \in AppGroup : ins[r][d] \in {"pair", "uuid", "done", "failed"}}],
  finished <- [r \in Reg |-> {d \in AppGroup : ins[r][d] = "done"}]

InsertIsuIsBroadcast == InsertIsuCall!Spec

(* A registration that reached the database is answered, or its process    *)
(* dies: no order of broadcasts, resets and restarts leaves it hanging.    *)
RegistrationEnds ==
  \A r \in Reg : pc[r] \in InFlight ~> pc[r] \notin InFlight

(* POST /initialize ends too, though its DDL waits for transactions that   *)
(* wait for JIA.                                                           *)
InitializeEnds ==
  \A i \in InitReq : ipc[i] \in InitPhase ~> ipc[i] \notin InitPhase

(* README.md, design SYNC: a change of the map is broadcast to every       *)
(* instance (and written to the database).  A committed row is eventually  *)
(* found on every application process, or dropped by a reset.              *)
CommittedReachesCaches ==
  \A r \in Reg : r \in isu ~>
    r \notin isu \/ \A h \in AppGroup : IsuFound(h, Key(r)) /\ ConditionAdmitted(h, UuidOf[r])
=============================================================================
