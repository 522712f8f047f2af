-------------------------- MODULE IsuRegistryProofs --------------------------
(* Proofs about IsuRegistry for every number of processes, ISUs, requests  *)
(* and faults.                                                             *)
EXTENDS IsuRegistry, TLAPS

(* What a process answers from is committed, because everything on its way *)
(* into a cache is: rows a loader selected, rows of InsertIsu calls.       *)
CommitInv ==
  /\ isu \subseteq committed
  /\ \A h \in Group, l \in Loader : /\ load[h][l].rows \subseteq committed
                                    /\ load[h][l].cur \in committed \cup {None}
  /\ \A r \in Reg, d \in Group : ins[r][d] \in {"queued", "pair", "uuid"} => r \in committed
  /\ CacheCommitted

(* JIA knows the seed rows and every row whose transaction may commit.     *)
ActivationInv ==
  /\ \A x \in Seed : UuidOf[x] \in activated
  /\ \A r \in Reg : pc[r] = "accepted" => UuidOf[r] \in activated
  /\ RegisteredIsActivated

(* A run of initializeCache on h that has yet to store row x in the map.   *)
ToSelect(h, l)    == load[h][l].stage \in {"clearPair", "clearUuid", "select"}
Filling(h, l)     == load[h][l].stage \in {"fill", "fillUuid"}
PairPending(h, x) == \E l \in Loader :
  ToSelect(h, l) \/ (Filling(h, l) /\ x \in load[h][l].rows \ {load[h][l].cur})
UuidPending(h, x) == \E l \in Loader :
  ToSelect(h, l) \/ (Filling(h, l) /\ x \in load[h][l].rows)

Loaded(h) == proc[h] \in {"loading", "serving"}

(* No call is under way before the statement that makes it, and a 201 is   *)
(* answered when all calls are over.                                       *)
CallInv ==
  /\ \A r \in Reg : pc[r] \notin {"committed", "created", "lost"}
                    => \A d \in Group : ins[r][d] = "none"
  /\ \A r \in Reg : pc[r] = "created" => \A d \in AppGroup : ins[r][d] = "done"
  /\ \A i \in InitReq : ipc[i] \in {"new", "setConfig"} \cup Script
                        => \A d \in Group : load[d][i].stage = "idle"

(* A row of the table that InsertIsu stored on d and that is not in d's    *)
(* map any more was cleared by a run of initializeCache that stores it     *)
(* again: the run selects after it has cleared.                            *)
Restored(r, d) ==
  r \in isu /\ Loaded(d) =>
    /\ ins[r][d] \in {"uuid", "done"} => IsuFound(d, Key(r)) \/ PairPending(d, r)
    /\ ins[r][d] = "done" => ConditionAdmitted(d, UuidOf[r]) \/ UuidPending(d, r)

(* The second map has, or will be given, every row the first one shows.    *)
Followed(r, d) ==
  r \in isu /\ cacheIsu[d][Key(r)] = r /\ ins[r][d] # "uuid" =>
    ConditionAdmitted(d, UuidOf[r]) \/ UuidPending(d, r)

Kept(r, d) == Restored(r, d) /\ Followed(r, d)
LoadInv    == \A r \in Reg, d \in Group : Kept(r, d)

(* The row a loader is storing is a row. *)
RunInv == \A h \in Group, l \in Loader :
            load[h][l].stage = "fillUuid" => load[h][l].cur \in Row

(* A request that has not committed has not left its row anywhere. *)
FreshInv == \A r \in Reg : pc[r] \in {"new", "authed"} \cup OpenTx => r \notin committed

-----------------------------------------------------------------------------
LoadRun == [stage : Loading \cup {"idle", "queued", "done", "failed"},
            rows : SUBSET Row, cur : Row \cup {None}]
LoadType == [Group -> [Loader -> LoadRun]]
ConnType == [Port -> [Group -> [Group -> {"none", "open", "broken"}]]]

LEMMA IdleType == Idle \in LoadRun /\ [Idle EXCEPT !.stage = "failed"] \in LoadRun
BY DEF Idle, LoadRun

(* What an old map keeps is rows. *)
LEMMA PutBackType ==
  ASSUME TypeOK, NEW h \in Group, NEW old, old \ (isu \cup {None}) \subseteq Row, PutBack(h, old)
  PROVE  raced' \in [Group -> SUBSET Row]
BY DEF PutBack, TypeOK

(* The death of a process keeps every variable in its type. *)
LEMMA HostDiesType ==
  ASSUME TypeOK, NEW h \in Group, NEW ld \in LoadType, NEW cn \in ConnType,
         HostDiesIn(h, ld, cn), faults' \in 0 .. MaxFaults
  PROVE  TypeOK'
<1>1. load' \in LoadType  BY IdleType DEF LoadType, HostDiesIn
<1>2. conn' \in ConnType  BY DEF ConnType, HostDiesIn
<1>3. /\ cacheIsu' \in [Group -> [Uuid \X User -> Row \cup {None}]]
      /\ cacheIsuFromUUID' \in [Group -> [Uuid -> Row \cup {None}]]
  BY DEF NoPairs, NoUuids, TypeOK, HostDiesIn
<1>4. /\ pc' \in [Reg -> InFlight \cup {"new", "created", "refused", "lost"}]
      /\ ins' \in [Reg -> [Group -> {"none", "queued", "pair", "uuid", "done", "failed"}]]
      /\ ipc' \in [InitReq -> InitPhase \cup {"new", "ok", "failed", "lost"}]
  BY DEF TypeOK, HostDiesIn
<1>5. /\ proc' \in [Group -> {"down", "listening", "registered", "loading", "serving"}]
      /\ quiet' \in BOOLEAN
  BY DEF InitRunning, TypeOK, HostDiesIn
<1>. QED  BY <1>1, <1>2, <1>3, <1>4, <1>5 DEF LoadType, LoadRun, ConnType, TypeOK, HostDiesIn, db

LEMMA RunTypes ==
  ASSUME NEW run \in LoadRun
  PROVE  /\ \A st \in Loading \cup {"queued", "done", "failed"} :
              [run EXCEPT !.stage = st] \in LoadRun
         /\ \A x \in Row : [run EXCEPT !.stage = "fillUuid", !.cur = x] \in LoadRun
BY DEF LoadRun, Loading

LEMMA ConnectedType ==
  ASSUME conn \in ConnType, NEW p \in Port, NEW s, NEW d
  PROVE  Connected(p, s, d) \in ConnType
BY DEF Connected, ConnType

LEMMA EmptyTypes == /\ NoPairs \in [Uuid \X User -> Row \cup {None}]
                    /\ NoUuids \in [Uuid -> Row \cup {None}]
BY DEF NoPairs, NoUuids

LEMMA LoadTypes ==
  ASSUME NEW ld \in LoadType, NEW h \in Group, NEW l \in Loader
  PROVE  /\ \A st \in Loading \cup {"queued", "done", "failed"} :
              [ld EXCEPT ![h][l].stage = st] \in LoadType
         /\ \A run \in LoadRun : [ld EXCEPT ![h][l] = run] \in LoadType
<1>. ld \in [Group -> [Loader -> LoadRun]] /\ ld[h] \in [Loader -> LoadRun] /\ ld[h][l] \in LoadRun
  BY DEF LoadType
<1>1. ASSUME NEW run \in LoadRun PROVE [ld EXCEPT ![h][l] = run] \in LoadType
  BY DEF LoadType
<1>2. ASSUME NEW st \in Loading \cup {"queued", "done", "failed"}
      PROVE  [ld EXCEPT ![h][l].stage = st] \in LoadType
  <2>1. [ld[h][l] EXCEPT !.stage = st] \in LoadRun  BY RunTypes
  <2>2. [ld EXCEPT ![h][l].stage = st] = [ld EXCEPT ![h][l] = [ld[h][l] EXCEPT !.stage = st]]
    OBVIOUS
  <2>. QED  BY <1>1, <2>1, <2>2
<1>. QED  BY <1>1, <1>2

(* Moving a run to its next stage leaves what it has read alone. *)
LEMMA StageOnly ==
  ASSUME NEW ld \in LoadType, NEW h \in Group, NEW l \in Loader, NEW st
  PROVE  \A e \in Group, m \in Loader :
           /\ [ld EXCEPT ![h][l].stage = st][e][m].rows = ld[e][m].rows
           /\ [ld EXCEPT ![h][l].stage = st][e][m].cur = ld[e][m].cur
<1>. ld \in [Group -> [Loader -> LoadRun]] /\ ld[h] \in [Loader -> LoadRun]
  BY DEF LoadType
<1>. DEFINE new == [ld EXCEPT ![h][l].stage = st]
<1>1. new = [ld EXCEPT ![h] = [ld[h] EXCEPT ![l] = [ld[h][l] EXCEPT !.stage = st]]]
  OBVIOUS
<1>2. ASSUME NEW e \in Group, NEW m \in Loader
      PROVE  new[e][m] = IF e = h /\ m = l THEN [ld[h][l] EXCEPT !.stage = st] ELSE ld[e][m]
  BY <1>1
<1>3. /\ [ld[h][l] EXCEPT !.stage = st].rows = ld[h][l].rows
      /\ [ld[h][l] EXCEPT !.stage = st].cur = ld[h][l].cur
  BY DEF LoadRun
<1>. QED  BY <1>2, <1>3

(* Every variable keeps its type, for any hosts, requests and seed rows,   *)
(* through every death of a process in the middle of a handler.            *)
THEOREM TypeCorrect == Spec => []TypeOK
<1>1. Init => TypeOK
  <2>. SUFFICES ASSUME Init PROVE TypeOK
    OBVIOUS
  <2>1. /\ cacheIsu \in [Group -> [Uuid \X User -> Row \cup {None}]]
        /\ cacheIsuFromUUID \in [Group -> [Uuid -> Row \cup {None}]]
    <3>1. \A k : (\E x \in Seed : Key(x) = k) => (CHOOSE x \in Seed : Key(x) = k) \in Seed
      OBVIOUS
    <3>2. \A u : (\E x \in Seed : UuidOf[x] = u) => (CHOOSE x \in Seed : UuidOf[x] = u) \in Seed
      OBVIOUS
    <3>. QED  BY <3>1, <3>2 DEF Init, Row
  <2>2. load \in LoadType
    BY IdleType DEF Init, LoadType
  <2>3. activated \subseteq Uuid
    BY RegistryAssumption DEF Init, Row
  <2>. QED
    BY <2>1, <2>2, <2>3, RegistryAssumption DEF Init, TypeOK, LoadType, LoadRun, Row
<1>2. TypeOK /\ [Next]_vars => TypeOK'
  <2>. SUFFICES ASSUME TypeOK, [Next]_vars PROVE TypeOK'
    OBVIOUS
  <2>0. load \in LoadType /\ conn \in ConnType
    BY DEF TypeOK, LoadType, LoadRun, ConnType
  <2>1. CASE UNCHANGED vars
    BY <2>1 DEF TypeOK, vars, db, caches, reqs, inits
  <2>2. ASSUME NEW u \in User, PostAuthentication(u) PROVE TypeOK'
    BY <2>2 DEF PostAuthentication, TypeOK, caches, reqs, inits
  <2>3. ASSUME NEW h \in AppGroup, NEW r \in Reg, PostIsu(r, h) PROVE TypeOK'
    BY <2>3, RegistryAssumption DEF PostIsu, TypeOK, caches, db, inits, InFlight
  <2>4. ASSUME NEW h \in AppGroup, NEW i \in InitReq, PostInitialize(i, h) PROVE TypeOK'
    BY <2>4, RegistryAssumption
    DEF PostInitialize, TypeOK, caches, db, reqs, InitPhase, Script,
        InitRunning, RegRunning, Booting
  <2>5. ASSUME NEW r \in Reg, RegStep(r) \/ CommitUnacknowledged(r) \/ Abort(r) PROVE TypeOK'
    <3>. USE DEF PcStep, TypeOK, caches, inits, InFlight, OpenTx, Row
    <3>1. CASE InsertIsuRow(r)          BY <3>1 DEF InsertIsuRow
    <3>2. CASE ReadServiceURL(r)        BY <3>2 DEF ReadServiceURL, getJIAServiceURL
    <3>3. CASE Activate(r)
      <4>1. UuidOf[r] \in Uuid  BY RegistryAssumption DEF Row
      <4>2. /\ pc' \in [Reg -> InFlight \cup {"new", "created", "refused", "lost"}]
            /\ activated' \subseteq Uuid
        BY <3>3, <4>1 DEF Activate
      <4>3. UNCHANGED <<isu, tables, user, config, proc, caches, load, conn, host, target, ins,
                        inits, quiet, raced, committed, faults>>
        BY <3>3 DEF Activate
      <4>. QED  BY <4>2, <4>3
    <3>4. CASE Commit(r)                BY <3>4 DEF Commit
    <3>5. CASE Respond(r)               BY <3>5 DEF Respond
    <3>6. CASE CommitUnacknowledged(r)
      <4>1. faults' \in 0 .. MaxFaults
        BY <3>6, RegistryAssumption DEF CommitUnacknowledged
      <4>. QED  BY <3>6, <4>1 DEF CommitUnacknowledged
    <3>7. CASE Abort(r)                 BY <3>7 DEF Abort
    <3>. QED  BY <2>5, <3>1, <3>2, <3>3, <3>4, <3>5, <3>6, <3>7 DEF RegStep
  <2>6. ASSUME NEW r \in Reg, NEW d \in Group, InsertStep(r, d) PROVE TypeOK'
    <3>. USE DEF TypeOK, db, caches, inits, Row
    <3>1. CASE DeliverInsert(r, d)
      <4>1. conn' \in ConnType  BY <3>1, <2>0, ConnectedType DEF DeliverInsert, Port
      <4>. QED  BY <3>1, <4>1 DEF DeliverInsert, ConnType
    <3>2. CASE StorePair(r, d)      BY <3>2 DEF StorePair
    <3>3. CASE StoreUuid(r, d)      BY <3>3 DEF StoreUuid
    <3>. QED  BY <2>6, <3>1, <3>2, <3>3 DEF InsertStep
  <2>7. ASSUME NEW i \in InitReq, InitReqStep(i) PROVE TypeOK'
    <3>. USE DEF InitStep, TypeOK, caches, reqs, db, InitPhase, Script, Row
    <3>1. CASE DropConfig(i)    BY <3>1 DEF DropConfig
    <3>2. CASE DropIsu(i)       BY <3>2 DEF DropIsu
    <3>3. CASE CreateTables(i)
      <4>1. user' = {}
        BY <3>3 DEF CreateTables
      <4>2. tables' \subseteq {"config", "isu", "user"}
        <5>1. \/ tables' = {"config", "isu", "user"}
              \/ tables' = tables \ {"user"}
              \/ tables' = tables \cup {"isu", "user"}
          BY <3>3, Zenon DEF CreateTables
        <5>. QED  BY <5>1
      <4>3. ipc' \in [InitReq -> InitPhase \cup {"new", "ok", "failed", "lost"}]
        <5>1. CASE InitStep(i, "create", "loadIsu")  BY <5>1
        <5>2. CASE InitStep(i, "create", "failed")   BY <5>2
        <5>. QED  BY <3>3, <5>1, <5>2 DEF CreateTables
      <4>4. UNCHANGED <<isu, config, load, committed, activated, proc, caches, conn, reqs,
                        ihost, quiet, raced, faults>>
        <5>1. PICK to : InitStep(i, "create", to)  BY <3>3 DEF CreateTables
        <5>2. UNCHANGED <<isu, config, load, committed, raced>>  BY <3>3 DEF CreateTables
        <5>. QED  BY <5>1, <5>2
      <4>. QED  BY <4>1, <4>2, <4>3, <4>4
    <3>4. CASE LoadIsu(i)       BY <3>4 DEF LoadIsu
    <3>5. CASE LoadUser(i)      BY <3>5, RegistryAssumption DEF LoadUser
    <3>6. CASE SetConfig(i)
      <4>1. load' \in LoadType
        <5>1. CASE UNCHANGED load  BY <5>1, <2>0
        <5>2. CASE load' = [d \in Group |-> [load[d] EXCEPT ![i].stage = "queued"]]
          <6>1. ASSUME NEW d \in Group PROVE [load[d] EXCEPT ![i].stage = "queued"] \in [Loader -> LoadRun]
            <7>1. load[d] \in [Loader -> LoadRun]  BY <2>0 DEF LoadType
            <7>2. [load[d][i] EXCEPT !.stage = "queued"] \in LoadRun
              BY <7>1, RunTypes DEF Loader
            <7>. QED  BY <7>1, <7>2
          <6>. QED  BY <5>2, <6>1 DEF LoadType
        <5>. QED  BY <3>6, <5>1, <5>2 DEF SetConfig
      <4>. QED  BY <3>6, <4>1 DEF SetConfig, LoadType, LoadRun
    <3>7. CASE Initialized(i)   BY <3>7 DEF Initialized
    <3>. QED  BY <2>7, <3>1, <3>2, <3>3, <3>4, <3>5, <3>6, <3>7 DEF InitReqStep
  <2>8. ASSUME NEW i \in InitReq, NEW d \in Group, InitCallStep(i, d) PROVE TypeOK'
    <3>1. Connected("group", ihost[i], d) \in ConnType
      BY <2>0, ConnectedType DEF Port
    <3>2. [load EXCEPT ![d][i].stage = "clearPair"] \in LoadType
      BY <2>0, LoadTypes DEF Loading, Loader
    <3>3. CASE DeliverInit(i, d)
      BY <3>1, <3>2, <3>3 DEF DeliverInit, TypeOK, LoadType, LoadRun, ConnType, db, caches, reqs, inits
    <3>4. CASE InitPanics(i, d)
      BY <3>1, <3>2, <3>4, HostDiesType DEF InitPanics, TypeOK
    <3>. QED  BY <2>8, <3>3, <3>4 DEF InitCallStep
  <2>9. ASSUME NEW h \in Group, HostStep(h) \/ Crash(h) PROVE TypeOK'
    <3>. USE DEF Advance, db, caches, reqs, inits
    <3>1. CASE Listen(h)    BY <3>1 DEF Listen, TypeOK
    <3>2. CASE Register(h)  BY <3>2 DEF Register, TypeOK
    <3>3. CASE Main(h)
      <4>1. load' \in LoadType  BY <3>3, <2>0, LoadTypes DEF Main, Loading, Loader
      <4>. QED  BY <3>3, <4>1 DEF Main, TypeOK, LoadType, LoadRun
    <3>4. CASE Serve(h)
      <4>1. load' \in LoadType  BY <3>4, <2>0, LoadTypes, IdleType DEF Serve, Loader
      <4>. QED  BY <3>4, <4>1 DEF Serve, TypeOK, LoadType, LoadRun
    <3>5. CASE RpcFatal(h)  BY <3>5, <2>0, HostDiesType DEF RpcFatal, HostDies, TypeOK
    <3>6. CASE Crash(h)
      <4>1. faults' \in 0 .. MaxFaults  BY <3>6, RegistryAssumption DEF Crash, TypeOK
      <4>. QED  BY <3>6, <4>1, <2>0, HostDiesType DEF Crash, HostDies
    <3>. QED  BY <2>9, <3>1, <3>2, <3>3, <3>4, <3>5, <3>6 DEF HostStep
  <2>10. ASSUME NEW h \in Group, NEW l \in Loader, LoadStep(h, l) PROVE TypeOK'
    <3>. USE DEF At, db, caches, reqs, inits
    <3>1. CASE ClearPair(h, l)
      <4>1. load' \in LoadType  BY <3>1, <2>0, LoadTypes DEF ClearPair, Loading
      <4>2. cacheIsu' \in [Group -> [Uuid \X User -> Row \cup {None}]]
        BY <3>1, EmptyTypes DEF ClearPair, TypeOK
      <4>3. raced' \in [Group -> SUBSET Row]
        <5>1. {cacheIsu[h][k] : k \in Uuid \X User} \ (isu \cup {None}) \subseteq Row
          BY DEF TypeOK
        <5>. QED  BY <3>1, <5>1, PutBackType DEF ClearPair, TypeOK
      <4>. QED  BY <3>1, <4>1, <4>2, <4>3 DEF ClearPair, TypeOK, LoadType, LoadRun
    <3>2. CASE ClearUuid(h, l)
      <4>1. load' \in LoadType  BY <3>2, <2>0, LoadTypes DEF ClearUuid, Loading
      <4>2. cacheIsuFromUUID' \in [Group -> [Uuid -> Row \cup {None}]]
        BY <3>2, EmptyTypes DEF ClearUuid, TypeOK
      <4>3. raced' \in [Group -> SUBSET Row]
        <5>1. {cacheIsuFromUUID[h][u] : u \in Uuid} \ (isu \cup {None}) \subseteq Row
          BY DEF TypeOK
        <5>. QED  BY <3>2, <5>1, PutBackType DEF ClearUuid, TypeOK
      <4>. QED  BY <3>2, <4>1, <4>2, <4>3 DEF ClearUuid, TypeOK, LoadType, LoadRun
    <3>3. CASE SelectIsu(h, l)
      <4>1. [stage |-> "fill", rows |-> isu, cur |-> None] \in LoadRun
        BY DEF TypeOK, LoadRun, Loading
      <4>2. load' \in LoadType  BY <3>3, <4>1, <2>0, LoadTypes DEF SelectIsu
      <4>. QED  BY <3>3, <4>2 DEF SelectIsu, TypeOK, LoadType, LoadRun
    <3>4. CASE SelectFatal(h, l)
      BY <3>4, <2>0, HostDiesType DEF SelectFatal, HostDies, TypeOK
    <3>5. ASSUME NEW x \in Row, FillPair(h, l, x) PROVE TypeOK'
      <4>1. [load[h][l] EXCEPT !.stage = "fillUuid", !.cur = x] \in LoadRun
        BY <2>0, RunTypes DEF LoadType
      <4>2. load' = [load EXCEPT ![h][l] = [load[h][l] EXCEPT !.stage = "fillUuid", !.cur = x]]
        BY <3>5, <2>0 DEF FillPair, LoadType, LoadRun
      <4>3. load' \in LoadType  BY <4>1, <4>2, <2>0, LoadTypes
      <4>. QED  BY <3>5, <4>3 DEF FillPair, TypeOK, LoadType, LoadRun
    <3>6. CASE FillUuid(h, l)
      <4>1. load' \in LoadType  BY <3>6, <2>0 DEF FillUuid, LoadType, LoadRun, Loading
      <4>2. cacheIsuFromUUID' \in [Group -> [Uuid -> Row \cup {None}]]
        <5>1. load[h][l].cur \in Row \cup {None}  BY <2>0 DEF LoadType, LoadRun
        <5>. QED  BY <3>6, <5>1 DEF FillUuid, TypeOK
      <4>. QED  BY <3>6, <4>1, <4>2 DEF FillUuid, TypeOK, LoadType, LoadRun
    <3>7. CASE LoadDone(h, l)
      <4>1. load' \in LoadType  BY <3>7, <2>0, LoadTypes DEF LoadDone
      <4>. QED  BY <3>7, <4>1 DEF LoadDone, TypeOK, LoadType, LoadRun
    <3>. QED  BY <2>10, <3>1, <3>2, <3>3, <3>4, <3>5, <3>6, <3>7 DEF LoadStep
  <2>. QED
    BY <2>1, <2>2, <2>3, <2>4, <2>5, <2>6, <2>7, <2>8, <2>9, <2>10 DEF Next
<1>. QED  BY <1>1, <1>2, PTL DEF Spec

-----------------------------------------------------------------------------
LEMMA ActivationInvariant == Spec => []ActivationInv
<1>1. Init => ActivationInv
  BY RegistryAssumption DEF Init, ActivationInv, RegisteredIsActivated
<1>2. TypeOK /\ ActivationInv /\ [Next]_vars => ActivationInv'
  <2>. SUFFICES ASSUME TypeOK, ActivationInv, [Next]_vars PROVE ActivationInv'
    OBVIOUS
  <2>. USE DEF ActivationInv, RegisteredIsActivated
  (* Steps that commit nothing and let nobody past the activation. *)
  <2>0. ASSUME isu' \subseteq isu \cup Seed, activated \subseteq activated',
               \A r \in Reg : pc'[r] = "accepted" => pc[r] = "accepted"
        PROVE  ActivationInv'
    BY <2>0
  <2>1. CASE UNCHANGED <<isu, activated, pc>>
    BY <2>0, <2>1
  <2>2. ASSUME NEW h \in Group, NEW ld, NEW cn, HostDiesIn(h, ld, cn) PROVE ActivationInv'
    BY <2>0, <2>2 DEF HostDiesIn, db
  <2>3. ASSUME NEW h \in AppGroup, NEW r \in Reg, PostIsu(r, h) PROVE ActivationInv'
    BY <2>0, <2>3 DEF PostIsu, db, TypeOK
  <2>4. ASSUME NEW r \in Reg, RegStep(r) \/ CommitUnacknowledged(r) \/ Abort(r)
        PROVE ActivationInv'
    <3>1. CASE InsertIsuRow(r)          BY <2>0, <3>1 DEF InsertIsuRow, PcStep, TypeOK
    <3>2. CASE ReadServiceURL(r)        BY <2>0, <3>2 DEF ReadServiceURL, PcStep, TypeOK
    <3>3. CASE Activate(r)              BY <3>3 DEF Activate, PcStep, TypeOK
    <3>4. CASE Commit(r)                BY <3>4 DEF Commit, PcStep, TypeOK
    <3>5. CASE Respond(r)               BY <2>0, <3>5 DEF Respond, PcStep, TypeOK
    <3>6. CASE CommitUnacknowledged(r)  BY <3>6 DEF CommitUnacknowledged, PcStep, TypeOK
    <3>7. CASE Abort(r)                 BY <2>0, <3>7 DEF Abort, PcStep, TypeOK
    <3>. QED  BY <2>4, <3>1, <3>2, <3>3, <3>4, <3>5, <3>6, <3>7 DEF RegStep
  <2>5. ASSUME NEW i \in InitReq, InitReqStep(i) PROVE ActivationInv'
    <3>1. UNCHANGED <<activated, pc>>
      BY <2>5 DEF InitReqStep, DropConfig, DropIsu, CreateTables, LoadIsu, LoadUser, SetConfig,
                  Initialized, InitStep, reqs
    <3>2. isu' \subseteq isu \cup Seed
      BY <2>5 DEF InitReqStep, DropConfig, DropIsu, CreateTables, LoadIsu, LoadUser, SetConfig,
                  Initialized, db
    <3>. QED  BY <2>0, <3>1, <3>2
  <2>6. ASSUME NEW i \in InitReq, NEW d \in Group, InitCallStep(i, d) PROVE ActivationInv'
    BY <2>1, <2>2, <2>6 DEF InitCallStep, DeliverInit, InitPanics, db, reqs
  <2>7. ASSUME NEW h \in Group, HostStep(h) \/ Crash(h) PROVE ActivationInv'
    BY <2>1, <2>2, <2>7
    DEF HostStep, Listen, Register, Main, Serve, Advance, RpcFatal, Crash, HostDies, db, reqs
  <2>8. ASSUME NEW h \in Group, NEW l \in Loader, LoadStep(h, l) PROVE ActivationInv'
    BY <2>1, <2>2, <2>8
    DEF LoadStep, ClearPair, ClearUuid, SelectIsu, SelectFatal, FillPair, FillUuid, LoadDone,
        HostDies, db, reqs
  <2>9. ASSUME NEW r \in Reg, NEW d \in Group, InsertStep(r, d) PROVE ActivationInv'
    BY <2>1, <2>9 DEF InsertStep, DeliverInsert, StorePair, StoreUuid, db
  <2>10. ASSUME NEW u \in User, PostAuthentication(u) PROVE ActivationInv'
    BY <2>1, <2>10 DEF PostAuthentication, reqs
  <2>11. ASSUME NEW h \in AppGroup, NEW i \in InitReq, PostInitialize(i, h) PROVE ActivationInv'
    BY <2>1, <2>11 DEF PostInitialize, db, reqs
  <2>12. CASE UNCHANGED vars
    BY <2>1, <2>12 DEF vars, db, reqs
  <2>. QED
    BY <2>3, <2>4, <2>5, <2>6, <2>7, <2>8, <2>9, <2>10, <2>11, <2>12 DEF Next
<1>. QED  BY <1>1, <1>2, TypeCorrect, PTL DEF Spec

(* A row is visible in the table only if JIA has accepted its activation:  *)
(* postIsu returns on any other answer before it commits (main.go:695-736).*)
THEOREM RegisteredRowsAreActivated == Spec => []RegisteredIsActivated
BY ActivationInvariant, PTL DEF ActivationInv

-----------------------------------------------------------------------------
LEMMA CommitInvariant == Spec => []CommitInv
<1>1. Init => CommitInv
  <2>. SUFFICES ASSUME Init PROVE CommitInv
    OBVIOUS
  <2>1. ASSUME NEW h \in Group, NEW k \in Uuid \X User
        PROVE  cacheIsu[h][k] \in committed \cup {None}
    <3>1. (\E x \in Seed : Key(x) = k) => (CHOOSE x \in Seed : Key(x) = k) \in Seed
      OBVIOUS
    <3>. QED  BY <3>1 DEF Init
  <2>2. ASSUME NEW h \in Group, NEW u \in Uuid
        PROVE  cacheIsuFromUUID[h][u] \in committed \cup {None}
    <3>1. (\E x \in Seed : UuidOf[x] = u) => (CHOOSE x \in Seed : UuidOf[x] = u) \in Seed
      OBVIOUS
    <3>. QED  BY <3>1 DEF Init
  <2>. QED
    BY <2>1, <2>2 DEF Init, CommitInv, CacheCommitted, Idle
<1>2. TypeOK /\ CommitInv /\ [Next]_vars => CommitInv'
  <2>. SUFFICES ASSUME TypeOK, CommitInv, [Next]_vars PROVE CommitInv'
    OBVIOUS
  <2>0. load \in LoadType /\ \A h \in Group, l \in Loader : load[h][l] \in LoadRun
    BY DEF TypeOK, LoadType, LoadRun
  (* What a step may do: put committed rows where there were others. *)
  <2>1. ASSUME committed \subseteq committed',
               isu' \subseteq isu \cup committed',
               \A h \in Group, l \in Loader :
                 /\ load'[h][l].rows \subseteq load[h][l].rows \cup isu
                 /\ load'[h][l].cur \in {None, load[h][l].cur} \cup load[h][l].rows,
               \A r \in Reg, d \in Group : ins'[r][d] \in {"queued", "pair", "uuid"}
                 => ins[r][d] \in {"queued", "pair", "uuid"} \/ r \in committed',
               \A h \in Group, k \in Uuid \X User :
                 cacheIsu'[h][k] \in {None, cacheIsu[h][k]} \cup committed,
               \A h \in Group, u \in Uuid :
                 cacheIsuFromUUID'[h][u] \in {None, cacheIsuFromUUID[h][u]} \cup committed
        PROVE  CommitInv'
    <3>1. (isu \subseteq committed /\ isu' \subseteq committed')
      BY <2>1 DEF CommitInv
    <3>2. \A h \in Group, l \in Loader : /\ load'[h][l].rows \subseteq committed'
                                         /\ load'[h][l].cur \in committed' \cup {None}
      BY <2>1, <3>1 DEF CommitInv
    <3>3. \A r \in Reg, d \in Group :
            ins'[r][d] \in {"queued", "pair", "uuid"} => r \in committed'
      BY <2>1 DEF CommitInv
    <3>4. CacheCommitted'
      BY <2>1 DEF CommitInv, CacheCommitted
    <3>. QED  BY <3>1, <3>2, <3>3, <3>4 DEF CommitInv
  <2>2. CASE UNCHANGED <<isu, committed, load, ins, cacheIsu, cacheIsuFromUUID>>
    BY <2>1, <2>2
  <2>3. ASSUME NEW h \in Group, NEW ld \in LoadType, NEW cn, HostDiesIn(h, ld, cn),
               \A d \in Group, l \in Loader : /\ ld[d][l].rows = load[d][l].rows
                                             /\ ld[d][l].cur = load[d][l].cur
        PROVE  CommitInv'
    <3>1. \A d \in Group, l \in Loader :
            /\ load'[d][l].rows \subseteq load[d][l].rows \cup isu
            /\ load'[d][l].cur \in {None, load[d][l].cur} \cup load[d][l].rows
      BY <2>3 DEF HostDiesIn, Idle
    <3>2. /\ \A d \in Group, k \in Uuid \X User : cacheIsu'[d][k] \in {None, cacheIsu[d][k]}
          /\ \A d \in Group, u \in Uuid :
               cacheIsuFromUUID'[d][u] \in {None, cacheIsuFromUUID[d][u]}
      BY <2>3 DEF HostDiesIn, NoPairs, NoUuids, TypeOK
    <3>3. \A r \in Reg, d \in Group : ins'[r][d] \in {"queued", "pair", "uuid"}
            => ins[r][d] \in {"queued", "pair", "uuid"}
      BY <2>3 DEF HostDiesIn
    <3>4. UNCHANGED <<isu, committed>>
      BY <2>3 DEF HostDiesIn, db
    <3>. QED  BY <2>1, <3>1, <3>2, <3>3, <3>4
  <2>4. ASSUME NEW r \in Reg, RegStep(r) \/ CommitUnacknowledged(r) \/ Abort(r)
        PROVE  CommitInv'
    <3>1. CASE UNCHANGED <<isu, committed, ins>>
      BY <2>2, <2>4, <3>1
      DEF RegStep, InsertIsuRow, ReadServiceURL, Activate, Commit, Respond,
          CommitUnacknowledged, Abort, PcStep, caches
    <3>2. CASE Commit(r)
      BY <2>1, <3>2 DEF Commit, PcStep, caches, TypeOK
    <3>3. CASE CommitUnacknowledged(r)
      BY <2>1, <3>3 DEF CommitUnacknowledged, PcStep, caches
    <3>. QED
      BY <2>4, <3>1, <3>2, <3>3 DEF RegStep, InsertIsuRow, ReadServiceURL, Activate, Respond, Abort
  <2>5. ASSUME NEW i \in InitReq, InitReqStep(i) PROVE CommitInv'
    <3>1. CASE SetConfig(i)
      <4>1. \A d \in Group, l \in Loader : /\ load'[d][l].rows = load[d][l].rows
                                          /\ load'[d][l].cur = load[d][l].cur
        <5>1. CASE UNCHANGED load  BY <5>1
        <5>2. CASE load' = [d \in Group |-> [load[d] EXCEPT ![i].stage = "queued"]]
          <6>1. ASSUME NEW d \in Group, NEW l \in Loader
                PROVE  load'[d][l] = IF l = i THEN [load[d][i] EXCEPT !.stage = "queued"]
                                              ELSE load[d][l]
            BY <5>2, <2>0 DEF LoadType
          <6>2. ASSUME NEW d \in Group
                PROVE  /\ [load[d][i] EXCEPT !.stage = "queued"].rows = load[d][i].rows
                       /\ [load[d][i] EXCEPT !.stage = "queued"].cur = load[d][i].cur
            BY <2>0 DEF LoadRun, Loader
          <6>. QED  BY <6>1, <6>2
        <5>. QED  BY <3>1, <5>1, <5>2 DEF SetConfig
      <4>. QED
        BY <2>1, <3>1, <4>1 DEF SetConfig, InitStep, caches, reqs
    <3>2. CASE ~SetConfig(i)
      <4>1. UNCHANGED <<load, ins, cacheIsu, cacheIsuFromUUID>>
        BY <2>5, <3>2 DEF InitReqStep, DropConfig, DropIsu, CreateTables, LoadIsu, LoadUser,
                          Initialized, InitStep, caches, reqs
      <4>2. committed \subseteq committed' /\ isu' \subseteq isu \cup committed'
        BY <2>5, <3>2 DEF InitReqStep, DropConfig, DropIsu, CreateTables, LoadIsu, LoadUser,
                          Initialized, db
      <4>. QED  BY <2>1, <4>1, <4>2
    <3>. QED  BY <3>1, <3>2
  <2>6. ASSUME NEW i \in InitReq, NEW d \in Group, InitCallStep(i, d) PROVE CommitInv'
    <3>. DEFINE ld == [load EXCEPT ![d][i].stage = "clearPair"]
    <3>1. /\ ld \in LoadType
          /\ \A e \in Group, l \in Loader : /\ ld[e][l].rows = load[e][l].rows
                                            /\ ld[e][l].cur = load[e][l].cur
      <4>1. i \in Loader  BY DEF Loader
      <4>2. ld \in LoadType  BY <2>0, <4>1, LoadTypes DEF Loading
      <4>3. \A e \in Group, l \in Loader : /\ ld[e][l].rows = load[e][l].rows
                                          /\ ld[e][l].cur = load[e][l].cur
        BY <2>0, <4>1, StageOnly
      <4>. QED  BY <4>2, <4>3
    <3>2. CASE DeliverInit(i, d)
      BY <2>1, <3>1, <3>2 DEF DeliverInit, db, caches, reqs
    <3>3. CASE InitPanics(i, d)
      BY <2>3, <3>1, <3>3 DEF InitPanics
    <3>. QED  BY <2>6, <3>2, <3>3 DEF InitCallStep
  <2>7. ASSUME NEW h \in Group, HostStep(h) \/ Crash(h) PROVE CommitInv'
    <3>1. CASE HostDies(h)
      BY <2>0, <2>3, <3>1 DEF HostDies
    <3>2. CASE Advance(h, proc[h], proc'[h])
      <4>1. \A d \in Group, l \in Loader :
              /\ load'[d][l].rows \subseteq load[d][l].rows
              /\ load'[d][l].cur \in {None, load[d][l].cur}
        <5>1. CASE UNCHANGED load  BY <5>1
        <5>2. CASE Main(h)  BY <2>0, <5>2 DEF Main, LoadType, LoadRun
        <5>3. CASE Serve(h) BY <2>0, <5>3 DEF Serve, LoadType, LoadRun, Idle
        <5>4. CASE HostDies(h)
          BY <5>4 DEF HostDies, HostDiesIn, Idle
        <5>. QED  BY <2>7, <5>1, <5>2, <5>3, <5>4 DEF HostStep, Listen, Register, RpcFatal, Crash
      <4>. QED  BY <2>1, <3>2, <4>1 DEF Advance, db, caches, reqs
    <3>. QED
      BY <2>7, <3>1, <3>2 DEF HostStep, Listen, Register, Main, Serve, RpcFatal, Crash, Advance, TypeOK
  <2>8. ASSUME NEW h \in Group, NEW l \in Loader, LoadStep(h, l) PROVE CommitInv'
    <3>. DEFINE run == load[h][l]
    <3>. USE DEF At, db, caches, reqs
    <3>1. CASE SelectFatal(h, l)
      BY <2>0, <2>3, <3>1 DEF SelectFatal, HostDies
    <3>2. CASE ClearPair(h, l)
      <4>1. \A e \in Group, k \in Uuid \X User : cacheIsu'[e][k] \in {None, cacheIsu[e][k]}
        <5>1. cacheIsu' = [cacheIsu EXCEPT ![h] = NoPairs] \/ UNCHANGED cacheIsu
          BY <3>2 DEF ClearPair
        <5>2. \A k \in Uuid \X User : NoPairs[k] = None  BY DEF NoPairs
        <5>3. cacheIsu \in [Group -> [Uuid \X User -> Row \cup {None}]]  BY DEF TypeOK
        <5>. QED  BY <5>1, <5>2, <5>3
      <4>. QED  BY <2>0, <2>1, <3>2, <4>1, StageOnly DEF ClearPair
    <3>3. CASE ClearUuid(h, l)
      <4>1. \A e \in Group, u \in Uuid :
              cacheIsuFromUUID'[e][u] \in {None, cacheIsuFromUUID[e][u]}
        <5>1. \/ cacheIsuFromUUID' = [cacheIsuFromUUID EXCEPT ![h] = NoUuids]
              \/ UNCHANGED cacheIsuFromUUID
          BY <3>3 DEF ClearUuid
        <5>2. \A u \in Uuid : NoUuids[u] = None  BY DEF NoUuids
        <5>3. cacheIsuFromUUID \in [Group -> [Uuid -> Row \cup {None}]]  BY DEF TypeOK
        <5>. QED  BY <5>1, <5>2, <5>3
      <4>. QED  BY <2>0, <2>1, <3>3, <4>1, StageOnly DEF ClearUuid
    <3>4. CASE SelectIsu(h, l)
      BY <2>0, <2>1, <3>4 DEF SelectIsu, LoadType, LoadRun
    <3>5. ASSUME NEW x \in Row, FillPair(h, l, x) PROVE CommitInv'
      <4>1. x \in committed  BY <3>5 DEF FillPair, CommitInv
      <4>2. \A e \in Group, m \in Loader :
              /\ load'[e][m].rows = load[e][m].rows
              /\ load'[e][m].cur \in {None, load[e][m].cur} \cup load[e][m].rows
        BY <3>5, <2>0 DEF FillPair, LoadType, LoadRun
      <4>. QED  BY <2>1, <3>5, <4>1, <4>2 DEF FillPair, TypeOK
    <3>6. CASE FillUuid(h, l)
      <4>1. run.cur \in committed \cup {None}  BY DEF CommitInv
      <4>2. \A e \in Group, m \in Loader :
              /\ load'[e][m].rows \subseteq load[e][m].rows
              /\ load'[e][m].cur \in {None, load[e][m].cur}
        BY <3>6, <2>0 DEF FillUuid, LoadType, LoadRun
      <4>. QED  BY <2>1, <3>6, <4>1, <4>2 DEF FillUuid, TypeOK
    <3>7. CASE LoadDone(h, l)
      BY <2>0, <2>1, <3>7 DEF LoadDone, LoadType, LoadRun
    <3>. QED  BY <2>8, <3>1, <3>2, <3>3, <3>4, <3>5, <3>6, <3>7 DEF LoadStep
  <2>9. ASSUME NEW r \in Reg, NEW d \in Group, InsertStep(r, d) PROVE CommitInv'
    <3>0. r \in committed
      BY <2>9 DEF InsertStep, DeliverInsert, StorePair, StoreUuid, CommitInv
    <3>1. CASE DeliverInsert(r, d)
      BY <2>1, <3>1, <3>0 DEF DeliverInsert, db, caches, TypeOK
    <3>2. CASE StorePair(r, d)
      BY <2>1, <3>2, <3>0 DEF StorePair, db, TypeOK
    <3>3. CASE StoreUuid(r, d)
      BY <2>1, <3>3, <3>0 DEF StoreUuid, db, TypeOK
    <3>. QED  BY <2>9, <3>1, <3>2, <3>3 DEF InsertStep
  <2>10. CASE \/ \E u \in User : PostAuthentication(u)
              \/ \E h \in AppGroup : \/ \E r \in Reg : PostIsu(r, h)
                                     \/ \E i \in InitReq : PostInitialize(i, h)
              \/ UNCHANGED vars
    BY <2>2, <2>10
    DEF PostAuthentication, PostIsu, PostInitialize, vars, db, caches, reqs
  <2>. QED
    BY <2>4, <2>5, <2>6, <2>7, <2>8, <2>9, <2>10 DEF Next
<1>. QED  BY <1>1, <1>2, TypeCorrect, PTL DEF Spec

(* No process answers from a registration whose transaction has not        *)
(* committed (main.go:388-401, 736-742).                                   *)
THEOREM OnlyCommittedRowsAreCached == Spec => []CacheCommitted
BY CommitInvariant, PTL DEF CommitInv

-----------------------------------------------------------------------------
LEMMA CallInvariant == Spec => []CallInv
<1>1. Init => CallInv
  BY DEF Init, CallInv, Idle, Loader
<1>2. TypeOK /\ CallInv /\ [Next]_vars => CallInv'
  <2>. SUFFICES ASSUME TypeOK, CallInv, [Next]_vars PROVE CallInv'
    OBVIOUS
  <2>0. load \in LoadType /\ \A h \in Group, l \in Loader : load[h][l] \in LoadRun
    BY DEF TypeOK, LoadType, LoadRun
  <2>1. CASE UNCHANGED <<pc, ins, ipc, load>>
    BY <2>1 DEF CallInv
  (* A run of initializeCache leaves the idle ones alone. *)
  <2>2. ASSUME UNCHANGED <<pc, ins, ipc>>,
               \A d \in Group, i \in InitReq : load[d][i].stage = "idle" => load'[d][i].stage = "idle"
        PROVE  CallInv'
    BY <2>2 DEF CallInv
  <2>3. ASSUME NEW h \in Group, NEW ld \in LoadType, NEW cn, HostDiesIn(h, ld, cn),
               \A d \in Group, l \in InitReq : load[d][l].stage = "idle" => ld[d][l].stage = "idle"
        PROVE  CallInv'
    <3>1. \A r \in Reg : pc'[r] \notin {"committed", "created", "lost"}
                         => \A d \in Group : ins'[r][d] = "none"
      BY <2>3 DEF HostDiesIn, CallInv, TypeOK
    <3>2. \A r \in Reg : pc'[r] = "created" => \A d \in AppGroup : ins'[r][d] = "done"
      BY <2>3, RegistryAssumption DEF HostDiesIn, CallInv
    <3>3. ASSUME NEW i \in InitReq, ipc'[i] \in {"new", "setConfig"} \cup Script, NEW d \in Group
          PROVE  load'[d][i].stage = "idle"
      <4>1. ipc[i] \in {"new", "setConfig"} \cup Script
        BY <2>3, <3>3 DEF HostDiesIn, Script, InitPhase
      <4>2. load[d][i].stage = "idle" /\ ld[d][i].stage = "idle"
        BY <2>3, <4>1 DEF CallInv
      <4>. QED  BY <2>3, <4>2 DEF HostDiesIn, Idle, Loading, Loader
    <3>. QED  BY <3>1, <3>2, <3>3 DEF CallInv
  <2>4. ASSUME NEW r \in Reg, RegStep(r) \/ CommitUnacknowledged(r) \/ Abort(r)
        PROVE  CallInv'
    <3>. USE DEF PcStep, TypeOK, inits
    <3>1. CASE Commit(r)   BY <3>1 DEF Commit, CallInv
    <3>2. CASE Respond(r)  BY <3>2, RegistryAssumption DEF Respond, CallInv
    <3>3. ASSUME NEW from, NEW to, PcStep(r, from, to), UNCHANGED ins,
                 from \notin {"committed", "created", "lost"}, to # "created"
          PROVE  CallInv'
      BY <3>3 DEF CallInv
    <3>4. CASE InsertIsuRow(r)          BY <3>3, <3>4 DEF InsertIsuRow
    <3>5. CASE ReadServiceURL(r)        BY <3>3, <3>5 DEF ReadServiceURL
    <3>6. CASE Activate(r)              BY <3>3, <3>6 DEF Activate
    <3>7. CASE CommitUnacknowledged(r)  BY <3>3, <3>7 DEF CommitUnacknowledged
    <3>8. CASE Abort(r)                 BY <3>3, <3>8 DEF Abort
    <3>. QED  BY <2>4, <3>1, <3>2, <3>4, <3>5, <3>6, <3>7, <3>8 DEF RegStep
  <2>5. ASSUME NEW i \in InitReq, InitReqStep(i) PROVE CallInv'
    <3>. USE DEF InitStep, TypeOK, reqs
    <3>1. ASSUME NEW from, NEW to, InitStep(i, from, to), UNCHANGED load,
                 from \in Script \/ to \notin {"new", "setConfig"} \cup Script
          PROVE  CallInv'
      BY <3>1 DEF CallInv
    <3>2. CASE SetConfig(i) /\ "config" \in tables
      <4>1. \A d \in Group, j \in InitReq : j # i => load'[d][j] = load[d][j]
        BY <3>2, <2>0 DEF SetConfig, LoadType, Loader
      <4>2. InitStep(i, "setConfig", "notify")  BY <3>2 DEF SetConfig
      <4>3. ipc'[i] = "notify" /\ \A j \in InitReq : j # i => ipc'[j] = ipc[j]
        BY <4>2
      <4>4. UNCHANGED <<pc, ins>>  BY <4>2
      <4>5. ASSUME NEW j \in InitReq, ipc'[j] \in {"new", "setConfig"} \cup Script, NEW d \in Group
            PROVE  load'[d][j].stage = "idle"
        <5>1. j # i /\ load'[d][j] = load[d][j]
          BY <4>1, <4>3, <4>5 DEF Script
        <5>2. load[d][j].stage = "idle"
          BY <5>1, <4>3, <4>5 DEF CallInv
        <5>. QED  BY <5>1, <5>2
      <4>. QED  BY <4>4, <4>5 DEF CallInv
    <3>3. CASE SetConfig(i) /\ "config" \notin tables
      BY <3>1, <3>3 DEF SetConfig, Script
    <3>4. CASE DropConfig(i)    BY <3>1, <3>4 DEF DropConfig, Script
    <3>5. CASE DropIsu(i)       BY <3>1, <3>5 DEF DropIsu, Script
    <3>6. CASE CreateTables(i)  BY <3>1, <3>6 DEF CreateTables, Script
    <3>7. CASE LoadIsu(i)       BY <3>1, <3>7 DEF LoadIsu, Script
    <3>8. CASE LoadUser(i)      BY <3>1, <3>8 DEF LoadUser, Script
    <3>9. CASE Initialized(i)
      <4>1. InitStep(i, "notify", "ok") /\ UNCHANGED load  BY <3>9 DEF Initialized
      <4>2. "ok" \notin {"new", "setConfig"} \cup Script     BY DEF Script
      <4>. QED  BY <3>1, <4>1, <4>2
    <3>. QED  BY <2>5, <3>2, <3>3, <3>4, <3>5, <3>6, <3>7, <3>8, <3>9 DEF InitReqStep
  <2>6. ASSUME NEW i \in InitReq, NEW d \in Group, InitCallStep(i, d) PROVE CallInv'
    <3>. DEFINE ld == [load EXCEPT ![d][i].stage = "clearPair"]
    <3>1. load[d][i].stage = "queued"
      BY <2>6 DEF InitCallStep, DeliverInit, InitPanics, At
    <3>2. ld \in LoadType
      BY <2>0, LoadTypes DEF Loading, Loader
    <3>3. \A e \in Group, j \in InitReq : load[e][j].stage = "idle" => ld[e][j].stage = "idle"
      BY <2>0, <3>1 DEF LoadType, LoadRun, Loader
    <3>4. CASE DeliverInit(i, d)
      BY <2>2, <3>3, <3>4 DEF DeliverInit, reqs, inits
    <3>5. CASE InitPanics(i, d)
      BY <2>3, <3>2, <3>3, <3>5 DEF InitPanics
    <3>. QED  BY <2>6, <3>4, <3>5 DEF InitCallStep
  <2>7. ASSUME NEW h \in Group, HostStep(h) \/ Crash(h) PROVE CallInv'
    <3>1. CASE RpcFatal(h) \/ Crash(h)
      BY <2>0, <2>3, <3>1 DEF RpcFatal, Crash, HostDies
    <3>2. CASE Listen(h) \/ Register(h)
      BY <2>1, <3>2 DEF Listen, Register, Advance, reqs, inits
    <3>3. CASE Main(h) \/ Serve(h)
      <4>1. \A d \in Group, i \in InitReq : load'[d][i] = load[d][i]
        <5>1. Boot \in Loader /\ \A i \in InitReq : i \in Loader /\ i # Boot
          BY RegistryAssumption DEF Loader
        <5>2. CASE Main(h)   BY <2>0, <5>1, <5>2 DEF Main, LoadType
        <5>3. CASE Serve(h)  BY <2>0, <5>1, <5>3 DEF Serve, LoadType
        <5>. QED  BY <3>3, <5>2, <5>3
      <4>. QED  BY <2>2, <3>3, <4>1 DEF Main, Serve, Advance, reqs, inits
    <3>. QED  BY <2>7, <3>1, <3>2, <3>3 DEF HostStep
  <2>8. ASSUME NEW h \in Group, NEW l \in Loader, LoadStep(h, l) PROVE CallInv'
    <3>1. CASE SelectFatal(h, l)
      BY <2>0, <2>3, <3>1 DEF SelectFatal, HostDies
    <3>2. CASE ~SelectFatal(h, l)
      <4>1. UNCHANGED <<pc, ins, ipc>>
        BY <2>8, <3>2 DEF LoadStep, ClearPair, ClearUuid, SelectIsu, FillPair, FillUuid, LoadDone,
                          reqs, inits
      <4>2. load[h][l].stage # "idle"
        BY <2>8 DEF LoadStep, ClearPair, ClearUuid, SelectIsu, SelectFatal, FillPair, FillUuid,
                    LoadDone, At
      <4>3. \A d \in Group, m \in Loader : d # h \/ m # l => load'[d][m] = load[d][m]
        BY <2>8, <2>0, <3>2
        DEF LoadStep, ClearPair, ClearUuid, SelectIsu, FillPair, FillUuid, LoadDone, LoadType
      <4>. QED  BY <2>2, <4>1, <4>2, <4>3 DEF Loader
    <3>. QED  BY <3>1, <3>2
  <2>9. ASSUME NEW r \in Reg, NEW d \in Group, InsertStep(r, d) PROVE CallInv'
    <3>1. /\ UNCHANGED <<pc, ipc, load>>
          /\ ins[r][d] \in {"queued", "pair", "uuid"}
          /\ \A q \in Reg : q # r => ins'[q] = ins[q]
          /\ \A e \in Group : e # d => ins'[r][e] = ins[r][e]
      BY <2>9 DEF InsertStep, DeliverInsert, StorePair, StoreUuid, inits, TypeOK
    <3>2. pc[r] \in {"committed", "lost", "created"}
      BY <3>1 DEF CallInv
    <3>3. ASSUME pc[r] = "created", NEW e \in AppGroup PROVE ins'[r][e] = "done"
      BY <3>1, <3>3, RegistryAssumption DEF CallInv
    <3>. QED  BY <3>1, <3>2, <3>3 DEF CallInv
  <2>10. CASE \/ \E u \in User : PostAuthentication(u)
              \/ UNCHANGED vars
    BY <2>1, <2>10 DEF PostAuthentication, vars, reqs, inits
  <2>11. ASSUME NEW h \in AppGroup, NEW r \in Reg, PostIsu(r, h) PROVE CallInv'
    BY <2>11 DEF PostIsu, CallInv, TypeOK, inits
  <2>12. ASSUME NEW h \in AppGroup, NEW i \in InitReq, PostInitialize(i, h) PROVE CallInv'
    BY <2>12 DEF PostInitialize, CallInv, TypeOK, reqs, Script
  <2>. QED
    BY <2>4, <2>5, <2>6, <2>7, <2>8, <2>9, <2>10, <2>11, <2>12 DEF Next
<1>. QED  BY <1>1, <1>2, TypeCorrect, PTL DEF Spec

-----------------------------------------------------------------------------
LEMMA RunInvariant == Spec => []RunInv
<1>1. Init => RunInv
  BY DEF Init, RunInv, Idle
<1>2. TypeOK /\ RunInv /\ [Next]_vars => RunInv'
  <2>. SUFFICES ASSUME TypeOK, RunInv, [Next]_vars PROVE RunInv'
    OBVIOUS
  <2>0. load \in LoadType /\ \A h \in Group, l \in Loader : load[h][l] \in LoadRun
    BY DEF TypeOK, LoadType, LoadRun
  <2>1. ASSUME \A h \in Group, l \in Loader :
                 \/ load'[h][l] = load[h][l]
                 \/ load'[h][l].stage # "fillUuid"
                 \/ load'[h][l].cur \in Row
        PROVE  RunInv'
    BY <2>1 DEF RunInv
  <2>2. CASE UNCHANGED load
    BY <2>1, <2>2
  <2>3. ASSUME NEW h \in Group, NEW cn, HostDiesIn(h, load, cn) PROVE RunInv'
    BY <2>1, <2>3 DEF HostDiesIn, Idle
  <2>4. ASSUME NEW i \in InitReq, InitReqStep(i) PROVE RunInv'
    <3>1. CASE load' = [d \in Group |-> [load[d] EXCEPT ![i].stage = "queued"]]
      <4>. SUFFICES ASSUME NEW h \in Group, NEW l \in Loader
                    PROVE  load'[h][l] = load[h][l] \/ load'[h][l].stage # "fillUuid"
        BY <2>1
      <4>1. l = i => load'[h][l] = [load[h][l] EXCEPT !.stage = "queued"]
        BY <2>0, <3>1 DEF LoadType
      <4>2. l # i => load'[h][l] = load[h][l]
        BY <2>0, <3>1 DEF LoadType
      <4>. QED  BY <2>0, <4>1, <4>2 DEF LoadRun
    <3>. QED
      BY <2>2, <2>4, <3>1
      DEF InitReqStep, DropConfig, DropIsu, CreateTables, LoadIsu, LoadUser, SetConfig, Initialized
  <2>5. ASSUME NEW i \in InitReq, NEW d \in Group, InitCallStep(i, d) PROVE RunInv'
    <3>1. i \in Loader  BY DEF Loader
    <3>2. \A e \in Group, l \in Loader :
            \/ [load EXCEPT ![d][i].stage = "clearPair"][e][l] = load[e][l]
            \/ [load EXCEPT ![d][i].stage = "clearPair"][e][l].stage = "clearPair"
      BY <2>0, <3>1 DEF LoadType, LoadRun
    <3>3. CASE DeliverInit(i, d)  BY <2>1, <3>2, <3>3 DEF DeliverInit
    <3>4. CASE InitPanics(i, d)   BY <2>1, <3>2, <3>4 DEF InitPanics, HostDiesIn, Idle
    <3>. QED  BY <2>5, <3>3, <3>4 DEF InitCallStep
  <2>6. ASSUME NEW h \in Group, HostStep(h) \/ Crash(h) PROVE RunInv'
    <3>0. Boot \in Loader  BY DEF Loader
    <3>1. CASE Main(h)   BY <2>0, <2>1, <3>0, <3>1 DEF Main, LoadType, LoadRun
    <3>2. CASE Serve(h)  BY <2>0, <2>1, <3>0, <3>2 DEF Serve, LoadType, LoadRun, Idle
    <3>. QED
      BY <2>2, <2>3, <2>6, <3>1, <3>2 DEF HostStep, Listen, Register, RpcFatal, Crash, HostDies
  <2>7. ASSUME NEW h \in Group, NEW l \in Loader, LoadStep(h, l) PROVE RunInv'
    <3>1. CASE SelectFatal(h, l)
      BY <2>3, <3>1 DEF SelectFatal, HostDies
    <3>2. CASE ~SelectFatal(h, l)
      <4>1. \A d \in Group, m \in Loader : d # h \/ m # l => load'[d][m] = load[d][m]
        BY <2>7, <2>0, <3>2
        DEF LoadStep, ClearPair, ClearUuid, SelectIsu, FillPair, FillUuid, LoadDone, LoadType
      <4>2. load'[h][l].stage # "fillUuid" \/ load'[h][l].cur \in Row
        BY <2>7, <2>0, <3>2
        DEF LoadStep, ClearPair, ClearUuid, SelectIsu, FillPair, FillUuid, LoadDone,
            LoadType, LoadRun
      <4>. QED  BY <2>1, <4>1, <4>2
    <3>. QED  BY <3>1, <3>2
  <2>8. CASE \/ \E u \in User : PostAuthentication(u)
             \/ \E h \in AppGroup : \/ \E r \in Reg : PostIsu(r, h)
                                    \/ \E i \in InitReq : PostInitialize(i, h)
             \/ \E r \in Reg : RegStep(r) \/ CommitUnacknowledged(r) \/ Abort(r)
             \/ \E r \in Reg, d \in Group : InsertStep(r, d)
             \/ UNCHANGED vars
    BY <2>2, <2>8
    DEF PostAuthentication, PostIsu, PostInitialize, RegStep, InsertIsuRow, ReadServiceURL,
        Activate, Commit, Respond, CommitUnacknowledged, Abort, PcStep,
        InsertStep, DeliverInsert, StorePair, StoreUuid, vars
  <2>. QED
    BY <2>4, <2>5, <2>6, <2>7, <2>8 DEF Next
<1>. QED  BY <1>1, <1>2, TypeCorrect, PTL DEF Spec

LEMMA FreshInvariant == Spec => []FreshInv
<1>1. Init => FreshInv
  BY RegistryAssumption DEF Init, FreshInv
<1>2. TypeOK /\ FreshInv /\ [Next]_vars => FreshInv'
  <2>. SUFFICES ASSUME TypeOK, FreshInv, [Next]_vars PROVE FreshInv'
    OBVIOUS
  <2>. USE DEF FreshInv, OpenTx
  <2>1. ASSUME committed' \subseteq committed \cup Seed,
               \A r \in Reg : pc'[r] \in {"new", "authed"} \cup OpenTx
                              => pc[r] \in {"new", "authed"} \cup OpenTx
        PROVE  FreshInv'
    BY <2>1, RegistryAssumption
  <2>2. ASSUME NEW h \in Group, NEW ld, NEW cn, HostDiesIn(h, ld, cn) PROVE FreshInv'
    BY <2>1, <2>2 DEF HostDiesIn
  <2>3. ASSUME NEW h \in AppGroup, NEW r \in Reg, PostIsu(r, h) PROVE FreshInv'
    BY <2>1, <2>3 DEF PostIsu, TypeOK
  <2>4. ASSUME NEW r \in Reg, RegStep(r) \/ CommitUnacknowledged(r) \/ Abort(r)
        PROVE  FreshInv'
    <3>. USE DEF PcStep, TypeOK
    <3>1. CASE InsertIsuRow(r)          BY <2>1, <3>1 DEF InsertIsuRow
    <3>2. CASE ReadServiceURL(r)        BY <2>1, <3>2 DEF ReadServiceURL
    <3>3. CASE Activate(r)              BY <2>1, <3>3 DEF Activate
    <3>4. CASE Commit(r)                BY <3>4 DEF Commit
    <3>5. CASE Respond(r)               BY <2>1, <3>5 DEF Respond
    <3>6. CASE CommitUnacknowledged(r)  BY <3>6 DEF CommitUnacknowledged
    <3>7. CASE Abort(r)                 BY <2>1, <3>7 DEF Abort
    <3>. QED  BY <2>4, <3>1, <3>2, <3>3, <3>4, <3>5, <3>6, <3>7 DEF RegStep
  <2>5. ASSUME NEW i \in InitReq, InitReqStep(i) PROVE FreshInv'
    BY <2>1, <2>5 DEF InitReqStep, DropConfig, DropIsu, CreateTables, LoadIsu, LoadUser, SetConfig,
                      Initialized, InitStep, reqs
  <2>6. ASSUME NEW i \in InitReq, NEW d \in Group, InitCallStep(i, d) PROVE FreshInv'
    BY <2>1, <2>2, <2>6 DEF InitCallStep, DeliverInit, InitPanics, reqs
  <2>7. ASSUME NEW h \in Group, HostStep(h) \/ Crash(h) PROVE FreshInv'
    BY <2>1, <2>2, <2>7
    DEF HostStep, Listen, Register, Main, Serve, Advance, RpcFatal, Crash, HostDies, reqs
  <2>8. ASSUME NEW h \in Group, NEW l \in Loader, LoadStep(h, l) PROVE FreshInv'
    BY <2>1, <2>2, <2>8
    DEF LoadStep, ClearPair, ClearUuid, SelectIsu, SelectFatal, FillPair, FillUuid, LoadDone,
        HostDies, reqs
  <2>9. CASE \/ \E u \in User : PostAuthentication(u)
             \/ \E h \in AppGroup, i \in InitReq : PostInitialize(i, h)
             \/ \E r \in Reg, d \in Group : InsertStep(r, d)
             \/ UNCHANGED vars
    BY <2>1, <2>9
    DEF PostAuthentication, PostInitialize, InsertStep, DeliverInsert, StorePair, StoreUuid,
        vars, reqs
  <2>. QED
    BY <2>3, <2>4, <2>5, <2>6, <2>7, <2>8, <2>9 DEF Next
<1>. QED  BY <1>1, <1>2, TypeCorrect, PTL DEF Spec

-----------------------------------------------------------------------------
(* As long as no reset overlapped other work: one reset runs at a time,    *)
(* nothing else does meanwhile, and no process died under it.              *)
QuietInv ==
  /\ \A r \in Reg, d \in Group : ins[r][d] = "queued" => pc[r] = "committed" /\ d \in AppGroup
  /\ quiet => /\ \A i \in InitReq : ipc[i] # "lost"
              /\ \A i, j \in InitReq : ipc[i] \in InitPhase /\ ipc[j] \in InitPhase => i = j
              /\ InitRunning => ~RegRunning /\ ~Booting

(* Since a reset dropped the URL it has not set it; a reset that did not   *)
(* end well leaves no promise.                                             *)
Dropped == {"dropIsu", "create", "loadIsu", "loadUser", "setConfig"}
Ended   == {"failed", "lost"}

UrlInv ==
  /\ config # None => "config" \in tables
  /\ (\E i \in InitReq : ipc[i] \in {"notify", "ok"}) =>
       config \in InitReq \/ \E i \in InitReq : ipc[i] \in Dropped \cup Ended
  /\ quiet =>
       /\ (\E i \in InitReq : ipc[i] \in Dropped \ {"dropIsu"}) => Reg \cap isu = {}
       /\ (\A i \in InitReq : ipc[i] \notin Dropped \cup Ended) =>
            \A r \in Reg : r \in isu \/ pc[r] \in {"asking", "accepted"} => target[r] = config

-----------------------------------------------------------------------------
(* A reset that starts next to other work, and other work that starts     *)
(* next to a reset, clear quiet in the same step.                          *)
LEMMA QuietInvariant == Spec => []QuietInv
<1>1. Init => QuietInv
  BY DEF Init, QuietInv, InitRunning, InitPhase, Script
<1>2. TypeOK /\ QuietInv /\ [Next]_vars => QuietInv'
  <2>. SUFFICES ASSUME TypeOK, QuietInv, [Next]_vars PROVE QuietInv'
    OBVIOUS
  <2>. USE DEF QuietInv
  (* Steps that begin no reset and no other work. *)
  <2>0. ASSUME quiet' => quiet,
               \A r \in Reg, d \in Group : ins'[r][d] = "queued" =>
                 ins[r][d] = "queued" /\ (pc[r] = "committed" => pc'[r] = "committed"),
               \A i \in InitReq : /\ ipc'[i] \in InitPhase => ipc[i] \in InitPhase
                                  /\ quiet' /\ ipc'[i] = "lost" => ipc[i] = "lost",
               quiet' /\ InitRunning /\ ~RegRunning => ~RegRunning',
               quiet' /\ InitRunning /\ ~Booting => ~Booting'
        PROVE  QuietInv'
    BY <2>0 DEF InitRunning
  <2>1. CASE UNCHANGED <<proc, pc, ins, ipc, quiet>>
    BY <2>0, <2>1 DEF RegRunning, Booting
  <2>2. ASSUME NEW h \in Group, NEW ld, NEW cn, HostDiesIn(h, ld, cn) PROVE QuietInv'
    <3>1. \A r \in Reg, d \in Group : ins'[r][d] = "queued" =>
            ins[r][d] = "queued" /\ (pc[r] = "committed" => pc'[r] = "committed")
      BY <2>2 DEF HostDiesIn
    <3>2. quiet' => quiet /\ ~InitRunning
      BY <2>2 DEF HostDiesIn
    <3>3. \A i \in InitReq : /\ ipc'[i] \in InitPhase => ipc[i] \in InitPhase
                             /\ ~InitRunning => ipc'[i] = ipc[i]
      BY <2>2 DEF HostDiesIn, InitPhase, Script, InitRunning
    <3>. QED  BY <2>0, <3>1, <3>2, <3>3
  <2>3. ASSUME NEW h \in AppGroup, NEW r \in Reg, PostIsu(r, h) PROVE QuietInv'
    <3>1. \A q \in Reg : pc[q] = "committed" => pc'[q] = "committed"
      BY <2>3 DEF PostIsu, TypeOK
    <3>2. UNCHANGED <<ins, ipc>> /\ (quiet' => quiet /\ ~InitRunning)
      BY <2>3 DEF PostIsu, inits
    <3>. QED  BY <2>0, <3>1, <3>2
  (* A registration in flight, so no reset runs. *)
  <2>4. ASSUME NEW r \in Reg, RegStep(r) \/ CommitUnacknowledged(r) \/ Abort(r)
        PROVE QuietInv'
    <3>1. /\ pc[r] \in InFlight /\ UNCHANGED <<ipc, quiet, proc>>
          /\ \A q \in Reg : q # r => pc'[q] = pc[q]
      BY <2>4 DEF RegStep, InsertIsuRow, ReadServiceURL, Activate, Commit, Respond,
                  CommitUnacknowledged, Abort, PcStep, InFlight, OpenTx, inits, TypeOK
    <3>2. quiet => ~InitRunning
      BY <3>1 DEF RegRunning
    <3>3. \A q \in Reg, d \in Group : ins'[q][d] = "queued" =>
            pc'[q] = "committed" /\ d \in AppGroup
      <4>1. CASE Commit(r)
        <5>1. \A q \in Reg : q # r => ins'[q] = ins[q]
          BY <4>1 DEF Commit, TypeOK
        <5>2. pc'[r] = "committed" /\ \A d \in Group : ins'[r][d] = "queued" => d \in AppGroup
          BY <4>1 DEF Commit, PcStep, TypeOK
        <5>. QED  BY <3>1, <5>1, <5>2
      <4>2. ASSUME NEW q \in Reg, NEW d \in Group, ins'[q][d] = "queued", ~Commit(r)
            PROVE  pc'[q] = "committed" /\ d \in AppGroup
        <5>1. UNCHANGED ins
          BY <2>4, <4>2 DEF RegStep, InsertIsuRow, ReadServiceURL, Activate, Respond,
                            CommitUnacknowledged, Abort
        <5>2. pc[q] = "committed" /\ d \in AppGroup
          BY <4>2, <5>1
        <5>3. CASE q = r
          <6>1. Respond(r)
            BY <2>4, <4>2, <5>2, <5>3 DEF RegStep, InsertIsuRow, ReadServiceURL, Activate,
               CommitUnacknowledged, Abort, PcStep
          <6>2. \A e \in AppGroup : ins[r][e] = "done"
            BY <6>1 DEF Respond
          <6>. QED  BY <4>2, <5>1, <5>2, <5>3, <6>2
        <5>. QED  BY <3>1, <5>2, <5>3
      <4>. QED  BY <4>1, <4>2
    <3>. QED  BY <3>1, <3>2, <3>3 DEF InitRunning
  <2>5. ASSUME NEW i \in InitReq, InitReqStep(i) PROVE QuietInv'
    <3>1. /\ ipc[i] \in InitPhase /\ ipc'[i] # "lost"
          /\ \A j \in InitReq : j # i => ipc'[j] = ipc[j]
          /\ UNCHANGED <<proc, pc, ins, quiet>>
      BY <2>5 DEF InitReqStep, DropConfig, DropIsu, CreateTables, LoadIsu, LoadUser, SetConfig,
                  Initialized, InitStep, InitPhase, Script, reqs, TypeOK
    <3>. QED  BY <2>0, <3>1 DEF RegRunning, Booting
  <2>6. ASSUME NEW i \in InitReq, NEW d \in Group, InitCallStep(i, d) PROVE QuietInv'
    BY <2>1, <2>2, <2>6 DEF InitCallStep, DeliverInit, InitPanics, reqs, inits
  <2>7. ASSUME NEW h \in Group, HostStep(h) \/ Crash(h) PROVE QuietInv'
    <3>1. ASSUME NEW from, NEW to, Advance(h, from, to), from # "serving" PROVE QuietInv'
      <4>1. Booting
        BY <3>1 DEF Advance, Booting
      <4>. QED  BY <2>0, <3>1, <4>1 DEF Advance, reqs, inits, RegRunning
    <3>. QED
      BY <2>2, <2>7, <3>1
      DEF HostStep, Listen, Register, Main, Serve, RpcFatal, Crash, HostDies
  <2>8. ASSUME NEW h \in Group, NEW l \in Loader, LoadStep(h, l) PROVE QuietInv'
    BY <2>1, <2>2, <2>8
    DEF LoadStep, ClearPair, ClearUuid, SelectIsu, SelectFatal, FillPair, FillUuid, LoadDone,
        HostDies, reqs, inits
  <2>9. ASSUME NEW r \in Reg, NEW d \in Group, InsertStep(r, d) PROVE QuietInv'
    <3>0. /\ UNCHANGED <<pc, ipc, proc, quiet>> /\ ins[r][d] \in {"queued", "pair", "uuid"}
          /\ \E to \in {"pair", "uuid", "done"} : ins' = [ins EXCEPT ![r][d] = to]
      BY <2>9 DEF InsertStep, DeliverInsert, StorePair, StoreUuid, inits
    <3>1. \A q \in Reg, e \in Group : ins'[q][e] = "queued" => ins[q][e] = "queued"
      <4>1. ins \in [Reg -> [Group -> {"none", "queued", "pair", "uuid", "done", "failed"}]]
        BY DEF TypeOK
      <4>. QED  BY <3>0, <4>1
    <3>2. RegRunning
      BY <3>0 DEF RegRunning, InFlight
    <3>. QED  BY <2>0, <3>0, <3>1, <3>2 DEF Booting
  <2>10. ASSUME NEW u \in User, PostAuthentication(u) PROVE QuietInv'
    BY <2>1, <2>10 DEF PostAuthentication, reqs, inits
  <2>11. ASSUME NEW h \in AppGroup, NEW i \in InitReq, PostInitialize(i, h) PROVE QuietInv'
    <3>1. /\ UNCHANGED <<pc, ins, proc>> /\ ipc'[i] = "dropConfig"
          /\ \A j \in InitReq : j # i => ipc'[j] = ipc[j]
          /\ quiet' => quiet /\ ~InitRunning /\ ~RegRunning /\ ~Booting
      BY <2>11 DEF PostInitialize, reqs, TypeOK
    <3>. QED  BY <3>1 DEF InitRunning, RegRunning, Booting
  <2>12. CASE UNCHANGED vars
    BY <2>1, <2>12 DEF vars, reqs, inits
  <2>. QED
    BY <2>3, <2>4, <2>5, <2>6, <2>7, <2>8, <2>9, <2>10, <2>11, <2>12 DEF Next
<1>. QED  BY <1>1, <1>2, TypeCorrect, PTL DEF Spec

(* jia_service_url changes only between setConfig and the dropConfig of    *)
(* the next reset, and a quiet reset has no registration next to it.       *)
LEMMA UrlInvariant == Spec => []UrlInv
<1>1. Init => UrlInv
  BY RegistryAssumption DEF Init, UrlInv, Dropped
<1>2. TypeOK /\ QuietInv /\ UrlInv /\ [Next]_vars => UrlInv'
  <2>. SUFFICES ASSUME TypeOK, QuietInv, UrlInv, [Next]_vars PROVE UrlInv'
    OBVIOUS
  <2>. USE DEF UrlInv
  (* Steps that leave the URL, the rows and the resets alone; a death may  *)
  (* end a reset, but not while all is quiet.                              *)
  <2>0. ASSUME UNCHANGED <<config, isu>>, "config" \in tables => "config" \in tables',
               \A i \in InitReq : /\ ipc'[i] \in {"notify", "ok"} => ipc[i] \in {"notify", "ok"}
                                  /\ ipc[i] \in Dropped \cup Ended => ipc'[i] \in Dropped \cup Ended,
               quiet' => quiet /\ (\A i \in InitReq : ipc'[i] \in Dropped \ {"dropIsu"}
                                                       => ipc[i] \in Dropped \ {"dropIsu"}),
               \A r \in Reg : r \in isu \/ pc'[r] \in {"asking", "accepted"} =>
                  /\ r \in isu \/ pc[r] \in {"asking", "accepted"}
                  /\ target'[r] = target[r]
        PROVE  UrlInv'
    BY <2>0
  <2>1. CASE UNCHANGED <<tables, config, isu, ipc, pc, target, quiet>>
    BY <2>0, <2>1
  <2>2. ASSUME NEW h \in Group, NEW ld, NEW cn, HostDiesIn(h, ld, cn) PROVE UrlInv'
    <3>1. UNCHANGED <<tables, config, isu, target>> /\ (quiet' => quiet)
      BY <2>2 DEF HostDiesIn, db
    <3>2. \A i \in InitReq :
            \/ ipc'[i] = ipc[i]
            \/ ipc[i] \in InitPhase /\ ipc'[i] = "lost"
      BY <2>2 DEF HostDiesIn
    <3>3. \A r \in Reg : pc'[r] \in {pc[r], "lost"}
      BY <2>2 DEF HostDiesIn
    <3>. QED  BY <2>0, <3>1, <3>2, <3>3 DEF Dropped, Ended
  <2>3. ASSUME NEW h \in AppGroup, NEW r \in Reg, PostIsu(r, h) PROVE UrlInv'
    BY <2>0, <2>3 DEF PostIsu, db, inits, TypeOK
  <2>4. ASSUME NEW r \in Reg, RegStep(r) \/ CommitUnacknowledged(r) \/ Abort(r) PROVE UrlInv'
    <3>0. /\ UNCHANGED <<tables, config, ipc, quiet>> /\ pc[r] \in InFlight
          /\ \A q \in Reg : q # r => pc'[q] = pc[q] /\ target'[q] = target[q]
      BY <2>4 DEF RegStep, InsertIsuRow, ReadServiceURL, Activate, Commit, Respond,
                  CommitUnacknowledged, Abort, PcStep, InFlight, OpenTx, inits, TypeOK
    <3>1. CASE ReadServiceURL(r)
      <4>1. UNCHANGED isu /\ target'[r] = config
        BY <3>1 DEF ReadServiceURL, getJIAServiceURL, TypeOK
      <4>. QED  BY <3>0, <4>1
    <3>2. CASE Commit(r) \/ CommitUnacknowledged(r)
      <4>1. isu' = isu \cup {r} /\ UNCHANGED target /\ pc[r] = "accepted"
        BY <3>2 DEF Commit, CommitUnacknowledged, PcStep
      <4>2. quiet => \A i \in InitReq : ipc[i] \notin Dropped
        BY <3>0 DEF QuietInv, RegRunning, InitRunning, Dropped, InitPhase, Script
      <4>. QED  BY <3>0, <4>1, <4>2
    <3>3. CASE InsertIsuRow(r) \/ Activate(r) \/ Respond(r) \/ Abort(r)
      <4>1. UNCHANGED <<isu, target>> /\ (pc'[r] = "accepted" => pc[r] = "asking") /\ pc'[r] # "asking"
        BY <3>3 DEF InsertIsuRow, Activate, Respond, Abort, PcStep, TypeOK
      <4>. QED  BY <2>0, <3>0, <4>1
    <3>. QED  BY <2>4, <3>1, <3>2, <3>3 DEF RegStep
  <2>5. ASSUME NEW i \in InitReq, InitReqStep(i) PROVE UrlInv'
    <3>0. /\ UNCHANGED <<pc, target, quiet>> /\ ipc[i] \in InitPhase
          /\ \A j \in InitReq : j # i => ipc'[j] = ipc[j]
      BY <2>5 DEF InitReqStep, DropConfig, DropIsu, CreateTables, LoadIsu, LoadUser, SetConfig,
                  Initialized, InitStep, InitPhase, Script, reqs, TypeOK
    (* Quiet: the reset is alone. *)
    <3>1. quiet => \A j \in InitReq : j # i => ipc'[j] \notin Dropped
      BY <3>0 DEF QuietInv, Dropped, InitPhase, Script
    <3>2. CASE DropConfig(i)
      BY <3>0, <3>1, <3>2 DEF DropConfig, InitStep, TypeOK, Dropped
    <3>3. CASE DropIsu(i)
      <4>1. ipc'[i] = "create" /\ isu' = {} /\ config' = config
              /\ ("config" \in tables => "config" \in tables')
        BY <3>3 DEF DropIsu, InitStep, TypeOK
      <4>. QED  BY <3>0, <4>1 DEF Dropped
    <3>4. CASE CreateTables(i) \/ LoadUser(i)
      <4>1. /\ ipc[i] \in {"create", "loadUser"} /\ ipc'[i] \in {"loadIsu", "setConfig", "failed"}
            /\ UNCHANGED <<isu, config>> /\ ("config" \in tables => "config" \in tables')
        BY <3>4 DEF CreateTables, LoadUser, InitStep, TypeOK
      <4>. QED  BY <3>0, <4>1 DEF Dropped, Ended
    <3>5. CASE LoadIsu(i)
      <4>1. /\ ipc[i] = "loadIsu" /\ ipc'[i] \in {"loadUser", "failed"}
            /\ UNCHANGED <<config, tables>> /\ (isu' = isu \/ isu' = Seed)
        BY <3>5 DEF LoadIsu, InitStep, TypeOK
      <4>. QED  BY <3>0, <4>1, RegistryAssumption DEF Dropped, Ended
    <3>6. CASE SetConfig(i) /\ "config" \in tables
      <4>1. ipc[i] = "setConfig" /\ ipc'[i] = "notify" /\ config' = i /\ UNCHANGED <<tables, isu>>
        BY <3>6 DEF SetConfig, InitStep, TypeOK
      <4>2. quiet => Reg \cap isu = {} /\ \A r \in Reg : pc[r] \notin InFlight
        BY <4>1 DEF Dropped, QuietInv, RegRunning, InitRunning, InitPhase
      <4>3. quiet' => \A r \in Reg : r \notin isu' /\ pc'[r] \notin {"asking", "accepted"}
        BY <3>0, <4>1, <4>2 DEF InFlight, OpenTx
      <4>4. quiet' => \A j \in InitReq : ipc'[j] \notin Dropped
        BY <3>0, <3>1, <4>1 DEF Dropped
      <4>. QED  BY <3>0, <3>6, <4>1, <4>3, <4>4
    <3>7. CASE SetConfig(i) /\ "config" \notin tables
      <4>1. ipc[i] = "setConfig" /\ ipc'[i] = "failed" /\ UNCHANGED <<config, tables, isu>>
        BY <3>7 DEF SetConfig, InitStep, TypeOK
      <4>. QED  BY <3>0, <4>1 DEF Dropped, Ended
    <3>8. CASE Initialized(i)
      <4>1. ipc[i] = "notify" /\ ipc'[i] = "ok" /\ UNCHANGED <<config, tables, isu>>
        BY <3>8 DEF Initialized, InitStep, TypeOK, db
      <4>. QED  BY <2>0, <3>0, <4>1 DEF Dropped, Ended
    <3>. QED  BY <2>5, <3>2, <3>3, <3>4, <3>5, <3>6, <3>7, <3>8 DEF InitReqStep
  <2>6. ASSUME NEW i \in InitReq, NEW d \in Group, InitCallStep(i, d) PROVE UrlInv'
    BY <2>1, <2>2, <2>6 DEF InitCallStep, DeliverInit, InitPanics, db, reqs, inits
  <2>7. ASSUME NEW h \in Group, HostStep(h) \/ Crash(h) PROVE UrlInv'
    BY <2>1, <2>2, <2>7
    DEF HostStep, Listen, Register, Main, Serve, Advance, RpcFatal, Crash, HostDies,
        db, reqs, inits
  <2>8. ASSUME NEW h \in Group, NEW l \in Loader, LoadStep(h, l) PROVE UrlInv'
    BY <2>1, <2>2, <2>8
    DEF LoadStep, ClearPair, ClearUuid, SelectIsu, SelectFatal, FillPair, FillUuid, LoadDone,
        HostDies, db, reqs, inits
  <2>9. ASSUME NEW r \in Reg, NEW d \in Group, InsertStep(r, d) PROVE UrlInv'
    BY <2>1, <2>9 DEF InsertStep, DeliverInsert, StorePair, StoreUuid, db, inits
  <2>10. ASSUME NEW u \in User, PostAuthentication(u) PROVE UrlInv'
    BY <2>1, <2>10 DEF PostAuthentication, reqs, inits
  <2>11. ASSUME NEW h \in AppGroup, NEW i \in InitReq, PostInitialize(i, h) PROVE UrlInv'
    <3>1. ipc[i] = "new" /\ ipc'[i] = "dropConfig" /\ \A j \in InitReq : j # i => ipc'[j] = ipc[j]
      BY <2>11 DEF PostInitialize, TypeOK
    <3>. QED  BY <2>0, <2>11, <3>1 DEF PostInitialize, db, reqs, Dropped, Ended
  <2>12. CASE UNCHANGED vars
    BY <2>1, <2>12 DEF vars, db, reqs, inits
  <2>. QED
    BY <2>3, <2>4, <2>5, <2>6, <2>7, <2>8, <2>9, <2>10, <2>11, <2>12 DEF Next
<1>. QED  BY <1>1, <1>2, TypeCorrect, QuietInvariant, PTL DEF Spec

(* Once every reset that was sent has answered 200, activations go to a    *)
(* URL a reset was given (main.go:319-361, 680), whichever resets          *)
(* overlapped; and when nothing overlapped, every row was activated there. *)
THEOREM ActivationsGoToConfiguredURL == Spec => []ActivatedAtConfiguredURL
<1>1. TypeOK /\ UrlInv => ActivatedAtConfiguredURL
  <2>. SUFFICES ASSUME UrlInv, Settled PROVE /\ getJIAServiceURL \in InitReq
                                             /\ quiet => \A r \in Reg \cap isu : target[r] = config
    BY DEF ActivatedAtConfiguredURL
  <2>1. \A i \in InitReq : ipc[i] \notin Dropped \cup Ended
    BY DEF Settled, Dropped, Ended
  <2>2. config \in InitReq
    BY <2>1 DEF UrlInv, Settled
  <2>3. "config" \in tables
    BY <2>2, RegistryAssumption DEF UrlInv
  <2>. QED  BY <2>1, <2>2, <2>3 DEF UrlInv, getJIAServiceURL
<1>. QED  BY <1>1, TypeCorrect, UrlInvariant, PTL
-----------------------------------------------------------------------------
(* The broadcast of a registered row implements Broadcast, for every number *)
(* of processes, requests, resets and faults.  Most steps leave the calls   *)
(* as they are (SameView); a death ends the calls of its process, which     *)
(* are those whose COMMIT was acknowledged (AckInv, FreshInv).              *)

AckInv == \A r \in Reg : pc[r] = "committed" => r \in committed

CallOf(r) == CASE pc[r] = "committed" -> "open"
               [] pc[r] = "created" -> "returned"
               [] pc[r] = "lost" /\ r \in committed -> "dead"
               [] OTHER -> "new"
StartedOn(r)  == {d \in AppGroup : ins[r][d] \in {"pair", "uuid", "done", "failed"}}
FinishedOn(r) == {d \in AppGroup : ins[r][d] = "done"}

CallView     == [r \in Reg |-> CallOf(r)]
StartedView  == [r \in Reg |-> StartedOn(r)]
FinishedView == [r \in Reg |-> FinishedOn(r)]

SameCommitted == \A r \in Reg : r \in committed' <=> r \in committed

LEMMA SameView ==
  ASSUME UNCHANGED <<pc, ins>>, SameCommitted
  PROVE  UNCHANGED InsertIsuCall!vars
<1>1. \A r \in Reg : CallOf(r)' = CallOf(r)
  BY DEF CallOf, SameCommitted
<1>2. CallView' = CallView
  BY <1>1 DEF CallView
<1>3. UNCHANGED <<StartedView, FinishedView>>
  BY DEF StartedView, FinishedView, StartedOn, FinishedOn
<1> QED
  BY <1>2, <1>3 DEF InsertIsuCall!vars, CallView, StartedView, FinishedView,
     CallOf, StartedOn, FinishedOn

(* The steps before COMMIT, and those that end a request otherwise.        *)
LEMMA StillNew ==
  ASSUME UNCHANGED ins, NEW r \in Reg, CallOf(r) = "new", CallOf(r)' = "new",
         \A q \in Reg : q # r => CallOf(q)' = CallOf(q)
  PROVE  UNCHANGED InsertIsuCall!vars
<1>1. CallView' = CallView
  BY DEF CallView
<1>2. UNCHANGED <<StartedView, FinishedView>>
  BY DEF StartedView, FinishedView, StartedOn, FinishedOn
<1> QED
  BY <1>1, <1>2 DEF InsertIsuCall!vars, CallView, StartedView, FinishedView,
     CallOf, StartedOn, FinishedOn

LEMMA RequestStep ==
  ASSUME TypeOK, CallInv, FreshInv, NEW r \in Reg,
         InsertIsuRow(r) \/ ReadServiceURL(r) \/ Activate(r) \/ Abort(r) \/ CommitUnacknowledged(r)
  PROVE  UNCHANGED InsertIsuCall!vars
<1>1. PICK to \in {"refused", "inserted", "asking", "accepted"} :
        pc' = [pc EXCEPT ![r] = to] /\ pc[r] \in {"authed", "inserted", "asking", "accepted"}
  BY DEF InsertIsuRow, ReadServiceURL, Activate, Abort, CommitUnacknowledged, PcStep
<1>2. /\ pc'[r] = to /\ \A q \in Reg : q # r => pc'[q] = pc[q]
      /\ UNCHANGED ins
      /\ \A q \in Reg : q # r => (q \in committed' <=> q \in committed)
  BY <1>1 DEF InsertIsuRow, ReadServiceURL, Activate, Abort, CommitUnacknowledged, TypeOK
<1>3. CallOf(r) = "new" /\ CallOf(r)' = "new"
  BY <1>1, <1>2 DEF CallOf
<1>4. \A q \in Reg : q # r => CallOf(q)' = CallOf(q)
  BY <1>2 DEF CallOf
<1> QED
  BY <1>2, <1>3, <1>4, StillNew

LEMMA PostRefines ==
  ASSUME TypeOK, NEW r \in Reg, NEW h \in AppGroup, PostIsu(r, h)
  PROVE  UNCHANGED InsertIsuCall!vars
<1>1. /\ pc[r] = "new" /\ pc'[r] \in {"authed", "refused"}
      /\ \A q \in Reg : q # r => pc'[q] = pc[q]
      /\ UNCHANGED <<ins, committed>>
  BY DEF PostIsu, TypeOK
<1>2. CallOf(r) = "new" /\ CallOf(r)' = "new"
  BY <1>1 DEF CallOf
<1>3. \A q \in Reg : q # r => CallOf(q)' = CallOf(q)
  BY <1>1 DEF CallOf
<1> QED
  BY <1>1, <1>2, <1>3, StillNew

LEMMA CommitRefines ==
  ASSUME TypeOK, CallInv, NEW r \in Reg, Commit(r)
  PROVE  InsertIsuCall!Begin(r)
<1>1. /\ pc[r] = "accepted" /\ pc' = [pc EXCEPT ![r] = "committed"]
      /\ committed' = committed \cup {r}
      /\ ins' = [ins EXCEPT ![r] = [d \in Group |-> IF d \in AppGroup THEN "queued" ELSE "none"]]
  BY DEF Commit, PcStep
<1>2. \A q \in Reg : CallOf(q)' = IF q = r THEN "open" ELSE CallOf(q)
  BY <1>1 DEF CallOf, TypeOK
<1>3. CallView' = [CallView EXCEPT ![r] = "open"]
  BY <1>2 DEF CallView
<1>4. CallView[r] = "new"
  BY <1>1 DEF CallView, CallOf
<1>5. \A d \in AppGroup : ins[r][d] = "none" /\ ins'[r][d] = "queued"
  <2>1. \A d \in AppGroup : d \in Group
    BY RegistryAssumption
  <2>2. \A d \in Group : ins[r][d] = "none"
    BY <1>1 DEF CallInv
  <2>3. ins'[r] = [d \in Group |-> IF d \in AppGroup THEN "queued" ELSE "none"]
    BY <1>1 DEF TypeOK
  <2> QED
    BY <2>1, <2>2, <2>3
<1>6. \A q \in Reg : q # r => ins'[q] = ins[q]
  BY <1>1 DEF TypeOK
<1>7. \A q \in Reg : StartedOn(q)' = StartedOn(q) /\ FinishedOn(q)' = FinishedOn(q)
  BY <1>5, <1>6 DEF StartedOn, FinishedOn
<1>8. UNCHANGED <<StartedView, FinishedView>>
  BY <1>7 DEF StartedView, FinishedView
<1> QED
  BY <1>3, <1>4, <1>8 DEF InsertIsuCall!Begin, CallView, StartedView, FinishedView,
     CallOf, StartedOn, FinishedOn

LEMMA RespondRefines ==
  ASSUME TypeOK, NEW r \in Reg, Respond(r)
  PROVE  InsertIsuCall!Return(r)
<1>1. /\ pc[r] = "committed" /\ pc' = [pc EXCEPT ![r] = "created"]
      /\ UNCHANGED <<committed, ins>>
  BY DEF Respond, PcStep
<1>2. \A q \in Reg : CallOf(q)' = IF q = r THEN "returned" ELSE CallOf(q)
  BY <1>1 DEF CallOf, TypeOK
<1>3. CallView' = [CallView EXCEPT ![r] = "returned"]
  BY <1>2 DEF CallView
<1>4. CallView[r] = "open" /\ FinishedView[r] = AppGroup
  BY <1>1 DEF CallView, CallOf, Respond, FinishedView, FinishedOn
<1>5. UNCHANGED <<StartedView, FinishedView>>
  BY <1>1 DEF StartedView, FinishedView, StartedOn, FinishedOn
<1> QED
  BY <1>3, <1>4, <1>5 DEF InsertIsuCall!Return, CallView, StartedView, FinishedView,
     CallOf, StartedOn, FinishedOn

(* InsertIsu begins and ends on a process, also for a caller that is dead. *)
LEMMA InsertRefines ==
  ASSUME TypeOK, CallInv, CommitInv, NEW r \in Reg, NEW d \in Group, InsertStep(r, d)
  PROVE  [InsertIsuCall!Next]_InsertIsuCall!vars
<1>1. /\ UNCHANGED <<pc, committed>>
      /\ \/ ins[r][d] = "queued" /\ ins' = [ins EXCEPT ![r][d] = "pair"]
         \/ ins[r][d] = "pair" /\ ins' = [ins EXCEPT ![r][d] = "uuid"]
         \/ ins[r][d] = "uuid" /\ ins' = [ins EXCEPT ![r][d] = "done"]
  BY DEF InsertStep, DeliverInsert, StorePair, StoreUuid
<1>2. PICK to \in {"pair", "uuid", "done"} :
        /\ ins' = [ins EXCEPT ![r][d] = to]
        /\ to = "pair" => ins[r][d] = "queued"
        /\ to = "uuid" => ins[r][d] = "pair"
        /\ to = "done" => ins[r][d] = "uuid"
  BY <1>1
<1>3. \A q \in Reg, e \in Group :
        ins'[q][e] = IF q = r /\ e = d THEN to ELSE ins[q][e]
  BY <1>2 DEF TypeOK
<1>4. \A e \in AppGroup : e \in Group
  BY RegistryAssumption
<1>5. UNCHANGED CallView
  BY <1>1 DEF CallView, CallOf
<1>6. \A q \in Reg : q # r => StartedOn(q)' = StartedOn(q) /\ FinishedOn(q)' = FinishedOn(q)
  BY <1>3, <1>4 DEF StartedOn, FinishedOn
<1>7. CASE d \notin AppGroup \/ to = "uuid"
  <2>1. StartedOn(r)' = StartedOn(r) /\ FinishedOn(r)' = FinishedOn(r)
    BY <1>2, <1>3, <1>4, <1>7 DEF StartedOn, FinishedOn
  <2>2. UNCHANGED <<StartedView, FinishedView>>
    BY <1>6, <2>1 DEF StartedView, FinishedView
  <2> QED
    BY <1>5, <2>2 DEF InsertIsuCall!vars, CallView, StartedView, FinishedView,
       CallOf, StartedOn, FinishedOn
<1>8. CASE d \in AppGroup /\ to = "pair"
  <2>1. CallView[r] \in {"open", "dead"}
    <3>1. r \in committed /\ pc[r] \in {"committed", "lost"}
      BY <1>2, <1>8 DEF CommitInv, CallInv
    <3> QED
      BY <3>1 DEF CallView, CallOf
  <2>2. /\ StartedOn(r)' = StartedOn(r) \cup {d} /\ d \notin StartedOn(r)
        /\ FinishedOn(r)' = FinishedOn(r)
    BY <1>2, <1>3, <1>4, <1>8 DEF StartedOn, FinishedOn
  <2>3. StartedView' = [StartedView EXCEPT ![r] = @ \cup {d}]
    BY <1>6, <2>2 DEF StartedView
  <2>4. UNCHANGED FinishedView /\ d \notin StartedView[r]
    BY <1>6, <2>2 DEF StartedView, FinishedView
  <2>5. InsertIsuCall!Start(r, d)
    BY <1>5, <2>1, <2>3, <2>4 DEF InsertIsuCall!Start, CallView, StartedView, FinishedView,
       CallOf, StartedOn, FinishedOn
  <2> QED
    BY <1>8, <2>5 DEF InsertIsuCall!Next
<1>9. CASE d \in AppGroup /\ to = "done"
  <2>1. /\ FinishedOn(r)' = FinishedOn(r) \cup {d} /\ d \in StartedOn(r) \ FinishedOn(r)
        /\ StartedOn(r)' = StartedOn(r)
    BY <1>2, <1>3, <1>4, <1>9 DEF StartedOn, FinishedOn
  <2>2. FinishedView' = [FinishedView EXCEPT ![r] = @ \cup {d}]
    BY <1>6, <2>1 DEF FinishedView
  <2>3. UNCHANGED StartedView /\ d \in StartedView[r] \ FinishedView[r]
    BY <1>6, <2>1 DEF StartedView, FinishedView
  <2>4. InsertIsuCall!Finish(r, d)
    BY <1>5, <2>2, <2>3 DEF InsertIsuCall!Finish, CallView, StartedView, FinishedView,
       CallOf, StartedOn, FinishedOn
  <2> QED
    BY <1>9, <2>4 DEF InsertIsuCall!Next
<1> QED
  BY <1>2, <1>7, <1>8, <1>9

(* The death of a process is the end of the calls it was making.           *)
LEMMA DeathRefines ==
  ASSUME TypeOK, FreshInv, AckInv, NEW h \in Group, NEW ld, NEW cn, HostDiesIn(h, ld, cn)
  PROVE  InsertIsuCall!Next
<1>0. PICK C \in SUBSET Reg : \A r \in Reg : r \in C <=> host[r] = h /\ pc[r] = "committed"
  <2> DEFINE D == {r \in Reg : host[r] = h /\ pc[r] = "committed"}
  <2>1. D \in SUBSET Reg /\ \A r \in Reg : r \in D <=> host[r] = h /\ pc[r] = "committed"
    OBVIOUS
  <2> QED
    BY <2>1
<1>1. \A r \in Reg : /\ pc'[r] = (IF host[r] = h /\ pc[r] \in InFlight THEN "lost" ELSE pc[r])
                     /\ r \in committed' <=> r \in committed
  BY DEF HostDiesIn
<1>2. ASSUME NEW r \in Reg PROVE CallOf(r)' = IF r \in C THEN "dead" ELSE CallOf(r)
  <2>1. CASE r \in C
    BY <1>0, <1>1, <2>1 DEF CallOf, AckInv, InFlight
  <2>2. CASE pc'[r] = pc[r]
    BY <1>0, <1>1, <2>2 DEF CallOf, InFlight
  <2>3. CASE pc[r] \in {"authed"} \cup OpenTx /\ pc'[r] = "lost"
    <3>1. r \notin committed /\ r \notin committed'
      BY <1>1, <2>3 DEF FreshInv
    <3>2. CallOf(r)' = "new" /\ CallOf(r) = "new"
      BY <2>3, <3>1 DEF CallOf, OpenTx
    <3>3. r \notin C
      BY <1>0, <2>3 DEF OpenTx
    <3> QED
      BY <3>2, <3>3
  <2> QED
    BY <1>0, <1>1, <2>1, <2>2, <2>3 DEF InFlight
<1>3. CallView' = [r \in Reg |-> IF r \in C THEN "dead" ELSE CallView[r]]
  BY <1>2 DEF CallView
<1>4. \A r \in C : CallView[r] = "open"
  BY <1>0 DEF CallView, CallOf
<1>5. \A r \in Reg, d \in AppGroup :
        /\ ins'[r][d] \in {"pair", "uuid", "done", "failed"} <=>
             ins[r][d] \in {"pair", "uuid", "done", "failed"}
        /\ ins'[r][d] = "done" <=> ins[r][d] = "done"
  BY RegistryAssumption DEF HostDiesIn
<1>6. UNCHANGED <<StartedView, FinishedView>>
  BY <1>5 DEF StartedView, FinishedView, StartedOn, FinishedOn
<1>7. InsertIsuCall!Die(C)
  BY <1>3, <1>4, <1>6 DEF InsertIsuCall!Die, CallView, StartedView, FinishedView,
     CallOf, StartedOn, FinishedOn
<1> QED
  BY <1>7 DEF InsertIsuCall!Next

LEMMA AckStep == TypeOK /\ AckInv /\ [Next]_vars => AckInv'
<1> SUFFICES ASSUME TypeOK, AckInv, [Next]_vars PROVE AckInv'
  OBVIOUS
<1>1. ASSUME committed \subseteq committed',
             \A r \in Reg : pc'[r] = "committed" => pc[r] = "committed" \/ r \in committed'
      PROVE  AckInv'
  BY <1>1 DEF AckInv
<1>2. ASSUME NEW h \in Group, NEW ld, NEW cn, HostDiesIn(h, ld, cn) PROVE AckInv'
  BY <1>1, <1>2 DEF HostDiesIn
<1>3. ASSUME NEW r \in Reg, RegStep(r) \/ CommitUnacknowledged(r) \/ Abort(r) PROVE AckInv'
  BY <1>1, <1>3 DEF RegStep, InsertIsuRow, ReadServiceURL, Activate, Commit, Respond,
     CommitUnacknowledged, Abort, PcStep, TypeOK
<1>4. ASSUME NEW h \in AppGroup, NEW r \in Reg, PostIsu(r, h) PROVE AckInv'
  BY <1>1, <1>4 DEF PostIsu, TypeOK
<1>5. ASSUME NEW i \in InitReq, InitReqStep(i) PROVE AckInv'
  BY <1>1, <1>5 DEF InitReqStep, DropConfig, DropIsu, CreateTables, LoadIsu, LoadUser, SetConfig,
     Initialized, InitStep, reqs
<1>6. ASSUME UNCHANGED <<pc, committed>> PROVE AckInv'
  BY <1>6 DEF AckInv
<1>7. ASSUME NEW h \in Group, HostStep(h) \/ Crash(h) PROVE AckInv'
  BY <1>2, <1>6, <1>7
  DEF HostStep, Listen, Register, Main, Serve, Advance, RpcFatal, Crash, HostDies, reqs
<1>8. ASSUME NEW h \in Group, NEW l \in Loader, LoadStep(h, l) PROVE AckInv'
  BY <1>2, <1>6, <1>8
  DEF LoadStep, ClearPair, ClearUuid, SelectIsu, SelectFatal, FillPair, FillUuid, LoadDone,
      HostDies, reqs
<1>9. ASSUME NEW i \in InitReq, NEW d \in Group, InitCallStep(i, d) PROVE AckInv'
  BY <1>2, <1>6, <1>9 DEF InitCallStep, DeliverInit, InitPanics, reqs
<1>10. ASSUME NEW r \in Reg, NEW d \in Group, InsertStep(r, d) PROVE AckInv'
  BY <1>6, <1>10 DEF InsertStep, DeliverInsert, StorePair, StoreUuid
<1>11. CASE \/ \E u \in User : PostAuthentication(u)
            \/ \E h \in AppGroup, i \in InitReq : PostInitialize(i, h)
            \/ UNCHANGED vars
  BY <1>6, <1>11 DEF PostAuthentication, PostInitialize, vars, reqs
<1> QED
  BY <1>3, <1>4, <1>5, <1>7, <1>8, <1>9, <1>10, <1>11 DEF Next

LEMMA StepRefines ==
  ASSUME TypeOK, CallInv, CommitInv, FreshInv, AckInv, [Next]_vars
  PROVE  [InsertIsuCall!Next]_InsertIsuCall!vars
<1>1. ASSUME UNCHANGED <<pc, ins, committed>> PROVE UNCHANGED InsertIsuCall!vars
  BY <1>1, SameView DEF SameCommitted
<1>2. ASSUME NEW r \in Reg, RegStep(r) \/ CommitUnacknowledged(r) \/ Abort(r)
      PROVE  [InsertIsuCall!Next]_InsertIsuCall!vars
  BY <1>2, RequestStep, CommitRefines, RespondRefines DEF RegStep, InsertIsuCall!Next
<1>3. ASSUME NEW h \in AppGroup, NEW r \in Reg, PostIsu(r, h)
      PROVE  [InsertIsuCall!Next]_InsertIsuCall!vars
  BY <1>3, PostRefines
<1>4. ASSUME NEW r \in Reg, NEW d \in Group, InsertStep(r, d)
      PROVE  [InsertIsuCall!Next]_InsertIsuCall!vars
  BY <1>4, InsertRefines
<1>5. ASSUME NEW i \in InitReq, InitReqStep(i) PROVE UNCHANGED InsertIsuCall!vars
  <2>1. UNCHANGED <<pc, ins>>
    BY <1>5 DEF InitReqStep, DropConfig, DropIsu, CreateTables, LoadIsu, LoadUser, SetConfig,
       Initialized, InitStep, reqs
  <2>2. committed' \in {committed, committed \cup Seed}
    BY <1>5 DEF InitReqStep, DropConfig, DropIsu, CreateTables, LoadIsu, LoadUser, SetConfig,
       Initialized, InitStep
  <2>3. SameCommitted
    BY <2>2, RegistryAssumption DEF SameCommitted
  <2> QED
    BY <2>1, <2>3, SameView
<1>6. ASSUME NEW h \in Group, HostStep(h) \/ Crash(h)
      PROVE  [InsertIsuCall!Next]_InsertIsuCall!vars
  BY <1>1, <1>6, DeathRefines
  DEF HostStep, Listen, Register, Main, Serve, Advance, RpcFatal, Crash, HostDies, reqs
<1>7. ASSUME NEW h \in Group, NEW l \in Loader, LoadStep(h, l)
      PROVE  [InsertIsuCall!Next]_InsertIsuCall!vars
  BY <1>1, <1>7, DeathRefines
  DEF LoadStep, ClearPair, ClearUuid, SelectIsu, SelectFatal, FillPair, FillUuid, LoadDone,
      HostDies, reqs
<1>8. ASSUME NEW i \in InitReq, NEW d \in Group, InitCallStep(i, d)
      PROVE  [InsertIsuCall!Next]_InsertIsuCall!vars
  BY <1>1, <1>8, DeathRefines DEF InitCallStep, DeliverInit, InitPanics, reqs
<1>9. CASE \/ \E u \in User : PostAuthentication(u)
           \/ \E h \in AppGroup, i \in InitReq : PostInitialize(i, h)
           \/ UNCHANGED vars
  BY <1>1, <1>9 DEF PostAuthentication, PostInitialize, vars, reqs
<1> QED
  BY <1>2, <1>3, <1>4, <1>5, <1>6, <1>7, <1>8, <1>9 DEF Next

(* What POST /api/isu does after its COMMIT is a call that Broadcast       *)
(* allows: at most one InsertIsu on each process, and 201 only after all   *)
(* of them, whatever processes die and whatever resets run.                *)
THEOREM InsertIsuImplementsBroadcast == Spec => InsertIsuIsBroadcast
<1>1. Init => InsertIsuCall!Init
  <2> SUFFICES ASSUME Init PROVE InsertIsuCall!Init
    OBVIOUS
  <2>1. \A r \in Reg : CallOf(r) = "new" /\ StartedOn(r) = {} /\ FinishedOn(r) = {}
    BY RegistryAssumption DEF Init, CallOf, StartedOn, FinishedOn
  <2> QED
    BY <2>1 DEF InsertIsuCall!Init, CallOf, StartedOn, FinishedOn
<1>2. Init => AckInv
  BY DEF Init, AckInv
<1> QED
  BY <1>1, <1>2, AckStep, StepRefines, TypeCorrect, CallInvariant, CommitInvariant,
     FreshInvariant, PTL DEF Spec, InsertIsuIsBroadcast, InsertIsuCall!Spec

-----------------------------------------------------------------------------
(* An open transaction keeps its uuid for itself: it waits for the others  *)
(* with the same one, and DDL and seeds wait for it.                       *)
OwnUuid == \A x, y \in isu : UuidOf[x] = UuidOf[y] => x = y

TxInv ==
  /\ \A q, r \in Reg : pc[q] \in OpenTx /\ pc[r] \in OpenTx /\ UuidOf[q] = UuidOf[r] => q = r
  /\ \A r \in Reg : pc[r] \in OpenTx => \A x \in isu : UuidOf[x] # UuidOf[r]
  /\ OwnUuid

(* INSERT makes a transaction open and COMMIT makes it a row; every other  *)
(* step leaves the open transactions and the rows alone, or fewer of them. *)
LEMMA TxStep == TypeOK /\ TxInv /\ [Next]_vars => TxInv'
<1> SUFFICES ASSUME TypeOK, TxInv, [Next]_vars PROVE TxInv'
  OBVIOUS
<1>1. ASSUME \A r \in Reg : pc'[r] \in OpenTx => pc[r] \in OpenTx, isu' = isu
      PROVE  TxInv'
  BY <1>1 DEF TxInv, OwnUuid
<1>2. ASSUME UNCHANGED <<pc, isu>> PROVE TxInv'
  BY <1>1, <1>2
<1>3. ASSUME NEW h \in Group, NEW ld, NEW cn, HostDiesIn(h, ld, cn) PROVE TxInv'
  <2>1. \A r \in Reg : pc'[r] \in {pc[r], "lost"}
    BY <1>3 DEF HostDiesIn
  <2>2. isu' = isu
    BY <1>3 DEF HostDiesIn, db
  <2>. QED  BY <1>1, <2>1, <2>2 DEF OpenTx
<1>4. ASSUME NEW r \in Reg, InsertIsuRow(r) PROVE TxInv'
  <2>1. PICK to \in {"inserted", "refused"} :
          /\ pc' = [pc EXCEPT ![r] = to] /\ isu' = isu
          /\ to = "inserted" => \A x \in isu : UuidOf[x] # UuidOf[r]
    BY <1>4 DEF InsertIsuRow, PcStep
  <2>2. \A q \in Reg : pc'[q] = IF q = r THEN to ELSE pc[q]
    BY <2>1 DEF TypeOK
  <2>3. \A q \in Reg : pc[q] \in OpenTx => UuidOf[q] # UuidOf[r]
    BY <1>4 DEF InsertIsuRow
  <2>. QED  BY <2>1, <2>2, <2>3 DEF TxInv, OwnUuid, OpenTx
<1>5. ASSUME NEW r \in Reg, ReadServiceURL(r) \/ Activate(r) \/ Abort(r) \/ Respond(r) PROVE TxInv'
  <2>1. PICK to \in {"asking", "accepted", "refused", "created"} :
          /\ pc' = [pc EXCEPT ![r] = to] /\ isu' = isu
          /\ to \in {"asking", "accepted"} => pc[r] \in OpenTx
    BY <1>5 DEF ReadServiceURL, Activate, Abort, Respond, PcStep, OpenTx
  <2>2. \A q \in Reg : pc'[q] = IF q = r THEN to ELSE pc[q]
    BY <2>1 DEF TypeOK
  <2>. QED  BY <1>1, <2>1, <2>2 DEF OpenTx
<1>6. ASSUME NEW r \in Reg, Commit(r) \/ CommitUnacknowledged(r) PROVE TxInv'
  <2>1. PICK to \in {"committed", "refused"} :
          pc' = [pc EXCEPT ![r] = to] /\ isu' = isu \cup {r} /\ pc[r] = "accepted"
    BY <1>6 DEF Commit, CommitUnacknowledged, PcStep
  <2>2. \A q \in Reg : pc'[q] = IF q = r THEN to ELSE pc[q]
    BY <2>1 DEF TypeOK
  <2>3. pc[r] \in OpenTx /\ to \notin OpenTx
    BY <2>1 DEF OpenTx
  <2>. QED  BY <2>1, <2>2, <2>3 DEF TxInv, OwnUuid
<1>7. ASSUME NEW h \in AppGroup, NEW r \in Reg, PostIsu(r, h) PROVE TxInv'
  <2>1. PICK to \in {"authed", "refused"} : pc' = [pc EXCEPT ![r] = to] /\ isu' = isu
    BY <1>7 DEF PostIsu, db
  <2>2. \A q \in Reg : pc'[q] = IF q = r THEN to ELSE pc[q]
    BY <2>1 DEF TypeOK
  <2>. QED  BY <1>1, <2>1, <2>2 DEF OpenTx
<1>8. ASSUME NEW i \in InitReq, DropIsu(i) PROVE TxInv'
  <2>1. pc' = pc /\ isu' = {}
    BY <1>8 DEF DropIsu, InitStep, reqs
  <2>. QED  BY <2>1 DEF TxInv, OwnUuid
<1>9. ASSUME NEW i \in InitReq, LoadIsu(i) PROVE TxInv'
  <2>1. pc' = pc /\ isu' \in {isu, Seed} /\ \A r \in Reg : pc[r] \notin OpenTx
    BY <1>9 DEF LoadIsu, InitStep, reqs
  <2>. QED  BY <2>1, RegistryAssumption DEF TxInv, OwnUuid
<1>10. ASSUME NEW i \in InitReq, InitReqStep(i) PROVE TxInv'
  BY <1>2, <1>8, <1>9, <1>10
  DEF InitReqStep, DropConfig, CreateTables, LoadUser, SetConfig, Initialized, InitStep, reqs, db
<1>11. ASSUME NEW r \in Reg, RegStep(r) \/ CommitUnacknowledged(r) \/ Abort(r) PROVE TxInv'
  BY <1>4, <1>5, <1>6, <1>11 DEF RegStep
<1>12. ASSUME NEW h \in Group, HostStep(h) \/ Crash(h) PROVE TxInv'
  BY <1>2, <1>3, <1>12
  DEF HostStep, Listen, Register, Main, Serve, Advance, RpcFatal, Crash, HostDies, reqs, db
<1>13. ASSUME NEW h \in Group, NEW l \in Loader, LoadStep(h, l) PROVE TxInv'
  BY <1>2, <1>3, <1>13
  DEF LoadStep, ClearPair, ClearUuid, SelectIsu, SelectFatal, FillPair, FillUuid, LoadDone,
      HostDies, reqs, db
<1>14. ASSUME NEW i \in InitReq, NEW d \in Group, InitCallStep(i, d) PROVE TxInv'
  BY <1>2, <1>3, <1>14 DEF InitCallStep, DeliverInit, InitPanics, reqs, db
<1>15. ASSUME NEW r \in Reg, NEW d \in Group, InsertStep(r, d) PROVE TxInv'
  BY <1>2, <1>15 DEF InsertStep, DeliverInsert, StorePair, StoreUuid, db
<1>16. CASE \/ \E u \in User : PostAuthentication(u)
            \/ \E h \in AppGroup, i \in InitReq : PostInitialize(i, h)
            \/ UNCHANGED vars
  BY <1>2, <1>16 DEF PostAuthentication, PostInitialize, vars, reqs, db
<1>. QED  BY <1>7, <1>10, <1>11, <1>12, <1>13, <1>14, <1>15, <1>16 DEF Next

(* No two open transactions are for one ISU, no row is for the ISU of an   *)
(* open transaction, and no two rows are for one ISU.                      *)
LEMMA TxInvariant == Spec => []TxInv
<1>1. Init => TxInv
  BY RegistryAssumption DEF Init, TxInv, OwnUuid, OpenTx
<1>. QED  BY <1>1, TxStep, TypeCorrect, PTL DEF Spec

(* The table never has two rows for an ISU, however many requests for it   *)
(* overlap, whatever is committed without an answer, and across resets.    *)
THEOREM OneRowPerIsu == Spec => []OwnUuid
BY TxInvariant, PTL DEF TxInv

-----------------------------------------------------------------------------
RequestView == [r \in Reg |-> RequestState(pc[r])]

(* What touches neither a request, the rows nor JIA is a stutter.          *)
LEMMA SameRequests ==
  ASSUME UNCHANGED <<pc, isu, activated>>
  PROVE  UNCHANGED Registration!vars
BY DEF Registration!vars, RequestState

(* One request goes on, and its state with it.                             *)
LEMMA RequestMoves ==
  ASSUME TypeOK, NEW r \in Reg, NEW to, pc' = [pc EXCEPT ![r] = to]
  PROVE  /\ RequestView' = [RequestView EXCEPT ![r] = RequestState(to)]
         /\ RequestView[r] = RequestState(pc[r])
         /\ RequestState(to) = RequestState(pc[r]) => RequestView' = RequestView
<1>1. \A q \in Reg : pc'[q] = IF q = r THEN to ELSE pc[q]
  BY DEF TypeOK
<1>2. RequestView' = [q \in Reg |-> RequestState(pc'[q])]
  BY DEF RequestView, RequestState
<1>3. RequestView' = [q \in Reg |-> IF q = r THEN RequestState(to) ELSE RequestState(pc[q])]
  BY <1>1, <1>2
<1>. QED  BY <1>3 DEF RequestView

(* A request is open until its COMMIT or its refusal.                      *)
LEMMA RequestStates ==
  /\ \A p \in {"new", "authed", "inserted", "asking", "accepted"} : RequestState(p) = "open"
  /\ RequestState("committed") = "made" /\ RequestState("created") = "created"
  /\ RequestState("refused") = "refused" /\ RequestState("lost") = "lost"
BY DEF RequestState, OpenTx

(* Every statement of the transaction but COMMIT leaves the table as it is.*)
LEMMA StatementRefines ==
  ASSUME TypeOK, NEW r \in Reg,
         \/ \E h \in AppGroup : PostIsu(r, h)
         \/ InsertIsuRow(r) \/ ReadServiceURL(r) \/ Activate(r) \/ Abort(r)
  PROVE  [Registration!Next]_Registration!vars
<1>1. PICK to \in {"authed", "inserted", "asking", "accepted", "refused"} :
        /\ pc' = [pc EXCEPT ![r] = to] /\ isu' = isu
        /\ pc[r] \in {"new", "authed", "inserted", "asking", "accepted"}
        /\ activated' \in {activated, activated \cup {UuidOf[r]}}
  BY DEF PostIsu, InsertIsuRow, ReadServiceURL, Activate, Abort, PcStep, db
<1>2. RequestView[r] = "open" /\ RequestView[r] = RequestState(pc[r])
  BY <1>1, RequestMoves, RequestStates
<1>0. /\ RequestView' = [RequestView EXCEPT ![r] = RequestState(to)]
      /\ RequestState(to) = RequestState(pc[r]) => RequestView' = RequestView
  <2>1. pc' = [pc EXCEPT ![r] = to]
    BY <1>1
  <2>. QED  BY <2>1, RequestMoves
<1>3. CASE to = "refused"
  <2>1. RequestView' = [RequestView EXCEPT ![r] = "refused"]
    BY <1>0, <1>3, RequestStates
  <2>2. Registration!Refuse(r)
    BY <1>1, <1>2, <2>1 DEF Registration!Refuse, RequestView
  <2>. QED  BY <2>2 DEF Registration!Next
<1>4. CASE to # "refused"
  <2>1. RequestView' = RequestView
    BY <1>0, <1>1, <1>2, <1>4, RequestStates
  <2>2. CASE activated' = activated
    BY <1>1, <2>1, <2>2 DEF Registration!vars, RequestView
  <2>3. CASE activated' = activated \cup {UuidOf[r]}
    <3>1. Registration!Accept(r)
      BY <1>1, <1>2, <2>1, <2>3 DEF Registration!Accept, RequestView
    <3>. QED  BY <3>1 DEF Registration!Next
  <2>. QED  BY <1>1, <2>2, <2>3
<1>. QED  BY <1>3, <1>4

LEMMA RegisterRefines ==
  ASSUME TypeOK, ActivationInv, TxInv, NEW r \in Reg, Commit(r) \/ CommitUnacknowledged(r)
  PROVE  Registration!Register(r)
<1>1. PICK to \in {"committed", "refused"} :
        /\ pc' = [pc EXCEPT ![r] = to] /\ pc[r] = "accepted"
        /\ isu' = isu \cup {r} /\ activated' = activated
  BY DEF Commit, CommitUnacknowledged, PcStep
<1>2. RequestView[r] = "open" /\ RequestView' = [RequestView EXCEPT ![r] = RequestState(to)]
  BY <1>1, RequestMoves, RequestStates
<1>3. RequestState(to) \in {"made", "refused"}
  BY RequestStates
<1>4. UuidOf[r] \in activated /\ \A x \in isu : UuidOf[x] # UuidOf[r]
  BY <1>1 DEF ActivationInv, TxInv, OpenTx
<1>. QED  BY <1>1, <1>2, <1>3, <1>4
     DEF Registration!Register, Registration!Unregistered, RequestView

(* The 201 is the answer of a registration that has been made.             *)
LEMMA AnswerRefines ==
  ASSUME TypeOK, NEW r \in Reg, Respond(r)
  PROVE  Registration!Answer(r)
<1>1. /\ pc' = [pc EXCEPT ![r] = "created"] /\ pc[r] = "committed"
      /\ UNCHANGED <<isu, activated>>
  BY DEF Respond, PcStep
<1>0. RequestView' = [RequestView EXCEPT ![r] = RequestState("created")]
      /\ RequestView[r] = RequestState(pc[r])
  BY <1>1, RequestMoves
<1>2. RequestView[r] = "made" /\ RequestView' = [RequestView EXCEPT ![r] = "created"]
  BY <1>0, <1>1, RequestStates
<1>. QED  BY <1>1, <1>2 DEF Registration!Answer, RequestView

(* A transaction that was open at the death is rolled back.                *)
LEMMA DeathLosesRequests ==
  ASSUME TypeOK, NEW h \in Group, NEW ld, NEW cn, HostDiesIn(h, ld, cn)
  PROVE  Registration!Next
<1>1. PICK R \in SUBSET Reg : \A r \in Reg : r \in R <=> host[r] = h /\ pc[r] \in InFlight
  <2> DEFINE D == {r \in Reg : host[r] = h /\ pc[r] \in InFlight}
  <2>1. D \in SUBSET Reg /\ \A r \in Reg : r \in D <=> host[r] = h /\ pc[r] \in InFlight
    OBVIOUS
  <2>. QED  BY <2>1
<1>2. \A r \in Reg : pc'[r] = IF r \in R THEN "lost" ELSE pc[r]
  BY <1>1 DEF HostDiesIn
<1>3. RequestView' = [r \in Reg |-> RequestState(pc'[r])]
  BY DEF RequestView, RequestState
<1>4. RequestView' = [r \in Reg |-> IF r \in R THEN "lost" ELSE RequestView[r]]
  BY <1>2, <1>3, RequestStates DEF RequestView
<1>5. \A r \in R : RequestView[r] \in {"open", "made"}
  <2> SUFFICES ASSUME NEW r \in R PROVE RequestView[r] \in {"open", "made"}
    OBVIOUS
  <2>1. pc[r] \in {"authed", "inserted", "asking", "accepted", "committed"}
    BY <1>1 DEF InFlight, OpenTx
  <2>. QED  BY <2>1, RequestStates DEF RequestView
<1>6. UNCHANGED <<isu, activated>>
  BY DEF HostDiesIn, db
<1>7. Registration!Die(R)
  BY <1>4, <1>5, <1>6 DEF Registration!Die, RequestView
<1>. QED  BY <1>7 DEF Registration!Next

(* Every step of the detailed model is a step of the registry or a stutter. *)
LEMMA RegistrationStep ==
  ASSUME TypeOK, ActivationInv, TxInv, [Next]_vars
  PROVE  [Registration!Next]_Registration!vars
<1>1. ASSUME NEW r \in Reg, RegStep(r) \/ CommitUnacknowledged(r) \/ Abort(r)
      PROVE  [Registration!Next]_Registration!vars
  BY <1>1, StatementRefines, RegisterRefines, AnswerRefines DEF RegStep, Registration!Next
<1>2. ASSUME NEW h \in AppGroup, NEW r \in Reg, PostIsu(r, h)
      PROVE  [Registration!Next]_Registration!vars
  BY <1>2, StatementRefines
<1>3. ASSUME NEW i \in InitReq, InitReqStep(i) PROVE [Registration!Next]_Registration!vars
  <2>1. UNCHANGED <<pc, activated>>
    BY <1>3 DEF InitReqStep, DropConfig, DropIsu, CreateTables, LoadIsu, LoadUser, SetConfig,
       Initialized, InitStep, reqs
  <2>2. RequestView' = RequestView
    BY <2>1 DEF RequestView, RequestState
  <2>3. isu' = isu \/ isu' = {} \/ (isu = {} /\ isu' = Seed)
    BY <1>3 DEF InitReqStep, DropConfig, DropIsu, CreateTables, LoadIsu, LoadUser, SetConfig,
       Initialized, InitStep, db
  <2>4. CASE isu' = isu
    BY <2>1, <2>4, SameRequests
  <2>5. CASE isu' = {}
    <3>1. Registration!Drop
      BY <2>1, <2>2, <2>5 DEF Registration!Drop, RequestView
    <3>. QED  BY <3>1 DEF Registration!Next
  <2>6. CASE isu = {} /\ isu' = Seed
    <3>1. Registration!Reload
      BY <2>1, <2>2, <2>6 DEF Registration!Reload, RequestView
    <3>. QED  BY <3>1 DEF Registration!Next
  <2>. QED  BY <2>3, <2>4, <2>5, <2>6
<1>4. ASSUME NEW h \in Group, HostStep(h) \/ Crash(h)
      PROVE  [Registration!Next]_Registration!vars
  BY <1>4, SameRequests, DeathLosesRequests
  DEF HostStep, Listen, Register, Main, Serve, Advance, RpcFatal, Crash, HostDies, reqs, db
<1>5. ASSUME NEW h \in Group, NEW l \in Loader, LoadStep(h, l)
      PROVE  [Registration!Next]_Registration!vars
  BY <1>5, SameRequests, DeathLosesRequests
  DEF LoadStep, ClearPair, ClearUuid, SelectIsu, SelectFatal, FillPair, FillUuid, LoadDone,
      HostDies, reqs, db
<1>6. ASSUME NEW i \in InitReq, NEW d \in Group, InitCallStep(i, d)
      PROVE  [Registration!Next]_Registration!vars
  BY <1>6, SameRequests, DeathLosesRequests DEF InitCallStep, DeliverInit, InitPanics, reqs, db
<1>7. ASSUME NEW r \in Reg, NEW d \in Group, InsertStep(r, d)
      PROVE  [Registration!Next]_Registration!vars
  BY <1>7, SameRequests DEF InsertStep, DeliverInsert, StorePair, StoreUuid, db
<1>8. CASE \/ \E u \in User : PostAuthentication(u)
           \/ \E h \in AppGroup, i \in InitReq : PostInitialize(i, h)
           \/ UNCHANGED vars
  BY <1>8, SameRequests DEF PostAuthentication, PostInitialize, vars, reqs, db
<1>. QED  BY <1>1, <1>2, <1>3, <1>4, <1>5, <1>6, <1>7, <1>8 DEF Next

(* A registration takes effect at one moment, its COMMIT, of its request's *)
(* life, at most once, for an accepted ISU that nobody has registered; a   *)
(* request that was refused or lost registers nothing later.               *)
THEOREM RegistrationImplementsRegistry == Spec => RegistrationIsAtomic
<1>1. Init => Registration!Init
  <2> SUFFICES ASSUME Init PROVE Registration!Init
    OBVIOUS
  <2>1. RequestView = [r \in Reg |-> "open"]
    BY RequestStates DEF Init, RequestView
  <2>. QED  BY <2>1 DEF Init, Registration!Init, RequestView
<1>. QED  BY <1>1, RegistrationStep, TypeCorrect, ActivationInvariant, TxInvariant, PTL
     DEF Spec, RegistrationIsAtomic, Registration!Spec
=============================================================================
