---------------------------- MODULE IsuCacheProofs ----------------------------
(* The two caches keep what was registered, in every order of insertions,  *)
(* loads, resets and restarts: proofs about LoadInv of IsuRegistryProofs.  *)
(* Then: what resets dropped stays in them only through the races that     *)
(* `raced` records.                                                        *)
EXTENDS IsuRegistryProofs

(* Runs of initializeCache under way on d stay pending when a step only    *)
(* moves runs that have not begun or have ended.                           *)
LEMMA PendingKept ==
  ASSUME NEW d, NEW r,
         \A l \in Loader : load'[d][l] = load[d][l] \/ load[d][l].stage \notin Loading
  PROVE  /\ PairPending(d, r) => PairPending(d, r)'
         /\ UuidPending(d, r) => UuidPending(d, r)'
BY DEF PairPending, UuidPending, ToSelect, Filling, Loading

(* A run that has yet to select stores every row.                          *)
LEMMA KeptWhileSelecting ==
  ASSUME NEW d, NEW r, NEW l \in Loader, ToSelect(d, l)'
  PROVE  Kept(r, d)'
<1>1. PairPending(d, r)' /\ UuidPending(d, r)'
  BY DEF PairPending, UuidPending
<1>. QED  BY <1>1 DEF Kept, Restored, Followed

(* Nothing about row r on d changes but, perhaps, a call that is given up  *)
(* before it is sent.                                                      *)
LEMMA KeptUnchanged ==
  ASSUME NEW r, NEW d, Kept(r, d),
         r \in isu' => r \in isu,
         Loaded(d)' => Loaded(d),
         cacheIsu'[d] = cacheIsu[d], cacheIsuFromUUID'[d] = cacheIsuFromUUID[d],
         ins'[r][d] = ins[r][d] \/ (ins[r][d] = "queued" /\ ins'[r][d] = "none"),
         PairPending(d, r) => PairPending(d, r)',
         UuidPending(d, r) => UuidPending(d, r)'
  PROVE  Kept(r, d)'
BY DEF Kept, Restored, Followed, IsuFound, ConditionAdmitted

(* A dead process has nothing to keep.                                     *)
LEMMA KeptOnDeath ==
  ASSUME TypeOK, NEW r \in Reg, NEW d \in Group, Kept(r, d),
         NEW h \in Group, NEW ld, NEW cn, HostDiesIn(h, ld, cn),
         d # h => \A l \in Loader : ld[d][l] = load[d][l]
  PROVE  Kept(r, d)'
<1>1. CASE d = h
  <2>1. proc'[d] = "down" /\ cacheIsu'[d] = NoPairs
    BY <1>1 DEF HostDiesIn, TypeOK
  <2>2. NoPairs[Key(r)] # r
    BY RegistryAssumption DEF NoPairs, Key, Row
  <2>. QED  BY <2>1, <2>2 DEF Kept, Restored, Followed, Loaded
<1>2. CASE d # h
  <2>1. \A l \in Loader : load'[d][l] = load[d][l] \/ load[d][l].stage \notin Loading
    BY <1>2 DEF HostDiesIn, Loading
  <2>2. /\ cacheIsu'[d] = cacheIsu[d] /\ cacheIsuFromUUID'[d] = cacheIsuFromUUID[d]
        /\ proc'[d] = proc[d] /\ isu' = isu
        /\ ins'[r][d] = ins[r][d] \/ (ins[r][d] = "queued" /\ ins'[r][d] = "none")
    BY <1>2 DEF HostDiesIn, TypeOK, db
  <2>. QED  BY <2>1, <2>2, PendingKept, KeptUnchanged DEF Loaded
<1>. QED  BY <1>1, <1>2

LEMMA KeyOfRow == \A x \in Row : /\ x # None /\ UuidOf[x] \in Uuid
                                 /\ Key(x) \in Uuid \X User
BY RegistryAssumption DEF Key

(* Every step of a run of initializeCache on h keeps row r of process d.   *)
LEMMA KeptByLoad ==
  ASSUME TypeOK, RunInv, NEW r \in Reg, NEW d \in Group, Kept(r, d),
         NEW h \in Group, NEW l \in Loader, LoadStep(h, l)
  PROVE  Kept(r, d)'
<1>. USE DEF db, caches, reqs, inits
<1>0. /\ load \in LoadType
      /\ \A e \in Group, m \in Loader : load[e] \in [Loader -> LoadRun] /\ load[e][m] \in LoadRun
  BY DEF TypeOK, LoadType, LoadRun
<1>r. r \in Row  BY DEF Row
<1>1. CASE SelectFatal(h, l)
  BY <1>1, KeptOnDeath DEF SelectFatal, HostDies
<1>2. CASE d # h /\ ~SelectFatal(h, l)
  <2>1. UNCHANGED <<isu, proc, ins>>
    BY <1>2 DEF LoadStep, ClearPair, ClearUuid, SelectIsu, FillPair, FillUuid, LoadDone
  <2>2. cacheIsu'[d] = cacheIsu[d]
    BY <1>2 DEF LoadStep, ClearPair, ClearUuid, SelectIsu, FillPair, FillUuid, LoadDone, TypeOK
  <2>3. cacheIsuFromUUID'[d] = cacheIsuFromUUID[d]
    BY <1>2 DEF LoadStep, ClearPair, ClearUuid, SelectIsu, FillPair, FillUuid, LoadDone, TypeOK
  <2>4. load'[d] = load[d]
    BY <1>0, <1>2 DEF LoadStep, ClearPair, ClearUuid, SelectIsu, FillPair, FillUuid, LoadDone,
                      LoadType
  <2>. QED  BY <2>1, <2>2, <2>3, <2>4, PendingKept, KeptUnchanged DEF Loaded
<1>3. CASE d = h /\ (ClearPair(h, l) \/ ClearUuid(h, l))
  <2>1. load'[d][l].stage \in {"clearUuid", "select"}
    BY <1>0, <1>3 DEF ClearPair, ClearUuid, LoadType, LoadRun
  <2>. QED  BY <2>1, KeptWhileSelecting DEF ToSelect
<1>4. CASE d = h /\ SelectIsu(h, l)
  <2>1. load'[d][l] = [stage |-> "fill", rows |-> isu, cur |-> None] /\ isu' = isu
    BY <1>0, <1>4 DEF SelectIsu, LoadType
  <2>2. r \in isu => PairPending(d, r)' /\ UuidPending(d, r)'
    BY <1>r, <2>1, KeyOfRow DEF PairPending, UuidPending, Filling
  <2>. QED  BY <2>1, <2>2 DEF Kept, Restored, Followed
<1>5. ASSUME NEW x \in Row, d = h, FillPair(h, l, x) PROVE Kept(r, d)'
  <2>1. /\ load[d][l].stage = "fill" /\ x \in load[d][l].rows
        /\ load'[d][l] = [load[d][l] EXCEPT !.stage = "fillUuid", !.cur = x]
        /\ \A m \in Loader : m # l => load'[d][m] = load[d][m]
    BY <1>0, <1>5 DEF FillPair, At, LoadType
  <2>2. /\ load'[d][l].stage = "fillUuid" /\ load'[d][l].cur = x
        /\ load'[d][l].rows = load[d][l].rows
    BY <1>0, <2>1 DEF LoadRun
  <2>3. /\ cacheIsu'[d] = [cacheIsu[d] EXCEPT ![Key(x)] = x]
        /\ UNCHANGED <<isu, proc, ins, cacheIsuFromUUID>>
    BY <1>5 DEF FillPair, TypeOK
  <2>4. UuidPending(d, r) => UuidPending(d, r)'
    BY <2>1, <2>2 DEF UuidPending, ToSelect, Filling
  <2>5. CASE x = r
    <3>1. UuidPending(d, r)'
      BY <2>1, <2>2, <2>5 DEF UuidPending, Filling
    <3>2. IsuFound(d, Key(r))'
      BY <1>r, <2>3, <2>5, KeyOfRow DEF IsuFound, TypeOK
    <3>. QED  BY <3>1, <3>2 DEF Kept, Restored, Followed
  <2>6. CASE x # r
    <3>1. PairPending(d, r) => PairPending(d, r)'
      BY <2>1, <2>2, <2>6 DEF PairPending, ToSelect, Filling
    <3>2. IsuFound(d, Key(r)) => IsuFound(d, Key(r))'
      BY <1>r, <2>3, KeyOfRow DEF IsuFound, TypeOK
    <3>3. cacheIsu'[d][Key(r)] = r => cacheIsu[d][Key(r)] = r
      BY <1>r, <2>3, <2>6, KeyOfRow DEF TypeOK
    <3>. QED
      BY <2>3, <2>4, <3>1, <3>2, <3>3 DEF Kept, Restored, Followed, ConditionAdmitted, Loaded
  <2>. QED  BY <2>5, <2>6
<1>6. CASE d = h /\ FillUuid(h, l)
  <2>. DEFINE x == load[d][l].cur
  <2>1. /\ load[d][l].stage = "fillUuid" /\ x \in Row
        /\ load'[d][l] = [stage |-> "fill", rows |-> load[d][l].rows \ {x}, cur |-> None]
        /\ \A m \in Loader : m # l => load'[d][m] = load[d][m]
    BY <1>0, <1>6 DEF FillUuid, At, LoadType, RunInv
  <2>2. /\ cacheIsuFromUUID'[d] = [cacheIsuFromUUID[d] EXCEPT ![UuidOf[x]] = x]
        /\ UNCHANGED <<isu, proc, ins, cacheIsu>>
    BY <1>6 DEF FillUuid, TypeOK
  <2>3. PairPending(d, r) => PairPending(d, r)'
    BY <1>r, <2>1, KeyOfRow DEF PairPending, ToSelect, Filling
  <2>4. ConditionAdmitted(d, UuidOf[r]) => ConditionAdmitted(d, UuidOf[r])'
    BY <1>r, <2>1, <2>2, KeyOfRow DEF ConditionAdmitted, TypeOK
  <2>5. ConditionAdmitted(d, UuidOf[r])' \/ (UuidPending(d, r) => UuidPending(d, r)')
    <3>1. CASE x = r
      BY <1>r, <2>2, <3>1, KeyOfRow DEF ConditionAdmitted, TypeOK
    <3>2. CASE x # r
      BY <2>1, <3>2 DEF UuidPending, ToSelect, Filling
    <3>. QED  BY <3>1, <3>2
  <2>. QED
    BY <2>2, <2>3, <2>4, <2>5 DEF Kept, Restored, Followed, IsuFound, Loaded
<1>7. CASE d = h /\ LoadDone(h, l)
  <2>1. /\ load[d][l].stage = "fill" /\ load[d][l].rows = {}
        /\ \A m \in Loader : m # l => load'[d][m] = load[d][m]
        /\ UNCHANGED <<isu, proc, ins, cacheIsu, cacheIsuFromUUID>>
    BY <1>0, <1>7 DEF LoadDone, At, LoadType
  <2>2. /\ PairPending(d, r) => PairPending(d, r)'
        /\ UuidPending(d, r) => UuidPending(d, r)'
    BY <2>1 DEF PairPending, UuidPending, ToSelect, Filling
  <2>. QED  BY <2>1, <2>2, KeptUnchanged DEF Loaded
<1>. QED  BY <1>1, <1>2, <1>3, <1>4, <1>5, <1>6, <1>7 DEF LoadStep
-----------------------------------------------------------------------------
LEMMA LoadInvariant == Spec => []LoadInv
<1>1. Init => LoadInv
  <2>. SUFFICES ASSUME Init, NEW r \in Reg, NEW d \in Group PROVE Kept(r, d)
    BY DEF LoadInv
  <2>1. r \notin isu  BY RegistryAssumption DEF Init
  <2>. QED  BY <2>1 DEF Kept, Restored, Followed
<1>2. TypeOK /\ CallInv /\ RunInv /\ FreshInv /\ CommitInv /\ LoadInv /\ [Next]_vars => LoadInv'
  <2>. SUFFICES ASSUME TypeOK, CallInv, RunInv, FreshInv, CommitInv, [Next]_vars,
                       NEW r \in Reg, NEW d \in Group, Kept(r, d)
                PROVE  Kept(r, d)'
    BY DEF LoadInv
  <2>. USE DEF db, caches, reqs, inits
  <2>0. /\ load \in LoadType
        /\ \A e \in Group, m \in Loader : load[e] \in [Loader -> LoadRun] /\ load[e][m] \in LoadRun
    BY DEF TypeOK, LoadType, LoadRun
  <2>r. r \in Row  BY DEF Row
  (* Steps that leave process d and the calls to it alone. *)
  <2>1. ASSUME UNCHANGED <<proc, cacheIsu, cacheIsuFromUUID, ins>>, isu' \subseteq isu \cup Seed,
               \A l \in Loader : load'[d][l] = load[d][l] \/ load[d][l].stage \notin Loading
        PROVE  Kept(r, d)'
    <3>1. r \in isu' => r \in isu  BY <2>1, RegistryAssumption
    <3>. QED  BY <2>1, <3>1, PendingKept, KeptUnchanged DEF Loaded
  <2>2. ASSUME NEW q \in Reg, RegStep(q) \/ CommitUnacknowledged(q) \/ Abort(q)
        PROVE  Kept(r, d)'
    <3>. USE DEF PcStep
    <3>1. CASE Commit(q) \/ CommitUnacknowledged(q)
      <4>1. /\ UNCHANGED <<proc, cacheIsu, cacheIsuFromUUID, load>> /\ isu' = isu \cup {q}
            /\ pc[q] = "accepted"
            /\ ins' = ins \/ ins' = [ins EXCEPT ![q] =
                 [e \in Group |-> IF e \in AppGroup THEN "queued" ELSE "none"]]
        BY <3>1 DEF Commit, CommitUnacknowledged
      <4>2. /\ PairPending(d, r) => PairPending(d, r)'
            /\ UuidPending(d, r) => UuidPending(d, r)'
        BY <4>1, PendingKept
      <4>3. CASE q = r
        <5>1. ins[r][d] = "none"
          BY <4>1, <4>3 DEF CallInv
        <5>2. ins'[r][d] \in {"none", "queued"}
          BY <4>1, <4>3, <5>1 DEF TypeOK
        <5>3. cacheIsu'[d][Key(r)] # r
          BY <2>r, <4>1, <4>3, KeyOfRow DEF FreshInv, CommitInv, CacheCommitted, OpenTx
        <5>. QED  BY <5>2, <5>3 DEF Kept, Restored, Followed
      <4>4. CASE q # r
        <5>1. ins'[r][d] = ins[r][d]  BY <4>1, <4>4 DEF TypeOK
        <5>2. r \in isu' => r \in isu  BY <4>1, <4>4
        <5>. QED  BY <4>1, <4>2, <5>1, <5>2, KeptUnchanged DEF Loaded
      <4>. QED  BY <4>3, <4>4
    <3>2. CASE ~(Commit(q) \/ CommitUnacknowledged(q))
      <4>1. UNCHANGED <<proc, cacheIsu, cacheIsuFromUUID, ins, isu, load>>
        BY <2>2, <3>2 DEF RegStep, InsertIsuRow, ReadServiceURL, Activate, Respond, Abort
      <4>. QED  BY <2>1, <4>1
    <3>. QED  BY <3>1, <3>2
  <2>3. ASSUME NEW i \in InitReq, InitReqStep(i) PROVE Kept(r, d)'
    <3>1. CASE SetConfig(i) /\ "config" \in tables
      <4>1. load'[d] = [load[d] EXCEPT ![i].stage = "queued"] /\ ipc[i] = "setConfig"
        BY <3>1 DEF SetConfig, InitStep
      <4>2. load[d][i].stage \notin Loading
        BY <4>1 DEF CallInv, Loading
      <4>3. \A l \in Loader : l # i => load'[d][l] = load[d][l]
        BY <2>0, <4>1
      <4>. QED  BY <2>1, <3>1, <4>2, <4>3 DEF SetConfig, InitStep
    <3>2. CASE SetConfig(i) /\ "config" \notin tables
      BY <2>1, <3>2 DEF SetConfig, InitStep
    <3>3. CASE CreateTables(i)
      <4>1. \E to : InitStep(i, "create", to)  BY <3>3 DEF CreateTables
      <4>. QED  BY <2>1, <3>3, <4>1 DEF CreateTables, InitStep
    <3>4. CASE LoadIsu(i)
      BY <2>1, <3>4 DEF LoadIsu, InitStep
    <3>5. CASE LoadUser(i)
      BY <2>1, <3>5 DEF LoadUser, InitStep
    <3>6. CASE DropConfig(i) \/ DropIsu(i) \/ Initialized(i)
      BY <2>1, <3>6 DEF DropConfig, DropIsu, Initialized, InitStep
    <3>. QED  BY <2>3, <3>1, <3>2, <3>3, <3>4, <3>5, <3>6 DEF InitReqStep
  <2>4. ASSUME NEW i \in InitReq, NEW e \in Group, InitCallStep(i, e) PROVE Kept(r, d)'
    <3>0. i \in Loader  BY DEF Loader
    <3>1. CASE DeliverInit(i, e) /\ e = d
      <4>1. load'[d][i].stage = "clearPair"
        BY <2>0, <3>0, <3>1 DEF DeliverInit, LoadType, LoadRun
      <4>. QED  BY <3>0, <4>1, KeptWhileSelecting DEF ToSelect
    <3>2. CASE DeliverInit(i, e) /\ e # d
      <4>1. load'[d] = load[d]  BY <2>0, <3>2 DEF DeliverInit, LoadType
      <4>. QED  BY <2>1, <3>2, <4>1 DEF DeliverInit
    <3>3. CASE InitPanics(i, e)
      <4>1. d # e => [load EXCEPT ![e][i].stage = "clearPair"][d] = load[d]
        BY <2>0 DEF LoadType
      <4>. QED  BY <3>3, <4>1, KeptOnDeath DEF InitPanics
    <3>. QED  BY <2>4, <3>1, <3>2, <3>3 DEF InitCallStep
  <2>5. ASSUME NEW h \in Group, HostStep(h) \/ Crash(h) PROVE Kept(r, d)'
    <3>0. Boot \in Loader  BY DEF Loader
    <3>1. CASE RpcFatal(h) \/ Crash(h)
      BY <3>1, KeptOnDeath DEF RpcFatal, Crash, HostDies
    <3>2. CASE Listen(h) \/ Register(h)
      <4>1. /\ UNCHANGED <<cacheIsu, cacheIsuFromUUID, ins, isu, load>>
            /\ proc'[d] = proc[d] \/ proc'[d] \in {"listening", "registered"}
        BY <3>2 DEF Listen, Register, Advance, TypeOK
      <4>. QED  BY <4>1, PendingKept, KeptUnchanged DEF Loaded
    <3>3. CASE Main(h) /\ d = h
      <4>1. load'[d][Boot].stage = "clearPair"
        BY <2>0, <3>0, <3>3 DEF Main, LoadType, LoadRun
      <4>. QED  BY <3>0, <4>1, KeptWhileSelecting DEF ToSelect
    <3>4. CASE Serve(h) /\ d = h
      <4>1. /\ load[d][Boot].stage = "done"
            /\ \A l \in Loader : l # Boot => load'[d][l] = load[d][l]
        BY <2>0, <3>0, <3>4 DEF Serve, LoadType
      <4>2. \A l \in Loader : load'[d][l] = load[d][l] \/ load[d][l].stage \notin Loading
        BY <4>1 DEF Loading
      <4>3. UNCHANGED <<cacheIsu, cacheIsuFromUUID, ins, isu>> /\ Loaded(d)
        BY <3>4 DEF Serve, Advance, Loaded
      <4>. QED  BY <4>2, <4>3, PendingKept, KeptUnchanged
    <3>5. CASE (Main(h) \/ Serve(h)) /\ d # h
      <4>1. /\ load'[d] = load[d] /\ proc'[d] = proc[d]
            /\ UNCHANGED <<cacheIsu, cacheIsuFromUUID, ins, isu>>
        BY <2>0, <3>5 DEF Main, Serve, Advance, LoadType, TypeOK
      <4>. QED  BY <4>1, PendingKept, KeptUnchanged DEF Loaded
    <3>. QED  BY <2>5, <3>1, <3>2, <3>3, <3>4, <3>5 DEF HostStep
  <2>6. ASSUME NEW q \in Reg, NEW e \in Group, InsertStep(q, e) PROVE Kept(r, d)'
    <3>q. q \in Row  BY DEF Row
    <3>0. UNCHANGED <<isu, proc, load>>
      BY <2>6 DEF InsertStep, DeliverInsert, StorePair, StoreUuid
    <3>p. /\ PairPending(d, r) => PairPending(d, r)'
          /\ UuidPending(d, r) => UuidPending(d, r)'
      BY <3>0, PendingKept
    <3>1. CASE e # d
      <4>1. /\ cacheIsu'[d] = cacheIsu[d] /\ cacheIsuFromUUID'[d] = cacheIsuFromUUID[d]
            /\ ins'[r][d] = ins[r][d]
        <5>1. CASE DeliverInsert(q, e)  BY <3>1, <5>1 DEF DeliverInsert, TypeOK
        <5>2. CASE StorePair(q, e)      BY <3>1, <5>2 DEF StorePair, TypeOK
        <5>3. CASE StoreUuid(q, e)      BY <3>1, <5>3 DEF StoreUuid, TypeOK
        <5>. QED  BY <2>6, <5>1, <5>2, <5>3 DEF InsertStep
      <4>. QED  BY <3>0, <3>p, <4>1, KeptUnchanged DEF Loaded
    <3>2. CASE DeliverInsert(q, e) /\ e = d
      <4>1. /\ UNCHANGED <<cacheIsu, cacheIsuFromUUID>>
            /\ \/ q # r /\ ins'[r][d] = ins[r][d]
               \/ q = r /\ ins[r][d] = "queued" /\ ins'[r][d] = "pair"
        BY <3>2 DEF DeliverInsert, TypeOK
      <4>. QED
        BY <3>0, <3>p, <4>1 DEF Kept, Restored, Followed, IsuFound, ConditionAdmitted, Loaded
    <3>3. CASE StorePair(q, e) /\ e = d
      <4>1. /\ cacheIsu'[d] = [cacheIsu[d] EXCEPT ![Key(q)] = q]
            /\ UNCHANGED cacheIsuFromUUID
            /\ q # r => ins'[r][d] = ins[r][d]
            /\ q = r => ins'[r][d] = "uuid"
        BY <3>3 DEF StorePair, TypeOK
      <4>2. /\ IsuFound(d, Key(r)) => IsuFound(d, Key(r))'
            /\ q = r => IsuFound(d, Key(r))'
            /\ q # r /\ cacheIsu'[d][Key(r)] = r => cacheIsu[d][Key(r)] = r
        BY <2>r, <3>q, <4>1, KeyOfRow DEF IsuFound, TypeOK
      <4>. QED
        BY <3>0, <3>p, <4>1, <4>2 DEF Kept, Restored, Followed, ConditionAdmitted, Loaded
    <3>4. CASE StoreUuid(q, e) /\ e = d
      <4>1. /\ cacheIsuFromUUID'[d] = [cacheIsuFromUUID[d] EXCEPT ![UuidOf[q]] = q]
            /\ UNCHANGED cacheIsu
            /\ q # r => ins'[r][d] = ins[r][d]
            /\ q = r => ins[r][d] = "uuid"
        BY <3>4 DEF StoreUuid, TypeOK
      <4>2. /\ ConditionAdmitted(d, UuidOf[r]) => ConditionAdmitted(d, UuidOf[r])'
            /\ q = r => ConditionAdmitted(d, UuidOf[r])'
        BY <2>r, <3>q, <4>1, KeyOfRow DEF ConditionAdmitted, TypeOK
      <4>. QED
        BY <3>0, <3>p, <4>1, <4>2 DEF Kept, Restored, Followed, IsuFound, Loaded
    <3>. QED  BY <2>6, <3>1, <3>2, <3>3, <3>4 DEF InsertStep
  <2>7. CASE \/ \E u \in User : PostAuthentication(u)
             \/ \E h \in AppGroup : \/ \E q \in Reg : PostIsu(q, h)
                                    \/ \E i \in InitReq : PostInitialize(i, h)
             \/ UNCHANGED vars
    BY <2>1, <2>7 DEF PostAuthentication, PostIsu, PostInitialize, vars
  <2>. QED
    BY <2>2, <2>3, <2>4, <2>5, <2>6, <2>7, KeptByLoad DEF Next
<1>. QED
  BY <1>1, <1>2, TypeCorrect, CallInvariant, RunInvariant, FreshInvariant, CommitInvariant, PTL
  DEF Spec

(* Read your writes: an ISU whose registration was answered with 201 is in *)
(* both maps of every process that serves and is not loading, until a      *)
(* reset drops it (main.go:383-414, 736-745).                              *)
THEOREM RegisteredIsuIsFound == Spec => []ReadYourWrites
<1>1. TypeOK /\ CallInv /\ LoadInv => ReadYourWrites
  <2>. SUFFICES ASSUME TypeOK, CallInv, LoadInv, NEW r \in Reg, pc[r] = "created", r \in isu,
                       NEW h \in AppGroup, IdleCache(h)
                PROVE  IsuFound(h, Key(r)) /\ ConditionAdmitted(h, UuidOf[r])
    BY DEF ReadYourWrites
  <2>1. h \in Group  BY RegistryAssumption
  <2>2. ins[r][h] = "done"  BY DEF CallInv
  <2>3. ~PairPending(h, r) /\ ~UuidPending(h, r)
    BY DEF IdleCache, PairPending, UuidPending, ToSelect, Filling, Loading
  <2>. QED  BY <2>1, <2>2, <2>3 DEF LoadInv, Kept, Restored, Loaded, IdleCache
<1>. QED  BY <1>1, TypeCorrect, CallInvariant, LoadInvariant, PTL

(* The two maps agree on registered rows although they are cleared and     *)
(* filled one after the other (main.go:384-401, 410-411).                  *)
THEOREM MapsAgree == Spec => []FoundIsAdmitted
<1>1. LoadInv => FoundIsAdmitted
  <2>. SUFFICES ASSUME LoadInv, NEW h \in Group, IdleCache(h), NEW r \in Reg, r \in isu,
                       cacheIsu[h][Key(r)] = r, ins[r][h] # "uuid"
                PROVE  ConditionAdmitted(h, UuidOf[r])
    BY DEF FoundIsAdmitted
  <2>1. ~UuidPending(h, r)
    BY DEF IdleCache, UuidPending, ToSelect, Filling, Loading
  <2>. QED  BY <2>1 DEF LoadInv, Kept, Followed
<1>. QED  BY <1>1, LoadInvariant, PTL

-----------------------------------------------------------------------------
(* What a process may know: the rows there are, and those that a race left *)
(* it.                                                                     *)
Known(h)     == isu \cup raced[h]
PairKnown(h) == \A k \in Uuid \X User : cacheIsu[h][k] \in Known(h) \cup {None}
UuidKnown(h) == \A u \in Uuid : cacheIsuFromUUID[h][u] \in Known(h) \cup {None}

(* A reset has begun to drop the rows and has not, or not yet, cleared the *)
(* map of the process.                                                     *)
Dropping(j)  == ipc[j] \in {"failed", "lost", "create", "loadIsu", "loadUser", "setConfig"}
PairStale(h) == \E j \in InitReq :
  Dropping(j) \/ (ipc[j] = "notify" /\ load[h][j].stage \in {"queued", "clearPair"})
UuidStale(h) == \E j \in InitReq :
  Dropping(j) \/ (ipc[j] = "notify" /\ load[h][j].stage \in {"queued", "clearPair", "clearUuid"})

(* What is on its way into the maps is known too.                          *)
OnTheWay == {"queued", "pair", "uuid"}
RowsKnown(h, l) ==
  /\ load[h][l].rows \subseteq Known(h)
  /\ load[h][l].stage = "fillUuid" => load[h][l].cur \in load[h][l].rows

EvictAt(h) ==
  /\ PairStale(h) \/ PairKnown(h)
  /\ UuidStale(h) \/ UuidKnown(h)
  /\ \A r \in Reg : ins[r][h] \in OnTheWay => r \in Known(h)
  /\ \A l \in Loader : RowsKnown(h, l)

EvictInv == \A h \in Group : EvictAt(h)

-----------------------------------------------------------------------------
(* A step that stores nothing on h, and after which h may know as much.    *)
LEMMA EvictKept ==
  ASSUME NEW h, EvictAt(h), isu \subseteq isu', raced'[h] = raced[h],
         cacheIsu'[h] = cacheIsu[h], cacheIsuFromUUID'[h] = cacheIsuFromUUID[h],
         PairStale(h) => PairStale(h)', UuidStale(h) => UuidStale(h)',
         \A r \in Reg : ins'[r][h] \in OnTheWay => ins[r][h] \in OnTheWay \/ r \in isu',
         \A l \in Loader : \/ load'[h][l].rows = {} /\ load'[h][l].stage # "fillUuid"
                           \/ /\ load'[h][l].rows = load[h][l].rows
                              /\ load'[h][l].cur = load[h][l].cur
                              /\ load'[h][l].stage = "fillUuid" => load[h][l].stage = "fillUuid"
  PROVE  EvictAt(h)'
<1>1. Known(h) \subseteq Known(h)'
  BY DEF Known
<1>2. /\ PairKnown(h) => PairKnown(h)'
      /\ UuidKnown(h) => UuidKnown(h)'
  BY <1>1 DEF PairKnown, UuidKnown
<1>3. \A l \in Loader : RowsKnown(h, l)'
  BY <1>1 DEF EvictAt, RowsKnown
<1>4. \A r \in Reg : ins'[r][h] \in OnTheWay => r \in Known(h)'
  BY <1>1 DEF EvictAt, Known
<1>. QED  BY <1>2, <1>3, <1>4 DEF EvictAt

(* The death of a process empties its maps; a reset whose process dies has *)
(* not succeeded.                                                          *)
LEMMA EvictOnDeath ==
  ASSUME TypeOK, EvictInv, NEW h \in Group, NEW ld, NEW cn, HostDiesIn(h, ld, cn),
         \A d \in Group, l \in Loader :
           \/ ld[d][l] = load[d][l]
           \/ /\ d = h /\ ld[d][l].stage = "clearPair"
              /\ ld[d][l].rows = load[d][l].rows /\ ld[d][l].cur = load[d][l].cur
  PROVE  EvictInv'
<1>. SUFFICES ASSUME NEW d \in Group PROVE EvictAt(d)'
  BY DEF EvictInv
<1>0. EvictAt(d) /\ (\A i \in InitReq : i \in Loader /\ i # Boot)
  BY RegistryAssumption DEF EvictInv, Loader
<1>1. UNCHANGED <<isu, raced>>
  BY DEF HostDiesIn, db
<1>2. \A r \in Reg : ins'[r][d] \in OnTheWay => ins[r][d] \in OnTheWay
  BY DEF HostDiesIn, OnTheWay
<1>3. ASSUME NEW l \in Loader
      PROVE  \/ load'[d][l].rows = {} /\ load'[d][l].stage # "fillUuid"
             \/ /\ load'[d][l].rows = load[d][l].rows
                /\ load'[d][l].cur = load[d][l].cur
                /\ load'[d][l].stage = "fillUuid" => load[d][l].stage = "fillUuid"
  BY <1>3 DEF HostDiesIn, Idle
<1>4. CASE d = h
  <2>1. cacheIsu'[d] = NoPairs /\ cacheIsuFromUUID'[d] = NoUuids
    BY <1>4 DEF HostDiesIn, TypeOK
  <2>2. PairKnown(d)' /\ UuidKnown(d)'
    BY <2>1 DEF PairKnown, UuidKnown, NoPairs, NoUuids
  <2>3. \A l \in Loader : RowsKnown(d, l)'
    BY <1>0, <1>1, <1>3 DEF EvictAt, RowsKnown, Known
  <2>4. \A r \in Reg : ins'[r][d] \in OnTheWay => r \in Known(d)'
    BY <1>0, <1>1, <1>2 DEF EvictAt, Known
  <2>. QED  BY <2>2, <2>3, <2>4 DEF EvictAt
<1>5. CASE d # h
  <2>1. cacheIsu'[d] = cacheIsu[d] /\ cacheIsuFromUUID'[d] = cacheIsuFromUUID[d]
    BY <1>5 DEF HostDiesIn, TypeOK
  <2>2. ASSUME NEW j \in InitReq
        PROVE  \/ ipc'[j] = "lost"
               \/ ipc'[j] = ipc[j] /\ (ipc[j] = "notify" => load'[d][j] = load[d][j])
    <3>1. ld[d][j] = load[d][j]
      BY <1>0, <1>5
    <3>. QED  BY <1>0, <1>5, <3>1 DEF HostDiesIn, InitPhase
  <2>3. /\ PairStale(d) => PairStale(d)'
        /\ UuidStale(d) => UuidStale(d)'
    BY <2>2 DEF PairStale, UuidStale, Dropping
  <2>. QED  BY <1>0, <1>1, <1>2, <1>3, <2>1, <2>3, EvictKept
<1>. QED  BY <1>4, <1>5

(* A step of initializeCache on h: a map is cleared, or keeps what the race *)
(* leaves it, and is filled with what was selected.                        *)
LEMMA EvictByLoad ==
  ASSUME TypeOK, EvictInv, NEW h \in Group, NEW l \in Loader, LoadStep(h, l), ~SelectFatal(h, l)
  PROVE  EvictInv'
<1>0. load \in LoadType /\ load[h][l] \in LoadRun
  BY DEF TypeOK, LoadType, LoadRun
<1>1. /\ UNCHANGED <<isu, ins, ipc>> /\ load[h][l].stage \in Loading
      /\ \A d \in Group, m \in Loader : d # h \/ m # l => load'[d][m] = load[d][m]
  BY <1>0 DEF LoadStep, ClearPair, ClearUuid, SelectIsu, FillPair, FillUuid, LoadDone, LoadType,
              At, Loading, db, reqs, inits
<1>2. \A d \in Group : /\ raced[d] \subseteq raced'[d]
                       /\ d # h => /\ raced'[d] = raced[d] /\ cacheIsu'[d] = cacheIsu[d]
                                   /\ cacheIsuFromUUID'[d] = cacheIsuFromUUID[d]
  BY DEF LoadStep, ClearPair, ClearUuid, SelectIsu, FillPair, FillUuid, LoadDone, PutBack, caches,
         TypeOK
<1>3. ASSUME NEW d \in Group, d # h PROVE EvictAt(d)'
  <2>1. \A m \in Loader : load'[d][m] = load[d][m]
    BY <1>1, <1>3
  <2>2. PairStale(d)' = PairStale(d) /\ UuidStale(d)' = UuidStale(d)
    BY <1>1, <2>1 DEF PairStale, UuidStale, Dropping, Loader
  <2>. QED  BY <1>1, <1>2, <1>3, <2>1, <2>2, EvictKept DEF EvictInv
<1>4. EvictAt(h) /\ Known(h) \subseteq Known(h)' /\ isu \subseteq Known(h)'
  BY <1>1, <1>2 DEF EvictInv, Known
<1>5. \A r \in Reg : ins'[r][h] \in OnTheWay => r \in Known(h)'
  BY <1>1, <1>4 DEF EvictAt
<1>6. \A m \in Loader : m # l => RowsKnown(h, m)'
  BY <1>1, <1>4 DEF EvictAt, RowsKnown
<1>7. RowsKnown(h, l)
  BY <1>4 DEF EvictAt
(* Another reset that has yet to clear a map stays so.                     *)
<1>8. ASSUME load[h][l].stage \notin {"queued", "clearPair"} PROVE PairStale(h) => PairStale(h)'
  BY <1>1, <1>8 DEF PairStale, Dropping, Loader
<1>9. ASSUME \/ load[h][l].stage \notin {"queued", "clearPair", "clearUuid"}
             \/ load'[h][l].stage = "clearUuid"
      PROVE  UuidStale(h) => UuidStale(h)'
  BY <1>1, <1>9 DEF UuidStale, Dropping, Loader
<1>10. CASE ClearPair(h, l)
  <2>1. /\ load'[h][l].stage = "clearUuid" /\ load'[h][l].rows = load[h][l].rows
        /\ UNCHANGED cacheIsuFromUUID
    BY <1>0, <1>10 DEF ClearPair, LoadType, LoadRun
  <2>2. PairKnown(h)'
    <3>1. CASE cacheIsu' = [cacheIsu EXCEPT ![h] = NoPairs]
      BY <3>1 DEF PairKnown, NoPairs, TypeOK
    <3>2. CASE UNCHANGED cacheIsu /\ PutBack(h, {cacheIsu[h][k] : k \in Uuid \X User})
      BY <1>1, <3>2 DEF PairKnown, Known, PutBack, TypeOK
    <3>. QED  BY <1>10, <3>1, <3>2 DEF ClearPair
  <2>3. UuidKnown(h) => UuidKnown(h)'
    BY <1>4, <2>1 DEF UuidKnown
  <2>4. RowsKnown(h, l)'
    BY <1>4, <1>7, <2>1 DEF RowsKnown
  <2>. QED  BY <1>3, <1>4, <1>5, <1>6, <1>9, <2>1, <2>2, <2>3, <2>4 DEF EvictAt, EvictInv
<1>11. CASE ClearUuid(h, l)
  <2>1. /\ load'[h][l].stage = "select" /\ load'[h][l].rows = load[h][l].rows
        /\ load[h][l].stage = "clearUuid" /\ UNCHANGED cacheIsu
    BY <1>0, <1>11 DEF ClearUuid, At, LoadType, LoadRun
  <2>2. UuidKnown(h)'
    <3>1. CASE cacheIsuFromUUID' = [cacheIsuFromUUID EXCEPT ![h] = NoUuids]
      BY <3>1 DEF UuidKnown, NoUuids, TypeOK
    <3>2. CASE UNCHANGED cacheIsuFromUUID /\ PutBack(h, {cacheIsuFromUUID[h][u] : u \in Uuid})
      BY <1>1, <3>2 DEF UuidKnown, Known, PutBack, TypeOK
    <3>. QED  BY <1>11, <3>1, <3>2 DEF ClearUuid
  <2>3. PairKnown(h) => PairKnown(h)'
    BY <1>4, <2>1 DEF PairKnown
  <2>4. RowsKnown(h, l)'
    BY <1>4, <1>7, <2>1 DEF RowsKnown
  <2>. QED  BY <1>3, <1>4, <1>5, <1>6, <1>8, <2>1, <2>2, <2>3, <2>4 DEF EvictAt, EvictInv
<1>12. CASE SelectIsu(h, l) \/ LoadDone(h, l)
  <2>1. UNCHANGED <<cacheIsu, cacheIsuFromUUID>>
        /\ load[h][l].stage \notin {"queued", "clearPair", "clearUuid"}
    BY <1>12 DEF SelectIsu, LoadDone, caches, At
  <2>2. /\ load'[h][l].rows \subseteq isu \cup load[h][l].rows
        /\ load'[h][l].stage # "fillUuid"
    <3>1. CASE SelectIsu(h, l)
      <4>1. load'[h][l] = [stage |-> "fill", rows |-> isu, cur |-> None]
        BY <1>0, <3>1 DEF SelectIsu, LoadType
      <4>. QED  BY <4>1
    <3>2. CASE LoadDone(h, l)
      <4>1. load'[h][l] = [load[h][l] EXCEPT !.stage = "done"]
        BY <1>0, <3>2 DEF LoadDone, LoadType
      <4>. QED  BY <1>0, <4>1 DEF LoadRun
    <3>. QED  BY <1>12, <3>1, <3>2
  <2>3. /\ PairKnown(h) => PairKnown(h)'
        /\ UuidKnown(h) => UuidKnown(h)'
    BY <1>4, <2>1 DEF PairKnown, UuidKnown
  <2>4. RowsKnown(h, l)'
    BY <1>4, <1>7, <2>2 DEF RowsKnown
  <2>. QED  BY <1>3, <1>4, <1>5, <1>6, <1>8, <1>9, <2>1, <2>3, <2>4 DEF EvictAt, EvictInv
<1>13. ASSUME NEW x \in Row, FillPair(h, l, x) PROVE EvictInv'
  <2>1. /\ x \in load[h][l].rows /\ load'[h][l].cur = x /\ load'[h][l].rows = load[h][l].rows
        /\ load[h][l].stage = "fill" /\ UNCHANGED cacheIsuFromUUID
    BY <1>0, <1>13 DEF FillPair, At, LoadType, LoadRun
  <2>2. x \in Known(h)'
    BY <1>4, <1>7, <2>1 DEF RowsKnown
  <2>3. \A k \in Uuid \X User : cacheIsu'[h][k] \in {cacheIsu[h][k], x}
    BY <1>13 DEF FillPair, TypeOK
  <2>4. /\ PairKnown(h) => PairKnown(h)'
        /\ UuidKnown(h) => UuidKnown(h)'
    BY <1>4, <2>1, <2>2, <2>3 DEF PairKnown, UuidKnown
  <2>5. RowsKnown(h, l)'
    BY <1>4, <1>7, <2>1 DEF RowsKnown
  <2>. QED  BY <1>3, <1>4, <1>5, <1>6, <1>8, <1>9, <2>1, <2>4, <2>5 DEF EvictAt, EvictInv
<1>14. CASE FillUuid(h, l)
  <2>1. /\ load[h][l].stage = "fillUuid" /\ load'[h][l].stage = "fill"
        /\ load'[h][l].rows \subseteq load[h][l].rows /\ UNCHANGED cacheIsu
    BY <1>0, <1>14 DEF FillUuid, At, LoadType, LoadRun
  <2>2. load[h][l].cur \in Known(h)'
    BY <1>4, <1>7, <2>1 DEF RowsKnown
  <2>3. \A u \in Uuid : cacheIsuFromUUID'[h][u] \in {cacheIsuFromUUID[h][u], load[h][l].cur}
    BY <1>14 DEF FillUuid, TypeOK
  <2>4. /\ PairKnown(h) => PairKnown(h)'
        /\ UuidKnown(h) => UuidKnown(h)'
    BY <1>4, <2>1, <2>2, <2>3 DEF PairKnown, UuidKnown
  <2>5. RowsKnown(h, l)'
    BY <1>4, <1>7, <2>1 DEF RowsKnown
  <2>. QED  BY <1>3, <1>4, <1>5, <1>6, <1>8, <1>9, <2>1, <2>4, <2>5 DEF EvictAt, EvictInv
<1>. QED  BY <1>10, <1>11, <1>12, <1>13, <1>14 DEF LoadStep

(* A step of a reset: while it has dropped the rows, it will clear the maps. *)
LEMMA EvictByReset ==
  ASSUME TypeOK, EvictInv, NEW i \in InitReq, InitReqStep(i)
  PROVE  EvictInv'
<1>. SUFFICES ASSUME NEW d \in Group PROVE EvictAt(d)'
  BY DEF EvictInv
<1>0. EvictAt(d) /\ load \in LoadType /\ i \in Loader /\ ipc[i] \in InitPhase
  BY DEF EvictInv, TypeOK, LoadType, LoadRun, Loader, InitReqStep, DropConfig, DropIsu,
         CreateTables, LoadIsu, LoadUser, SetConfig, Initialized, InitStep, InitPhase, Script
<1>1. /\ UNCHANGED <<cacheIsu, cacheIsuFromUUID, ins>>
      /\ \A j \in InitReq : j # i => ipc'[j] = ipc[j]
  BY DEF InitReqStep, DropConfig, DropIsu, CreateTables, LoadIsu, LoadUser, SetConfig,
         Initialized, InitStep, caches, reqs, TypeOK
<1>2. CASE DropIsu(i)
  <2>1. /\ UNCHANGED load /\ ipc'[i] = "create"
        /\ raced'[d] = raced[d] \cup (isu \cap Unstored(d))
    BY <1>2 DEF DropIsu, InitStep, TypeOK
  <2>2. PairStale(d)' /\ UuidStale(d)'
    BY <2>1 DEF PairStale, UuidStale, Dropping
  <2>3. \A r \in Reg : ins'[r][d] \in OnTheWay => r \in Known(d)'
    BY <1>0, <1>1, <2>1 DEF EvictAt, Known, Unstored, OnTheWay
  <2>4. \A l \in Loader : RowsKnown(d, l)'
    BY <1>0, <2>1 DEF EvictAt, RowsKnown, Known, Unstored
  <2>. QED  BY <2>2, <2>3, <2>4 DEF EvictAt
<1>3. CASE ~DropIsu(i)
  <2>1. isu \subseteq isu' /\ UNCHANGED raced
    BY <1>3 DEF InitReqStep, DropConfig, CreateTables, LoadIsu, LoadUser, SetConfig, Initialized, db
  <2>2. \/ UNCHANGED load
        \/ SetConfig(i) /\ load' = [e \in Group |-> [load[e] EXCEPT ![i].stage = "queued"]]
    BY <1>3 DEF InitReqStep, DropConfig, CreateTables, LoadIsu, LoadUser, SetConfig, Initialized
  <2>3. \A l \in Loader : /\ l # i => load'[d][l] = load[d][l]
                          /\ load'[d][l].rows = load[d][l].rows
                          /\ load'[d][l].cur = load[d][l].cur
                          /\ load'[d][l].stage \in {load[d][l].stage, "queued"}
    <3>1. CASE UNCHANGED load
      BY <3>1
    <3>2. CASE load' = [e \in Group |-> [load[e] EXCEPT ![i].stage = "queued"]]
      <4>1. load'[d] = [load[d] EXCEPT ![i] = [@ EXCEPT !.stage = "queued"]]
        BY <3>2
      <4>2. load[d] \in [Loader -> LoadRun]
        BY <1>0 DEF LoadType
      <4>3. /\ \A l \in Loader : l # i => load'[d][l] = load[d][l]
            /\ load'[d][i] = [load[d][i] EXCEPT !.stage = "queued"]
        BY <1>0, <4>1, <4>2
      <4>. QED  BY <1>0, <4>2, <4>3 DEF LoadRun
    <3>. QED  BY <2>2, <3>1, <3>2
  (* The reset itself goes on with the script, fails, or waits for its     *)
  (* calls, which clear the maps before they are done.                     *)
  <2>4. \/ ipc[i] = "dropConfig"
        \/ ipc'[i] \in {"failed", "loadIsu", "loadUser", "setConfig"}
        \/ ipc'[i] = "notify" /\ load'[d][i].stage = "queued"
        \/ ipc[i] = "notify" /\ load[d][i].stage = "done"
    <3>1. CASE SetConfig(i)
      <4>1. CASE "config" \in tables
        <5>1. /\ load' = [e \in Group |-> [load[e] EXCEPT ![i].stage = "queued"]]
              /\ ipc'[i] = "notify"
          BY <3>1, <4>1 DEF SetConfig, InitStep, TypeOK
        <5>2. load'[d][i].stage = "queued"
          BY <1>0, <5>1 DEF LoadType, LoadRun
        <5>. QED  BY <5>1, <5>2
      <4>2. CASE "config" \notin tables
        BY <3>1, <4>2 DEF SetConfig, InitStep, TypeOK
      <4>. QED  BY <4>1, <4>2
    <3>2. CASE ~SetConfig(i)
      BY <1>3, <3>2 DEF InitReqStep, DropConfig, CreateTables, LoadIsu, LoadUser, Initialized,
                        InitStep, At, TypeOK
    <3>. QED  BY <3>1, <3>2
  <2>5. /\ PairStale(d) => PairStale(d)'
        /\ UuidStale(d) => UuidStale(d)'
    BY <1>1, <2>3, <2>4 DEF PairStale, UuidStale, Dropping, Loader
  <2>. QED  BY <1>0, <1>1, <2>1, <2>3, <2>5, EvictKept
<1>. QED  BY <1>2, <1>3

(* InsertIsu stores a row that is known, also when it was dropped while it *)
(* was on its way.                                                         *)
LEMMA EvictByInsert ==
  ASSUME TypeOK, EvictInv, NEW r \in Reg, NEW d \in Group, InsertStep(r, d)
  PROVE  EvictInv'
<1>. SUFFICES ASSUME NEW e \in Group PROVE EvictAt(e)'
  BY DEF EvictInv
<1>1. /\ UNCHANGED <<isu, raced, load, ipc>> /\ ins[r][d] \in OnTheWay
      /\ \E to \in {"pair", "uuid", "done"} : ins' = [ins EXCEPT ![r][d] = to]
  BY DEF InsertStep, DeliverInsert, StorePair, StoreUuid, db, inits, OnTheWay
<1>2. EvictAt(e) /\ r \in Known(d)
  BY <1>1 DEF EvictInv, EvictAt
<1>3. ASSUME NEW q \in Reg, ins'[q][e] \in OnTheWay PROVE ins[q][e] \in OnTheWay
  <2>1. ins \in [Reg -> [Group -> {"none", "queued", "pair", "uuid", "done", "failed"}]]
    BY DEF TypeOK
  <2>. QED  BY <1>1, <1>3, <2>1
<1>4. \/ UNCHANGED cacheIsu
      \/ cacheIsu' = [cacheIsu EXCEPT ![d][Key(r)] = r]
  BY DEF InsertStep, DeliverInsert, StorePair, StoreUuid, caches
<1>5. \/ UNCHANGED cacheIsuFromUUID
      \/ cacheIsuFromUUID' = [cacheIsuFromUUID EXCEPT ![d][UuidOf[r]] = r]
  BY DEF InsertStep, DeliverInsert, StorePair, StoreUuid, caches
<1>6. /\ e # d => cacheIsu'[e] = cacheIsu[e]
      /\ \A k \in Uuid \X User : cacheIsu'[e][k] \in {cacheIsu[e][k], r}
  <2>1. cacheIsu \in [Group -> [Uuid \X User -> Row \cup {None}]]
    BY DEF TypeOK
  <2>2. CASE UNCHANGED cacheIsu
    BY <2>2
  <2>3. CASE cacheIsu' = [cacheIsu EXCEPT ![d][Key(r)] = r]
    BY <2>1, <2>3
  <2>. QED  BY <1>4, <2>2, <2>3
<1>7. /\ e # d => cacheIsuFromUUID'[e] = cacheIsuFromUUID[e]
      /\ \A u \in Uuid : cacheIsuFromUUID'[e][u] \in {cacheIsuFromUUID[e][u], r}
  <2>1. cacheIsuFromUUID \in [Group -> [Uuid -> Row \cup {None}]]
    BY DEF TypeOK
  <2>2. CASE UNCHANGED cacheIsuFromUUID
    BY <2>2
  <2>3. CASE cacheIsuFromUUID' = [cacheIsuFromUUID EXCEPT ![d][UuidOf[r]] = r]
    BY <2>1, <2>3
  <2>. QED  BY <1>5, <2>2, <2>3
<1>8. Known(e)' = Known(e) /\ PairStale(e)' = PairStale(e) /\ UuidStale(e)' = UuidStale(e)
  BY <1>1 DEF Known, PairStale, UuidStale, Dropping
<1>9. /\ PairKnown(e) => PairKnown(e)'
      /\ UuidKnown(e) => UuidKnown(e)'
  BY <1>2, <1>6, <1>7, <1>8 DEF PairKnown, UuidKnown
<1>10. \A l \in Loader : RowsKnown(e, l)'
  BY <1>1, <1>2, <1>8 DEF EvictAt, RowsKnown
<1>11. \A q \in Reg : ins'[q][e] \in OnTheWay => q \in Known(e)'
  BY <1>2, <1>3, <1>8 DEF EvictAt
<1>. QED  BY <1>2, <1>8, <1>9, <1>10, <1>11 DEF EvictAt

LEMMA EvictInvariant == Spec => []EvictInv
<1>0. Boot \in Loader /\ \A i \in InitReq : i \in Loader /\ i # Boot
  BY RegistryAssumption DEF Loader
<1>1. Init => EvictInv
  <2>. SUFFICES ASSUME Init, NEW h \in Group PROVE EvictAt(h)
    BY DEF EvictInv
  <2>1. PairKnown(h)
    <3>1. \A k : (\E x \in Seed : Key(x) = k) => (CHOOSE x \in Seed : Key(x) = k) \in Seed
      OBVIOUS
    <3>. QED  BY <3>1 DEF Init, PairKnown, Known
  <2>2. UuidKnown(h)
    <3>1. \A u : (\E x \in Seed : UuidOf[x] = u) => (CHOOSE x \in Seed : UuidOf[x] = u) \in Seed
      OBVIOUS
    <3>. QED  BY <3>1 DEF Init, UuidKnown, Known
  <2>. QED  BY <2>1, <2>2 DEF Init, EvictAt, RowsKnown, OnTheWay, Idle
<1>2. TypeOK /\ EvictInv /\ [Next]_vars => EvictInv'
  <2>. SUFFICES ASSUME TypeOK, EvictInv, [Next]_vars PROVE EvictInv'
    OBVIOUS
  <2>00. load \in LoadType /\ \A h \in Group, l \in Loader : load[h][l] \in LoadRun
    BY DEF TypeOK, LoadType, LoadRun
  (* Steps that store nothing: at most they add a row. *)
  <2>1. ASSUME isu \subseteq isu', UNCHANGED <<raced, caches, load>>,
               \A j \in InitReq : ipc'[j] = ipc[j] \/ ipc[j] = "new",
               \A r \in Reg, d \in Group : ins'[r][d] = ins[r][d] \/ r \in isu'
        PROVE  EvictInv'
    <3>. SUFFICES ASSUME NEW d \in Group PROVE EvictAt(d)'
      BY DEF EvictInv
    <3>1. /\ PairStale(d) => PairStale(d)'
          /\ UuidStale(d) => UuidStale(d)'
      BY <2>1 DEF PairStale, UuidStale, Dropping
    <3>. QED  BY <2>1, <3>1, EvictKept DEF EvictInv, caches
  <2>2. CASE \/ UNCHANGED vars
             \/ \E u \in User : PostAuthentication(u)
             \/ \E h \in AppGroup, r \in Reg : PostIsu(r, h)
             \/ \E h \in AppGroup, i \in InitReq : PostInitialize(i, h)
    <3>1. /\ UNCHANGED <<isu, raced, caches, load, ins>>
          /\ \A j \in InitReq : ipc'[j] = ipc[j] \/ ipc[j] = "new"
      BY <2>2 DEF PostAuthentication, PostIsu, PostInitialize, vars, db, reqs, inits, TypeOK
    <3>. QED  BY <2>1, <3>1
  <2>3. ASSUME NEW r \in Reg, RegStep(r) \/ CommitUnacknowledged(r) \/ Abort(r) PROVE EvictInv'
    <3>1. /\ UNCHANGED <<raced, caches, load, ipc>> /\ isu \subseteq isu'
          /\ Commit(r) \/ UNCHANGED ins
      BY <2>3 DEF RegStep, InsertIsuRow, ReadServiceURL, Activate, Commit, Respond,
                  CommitUnacknowledged, Abort, PcStep, inits
    <3>2. \A q \in Reg, d \in Group : ins'[q][d] = ins[q][d] \/ q \in isu'
      <4>1. CASE Commit(r)
        BY <4>1 DEF Commit, TypeOK
      <4>. QED  BY <3>1, <4>1
    <3>. QED  BY <2>1, <3>1, <3>2
  <2>4. ASSUME NEW i \in InitReq, NEW d \in Group, InitCallStep(i, d) PROVE EvictInv'
    <3>. DEFINE ld == [load EXCEPT ![d][i].stage = "clearPair"]
    <3>1. \A e \in Group, l \in Loader :
            /\ e # d \/ l # i => ld[e][l] = load[e][l]
            /\ ld[d][i].stage = "clearPair"
            /\ ld[d][i].rows = load[d][i].rows /\ ld[d][i].cur = load[d][i].cur
      BY <1>0, <2>00 DEF LoadType, LoadRun
    <3>2. CASE DeliverInit(i, d)
      <4>1. /\ UNCHANGED <<isu, raced, cacheIsu, cacheIsuFromUUID, ins, ipc>>
            /\ load' = ld /\ load[d][i].stage = "queued"
        BY <3>2 DEF DeliverInit, At, db, caches, reqs, inits
      <4>. HIDE DEF ld
      <4>. SUFFICES ASSUME NEW e \in Group PROVE EvictAt(e)'
        BY DEF EvictInv
      <4>2. \A l \in Loader : /\ load'[e][l].rows = load[e][l].rows
                              /\ load'[e][l].cur = load[e][l].cur
                              /\ load'[e][l] = load[e][l] \/ load'[e][l].stage = "clearPair"
        BY <3>1, <4>1
      <4>3. /\ PairStale(e) => PairStale(e)'
            /\ UuidStale(e) => UuidStale(e)'
        BY <1>0, <4>1, <4>2 DEF PairStale, UuidStale, Dropping
      <4>. QED  BY <4>1, <4>2, <4>3, EvictKept DEF EvictInv
    <3>3. CASE InitPanics(i, d)
      <4>1. HostDiesIn(d, ld, Connected("group", ihost[i], d))
        BY <3>3 DEF InitPanics
      <4>. HIDE DEF ld
      <4>. QED  BY <3>1, <4>1, EvictOnDeath
    <3>. QED  BY <2>4, <3>2, <3>3 DEF InitCallStep
  <2>5. ASSUME NEW h \in Group, HostStep(h) \/ Crash(h) PROVE EvictInv'
    <3>1. CASE RpcFatal(h) \/ Crash(h)
      BY <3>1, EvictOnDeath DEF RpcFatal, Crash, HostDies
    <3>2. CASE Listen(h) \/ Register(h)
      BY <2>1, <3>2 DEF Listen, Register, Advance, db, reqs, inits
    <3>3. CASE Main(h) \/ Serve(h)
      <4>1. UNCHANGED <<isu, raced, cacheIsu, cacheIsuFromUUID, ins, ipc>>
        BY <3>3 DEF Main, Serve, Advance, db, caches, reqs, inits
      <4>. SUFFICES ASSUME NEW e \in Group PROVE EvictAt(e)'
        BY DEF EvictInv
      <4>2. \A l \in Loader : load'[e][l] = load[e][l] \/ (e = h /\ l = Boot)
        <5>1. PICK x : load' = [load EXCEPT ![h][Boot] = x]
          BY <3>3 DEF Main, Serve
        <5>. QED  BY <1>0, <2>00, <5>1 DEF LoadType
      <4>3. \/ load'[h][Boot].rows = load[h][Boot].rows /\ load'[h][Boot].stage = "clearPair"
               /\ load'[h][Boot].cur = load[h][Boot].cur
            \/ load'[h][Boot] = Idle
        <5>1. CASE Main(h)
          <6>1. load'[h][Boot] = [load[h][Boot] EXCEPT !.stage = "clearPair"]
            BY <1>0, <2>00, <5>1 DEF Main, LoadType
          <6>. QED  BY <1>0, <2>00, <6>1 DEF LoadRun
        <5>2. CASE Serve(h)
          BY <1>0, <2>00, <5>2 DEF Serve, LoadType
        <5>. QED  BY <3>3, <5>1, <5>2
      <4>4. /\ PairStale(e) => PairStale(e)'
            /\ UuidStale(e) => UuidStale(e)'
        BY <1>0, <4>1, <4>2 DEF PairStale, UuidStale, Dropping
      <4>. QED  BY <4>1, <4>2, <4>3, <4>4, EvictKept DEF EvictInv, Idle
    <3>. QED  BY <2>5, <3>1, <3>2, <3>3 DEF HostStep
  <2>6. ASSUME NEW h \in Group, NEW l \in Loader, LoadStep(h, l) PROVE EvictInv'
    <3>1. CASE SelectFatal(h, l)
      BY <3>1, EvictOnDeath DEF SelectFatal, HostDies
    <3>. QED  BY <2>6, <3>1, EvictByLoad
  <2>. QED
    BY <2>2, <2>3, <2>4, <2>5, <2>6, EvictByReset, EvictByInsert DEF Next
<1>. QED  BY <1>1, <1>2, TypeCorrect, PTL DEF Spec

(* Resets that have all answered 200 leave no ISU that they dropped in a   *)
(* map of any process, but for the rows that were on their way into it     *)
(* when they were dropped and those a store put back (main.go:355,         *)
(* 363-402): whatever requests, deaths, restarts and resets overlapped.    *)
THEOREM ResetEvictsCaches == Spec => []InitializeEvicts
<1>1. EvictInv => InitializeEvicts
  <2>. SUFFICES ASSUME EvictInv, Settled, NEW h \in Group PROVE PairKnown(h) /\ UuidKnown(h)
    BY DEF InitializeEvicts, PairKnown, UuidKnown, Known
  <2>1. ~PairStale(h) /\ ~UuidStale(h)
    BY DEF Settled, PairStale, UuidStale, Dropping
  <2>. QED  BY <2>1 DEF EvictInv, EvictAt
<1>. QED  BY <1>1, EvictInvariant, PTL
==============================================================================
