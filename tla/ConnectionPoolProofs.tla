-------------------------- MODULE ConnectionPoolProofs --------------------------
(* Theorems about ConnectionPool: for any number of processes, requests and *)
(* connections the waits of the handlers never close a circle.              *)
EXTENDS ConnectionPool, FiniteSetTheorems, TLAPS

IsPost(q)  == q \in Request /\ HandlerOf[q] = "postIsu"
IsList(q)  == q \in Request /\ HandlerOf[q] = "getIsuList"
IsReset(q) == q \in Request /\ HandlerOf[q] = "postInitialize"
IsPlain(q) == q \in Load \/ (q \in Request /\ HandlerOf[q] \notin {"postIsu", "getIsuList", "postInitialize"})

-----------------------------------------------------------------------------
(* What the programs are made of. *)
LEMMA PostProgram ==
  ASSUME NEW q, IsPost(q)
  PROVE  /\ DOMAIN Program(q) = 1 .. 7 /\ Len(Program(q)) = 7
         /\ Program(q)[1] = Db("user") /\ Program(q)[2] = Begin
         /\ Program(q)[3] = InsertRow /\ Program(q)[4] = GetURL
         /\ Program(q)[5] = AskJIA /\ Program(q)[6] = Tx("isu") /\ Program(q)[7] = Commit
BY PoolAssumption DEF IsPost, Program, Handler, postIsu, getUserIDFromSession, getJIAServiceURL

LEMMA ListProgram ==
  ASSUME NEW q, IsList(q)
  PROVE  /\ DOMAIN Program(q) = 1 .. 5 /\ Len(Program(q)) = 5
         /\ Program(q)[1] = Db("user") /\ Program(q)[2] = Begin
         /\ Program(q)[3] = Tx("isu") /\ Program(q)[4] = Tx("isu_condition")
         /\ Program(q)[5] = Commit
BY PoolAssumption DEF IsList, Program, Handler, getIsuList, getUserIDFromSession

LEMMA ResetProgram ==
  ASSUME NEW q, IsReset(q)
  PROVE  /\ DOMAIN Program(q) = 1 .. 11 /\ Len(Program(q)) = 11
         /\ Program(q)[1] = Drop("config") /\ Program(q)[2] = Drop("isu_condition")
         /\ Program(q)[3] = Drop("isu") /\ Program(q)[4] = Drop("user")
         /\ Program(q)[5] = Op("create", "none") /\ Program(q)[6] = Seed("isu")
         /\ Program(q)[7] = Seed("isu_condition") /\ Program(q)[8] = Seed("user")
         /\ Program(q)[9] = Db("config") /\ Program(q)[10] = Op("notify", "none")
         /\ Program(q)[11] = Op("await", "none")
BY PoolAssumption DEF IsReset, Program, Handler, postInitialize

LEMMA PlainProgram ==
  ASSUME NEW q, IsPlain(q)
  PROVE  /\ Len(Program(q)) \in 1 .. 3 /\ DOMAIN Program(q) = 1 .. Len(Program(q))
         /\ \A k \in DOMAIN Program(q) : Program(q)[k].op = "db" /\ Program(q)[k].table \in Table
         /\ q \in Load => Len(Program(q)) = 1
<1>1. CASE q \in Load
  BY <1>1 DEF Program, initializeCache, Db, Op, Table
<1>2. CASE q \notin Load
  <2>1. q \in Request /\ HandlerOf[q] \in DOMAIN Handler
    BY <1>2, PoolAssumption DEF IsPlain
  <2>2. HandlerOf[q] \in {"postAuthentication", "postSignout", "getMe", "getIsuID",
          "getIsuIcon", "getIsuGraph", "getIsuConditions", "getTrend", "postIsuCondition"}
    BY <1>2, <2>1 DEF IsPlain, Handler
  <2>3. Program(q) \in {<<Db("user")>>, <<Db("user"), Db("isu_condition")>>,
                        <<Db("isu"), Db("isu"), Db("isu_condition")>>, <<Db("isu_condition")>>}
    BY <1>2, <2>2 DEF Program, Handler, postAuthentication, postSignout, getMe, getIsuID,
         getIsuIcon, getIsuGraph, getIsuConditions, getTrend, postIsuCondition,
         getUserIDFromSession
  <2>4. QED BY <1>2, <2>3 DEF Db, Op, Table
<1>3. QED BY <1>1, <1>2

LEMMA Kinds ==
  \A q \in Task :
    \/ IsPost(q) /\ ~IsList(q) /\ ~IsReset(q) /\ ~IsPlain(q)
    \/ IsList(q) /\ ~IsPost(q) /\ ~IsReset(q) /\ ~IsPlain(q)
    \/ IsReset(q) /\ ~IsPost(q) /\ ~IsList(q) /\ ~IsPlain(q)
    \/ IsPlain(q) /\ ~IsPost(q) /\ ~IsList(q) /\ ~IsReset(q)
BY PoolAssumption DEF Task, IsPost, IsList, IsReset, IsPlain

-----------------------------------------------------------------------------
(* What a task holds follows from how far it has got.                      *)
PostConn(a)  == IF a \in {3, 4, 5, 6, 7} THEN {"tx"} ELSE {}
PostLocks(a) == IF a \in {4, 5, 6, 7} THEN {"isu"} ELSE {}
ListConn(a)  == IF a \in {3, 4, 5} THEN {"tx"} ELSE {}
ListLocks(a) == IF a = 4 THEN {"isu"} ELSE IF a = 5 THEN {"isu", "isu_condition"} ELSE {}

TaskInv(q) ==
  /\ at[q] \in Nat /\ at[q] <= Len(Program(q)) + 1
  /\ "stmt" \in conn[q] => At(q, "db")
  /\ IsPost(q) => /\ conn[q] \ {"stmt"} = PostConn(at[q])
                  /\ locks[q] \ {"config"} = PostLocks(at[q])
                  /\ "config" \in locks[q] => at[q] \in {5, 6, 7}
  /\ IsList(q) => conn[q] \ {"stmt"} = ListConn(at[q]) /\ locks[q] = ListLocks(at[q])
  /\ IsReset(q) \/ IsPlain(q) => conn[q] \ {"stmt"} = {} /\ locks[q] = {}

HoldInv ==
  /\ at \in [Task -> Nat]
  /\ conn \in [Task -> SUBSET {"tx", "stmt"}]
  /\ locks \in [Task -> SUBSET Table]
  /\ tables \subseteq Table /\ isu \subseteq {UuidOf[q] : q \in Request}
  /\ \A q \in Task : TaskInv(q)

(* Resets do not overlap, and one that waits for its calls has made them.  *)
ResetInv ==
  /\ \A i, j \in Reset : Running(i) /\ Running(j) => i = j
  /\ \A l \in Load : at[ResetOf[l]] = 11 => at[l] # 0

(* A step of one task that changes nothing of the others.                  *)
LEMMA Alone ==
  ASSUME HoldInv, NEW p \in Task,
         NEW a \in Nat, NEW c \in SUBSET {"tx", "stmt"}, NEW k \in SUBSET Table,
         at' = [at EXCEPT ![p] = a], conn' = [conn EXCEPT ![p] = c],
         locks' = [locks EXCEPT ![p] = k],
         tables' \subseteq Table, isu' \subseteq {UuidOf[q] : q \in Request},
         TaskInv(p)'
  PROVE  HoldInv'
<1>1. /\ at' \in [Task -> Nat] /\ conn' \in [Task -> SUBSET {"tx", "stmt"}]
      /\ locks' \in [Task -> SUBSET Table]
  BY DEF HoldInv
<1>2. ASSUME NEW q \in Task, q # p PROVE TaskInv(q)'
  <2>1. at'[q] = at[q] /\ conn'[q] = conn[q] /\ locks'[q] = locks[q]
    BY <1>2 DEF HoldInv
  <2>2. TaskInv(q)
    BY <1>2 DEF HoldInv
  <2>3. QED BY <2>1, <2>2 DEF TaskInv, At, Running, OpOf
<1>3. QED BY <1>1, <1>2 DEF HoldInv

LEMMA InitHolds == Init => HoldInv /\ ResetInv
<1> SUFFICES ASSUME Init PROVE HoldInv /\ ResetInv
  OBVIOUS
<1>1. ASSUME NEW q \in Task PROVE TaskInv(q)
  <2>1. Len(Program(q)) \in Nat
    BY Kinds, PostProgram, ListProgram, ResetProgram, PlainProgram
  <2>2. QED BY <2>1 DEF Init, TaskInv, PostConn, PostLocks, ListConn, ListLocks
<1>2. \A i \in Reset : ~Running(i)
  <2>1. ASSUME NEW i \in Reset PROVE ~Running(i)
    <3>1. IsReset(i) /\ i \in Task
      BY DEF IsReset, Reset, Task
    <3>2. QED BY <3>1, ResetProgram DEF Init, Running
  <2>2. QED BY <2>1
<1>3. \A l \in Load : at[ResetOf[l]] = 0
  BY PoolAssumption DEF Init, Reset, Task
<1>4. QED BY <1>1, <1>2, <1>3 DEF HoldInv, ResetInv, Init

(* The kinds exclude each other.                                           *)
Kind(q) ==
  /\ IsPost(q) => ~IsList(q) /\ ~IsReset(q) /\ ~IsPlain(q)
  /\ IsList(q) => ~IsPost(q) /\ ~IsReset(q) /\ ~IsPlain(q)
  /\ IsReset(q) => ~IsPost(q) /\ ~IsList(q) /\ ~IsPlain(q)
  /\ IsPlain(q) => ~IsPost(q) /\ ~IsList(q) /\ ~IsReset(q)
  /\ IsPost(q) \/ IsList(q) \/ IsReset(q) \/ IsPlain(q)

-----------------------------------------------------------------------------
(* Which operation a running task is at.                                   *)
Where(q) ==
  /\ at[q] \in Nat \ {0} /\ at[q] <= Len(Program(q))
  /\ IsPost(q) => /\ Len(Program(q)) = 7 /\ at[q] \in 1 .. 7
                  /\ at[q] = 1 <=> OpOf(q) = "db"
                  /\ at[q] = 2 <=> OpOf(q) = "begin"
                  /\ at[q] = 3 <=> OpOf(q) = "insert"
                  /\ at[q] = 4 <=> OpOf(q) = "url"
                  /\ at[q] = 6 <=> OpOf(q) = "tx"
                  /\ at[q] = 5 <=> OpOf(q) = "jia"
                  /\ at[q] = 7 <=> OpOf(q) = "commit"
                  /\ at[q] \in {3, 6} => TableOf(q) = "isu"
                  /\ at[q] = 4 => TableOf(q) = "config"
  /\ IsList(q) => /\ Len(Program(q)) = 5 /\ at[q] \in 1 .. 5
                  /\ at[q] = 1 <=> OpOf(q) = "db"
                  /\ at[q] = 2 <=> OpOf(q) = "begin"
                  /\ at[q] \in {3, 4} <=> OpOf(q) = "tx"
                  /\ at[q] = 5 <=> OpOf(q) = "commit"
                  /\ at[q] = 3 => TableOf(q) = "isu"
                  /\ at[q] = 4 => TableOf(q) = "isu_condition"
  /\ IsReset(q) => /\ Len(Program(q)) = 11 /\ at[q] \in 1 .. 11
                   /\ at[q] \in 1 .. 4 <=> OpOf(q) = "drop"
                   /\ at[q] = 5 <=> OpOf(q) = "create"
                   /\ at[q] \in {6, 7, 8} <=> OpOf(q) = "seed"
                   /\ at[q] = 9 <=> OpOf(q) = "db"
                   /\ at[q] = 10 <=> OpOf(q) = "notify"
                   /\ at[q] = 11 <=> OpOf(q) = "await"
  /\ IsPlain(q) => OpOf(q) = "db" /\ Len(Program(q)) \in Nat /\ at[q] <= Len(Program(q))

LEMMA Placed ==
  ASSUME NEW q \in Task, Running(q)
  PROVE  Where(q)
<1> USE DEF Where, Op
<1>0. at[q] \in DOMAIN Program(q) /\ OpOf(q) = Program(q)[at[q]].op
        /\ TableOf(q) = Program(q)[at[q]].table
  BY DEF Running, OpOf, TableOf
<1>1. CASE IsPost(q)
  <2>1. ~IsList(q) /\ ~IsReset(q) /\ ~IsPlain(q)
    BY <1>1, Kinds
  <2>2. at[q] \in 1 .. 7 /\ Len(Program(q)) = 7
    BY <1>0, <1>1, PostProgram
  <2>3. at[q] \in {1, 2, 3, 4, 5, 6, 7}
    BY <2>2
  <2>4. /\ at[q] = 1 => OpOf(q) = "db"
        /\ at[q] = 2 => OpOf(q) = "begin"
        /\ at[q] = 3 => OpOf(q) = "insert" /\ TableOf(q) = "isu"
        /\ at[q] = 4 => OpOf(q) = "url" /\ TableOf(q) = "config"
        /\ at[q] = 5 => OpOf(q) = "jia"
        /\ at[q] = 6 => OpOf(q) = "tx" /\ TableOf(q) = "isu"
        /\ at[q] = 7 => OpOf(q) = "commit"
    BY <1>0, <1>1, PostProgram DEF Db, Begin, Tx, InsertRow, GetURL, AskJIA, Commit
  <2>5. QED BY <2>1, <2>2, <2>3, <2>4, <1>1
<1>2. CASE IsList(q)
  <2>1. ~IsPost(q) /\ ~IsReset(q) /\ ~IsPlain(q)
    BY <1>2, Kinds
  <2>2. at[q] \in 1 .. 5 /\ Len(Program(q)) = 5
    BY <1>0, <1>2, ListProgram
  <2>3. at[q] \in {1, 2, 3, 4, 5}
    BY <2>2
  <2>4. /\ at[q] = 1 => OpOf(q) = "db"
        /\ at[q] = 2 => OpOf(q) = "begin"
        /\ at[q] = 3 => OpOf(q) = "tx" /\ TableOf(q) = "isu"
        /\ at[q] = 4 => OpOf(q) = "tx" /\ TableOf(q) = "isu_condition"
        /\ at[q] = 5 => OpOf(q) = "commit"
    BY <1>0, <1>2, ListProgram DEF Db, Begin, Tx, Commit
  <2>5. QED BY <2>1, <2>2, <2>3, <2>4, <1>2
<1>3. CASE IsReset(q)
  <2>1. ~IsPost(q) /\ ~IsList(q) /\ ~IsPlain(q)
    BY <1>3, Kinds
  <2>2. at[q] \in 1 .. 11 /\ Len(Program(q)) = 11
    BY <1>0, <1>3, ResetProgram
  <2>3. at[q] \in {1, 2, 3, 4, 5, 6, 7, 8, 9, 10, 11}
    BY <2>2
  <2>4. /\ at[q] \in {1, 2, 3, 4} => OpOf(q) = "drop"
        /\ at[q] = 5 => OpOf(q) = "create"
        /\ at[q] \in {6, 7, 8} => OpOf(q) = "seed"
        /\ at[q] = 9 => OpOf(q) = "db"
        /\ at[q] = 10 => OpOf(q) = "notify"
        /\ at[q] = 11 => OpOf(q) = "await"
    BY <1>0, <1>3, ResetProgram DEF Db, Drop, Seed
  <2>5. QED BY <2>1, <2>2, <2>3, <2>4, <1>3
<1>4. CASE IsPlain(q)
  <2>1. ~IsPost(q) /\ ~IsList(q) /\ ~IsReset(q)
    BY <1>4, Kinds
  <2>2. QED BY <1>0, <1>4, <2>1, PlainProgram
<1>5. QED BY <1>1, <1>2, <1>3, <1>4, Kinds

-----------------------------------------------------------------------------
(* Each action keeps HoldInv.                                              *)
LEMMA Lengths == \A q \in Task : Len(Program(q)) \in Nat \ {0}
<1> SUFFICES ASSUME NEW q \in Task PROVE Len(Program(q)) \in Nat \ {0}
  OBVIOUS
<1>1. CASE IsPost(q)
  BY <1>1, PostProgram
<1>2. CASE IsList(q)
  BY <1>2, ListProgram
<1>3. CASE IsReset(q)
  BY <1>3, ResetProgram
<1>4. CASE IsPlain(q)
  BY <1>4, PlainProgram
<1>5. QED BY <1>1, <1>2, <1>3, <1>4, Kinds

LEMMA PostKept ==
  ASSUME NEW p \in Task, IsPost(p), at'[p] \in {2, 3, 4, 5, 6, 7, 8},
         conn'[p] = PostConn(at'[p]), locks'[p] \ {"config"} = PostLocks(at'[p]),
         "config" \in locks'[p] => at'[p] \in {5, 6, 7}
  PROVE  TaskInv(p)'
<1>1. ~IsList(p) /\ ~IsReset(p) /\ ~IsPlain(p) /\ Len(Program(p)) = 7
  BY Kinds, PostProgram
<1>2. "stmt" \notin conn'[p]
  BY DEF PostConn
<1>3. conn'[p] \ {"stmt"} = conn'[p]
  BY <1>2
<1>4. QED BY <1>1, <1>2, <1>3 DEF TaskInv

LEMMA ListKept ==
  ASSUME NEW p \in Task, IsList(p), at'[p] \in {2, 3, 4, 5, 6},
         conn'[p] = ListConn(at'[p]), locks'[p] = ListLocks(at'[p])
  PROVE  TaskInv(p)'
<1>1. ~IsPost(p) /\ ~IsReset(p) /\ ~IsPlain(p) /\ Len(Program(p)) = 5
  BY Kinds, ListProgram
<1>2. "stmt" \notin conn'[p]
  BY DEF ListConn
<1>3. conn'[p] \ {"stmt"} = conn'[p]
  BY <1>2
<1>4. QED BY <1>1, <1>2, <1>3 DEF TaskInv

LEMMA RestKept ==
  ASSUME NEW p \in Task, IsReset(p) \/ IsPlain(p),
         at'[p] \in Nat, at'[p] <= Len(Program(p)) + 1, conn'[p] = {}, locks'[p] = {}
  PROVE  TaskInv(p)'
<1>1. ~IsPost(p) /\ ~IsList(p)
  BY Kinds
<1>2. QED BY <1>1 DEF TaskInv

LEMMA ArriveHolds ==
  ASSUME HoldInv, NEW p \in Request, Arrive(p)
  PROVE  HoldInv'
<1>1. p \in Task /\ TaskInv(p) /\ at[p] = 0 /\ Len(Program(p)) \in Nat \ {0}
  BY Lengths DEF Task, HoldInv, Arrive
<1>2. at'[p] = 1 /\ conn'[p] = conn[p] /\ locks'[p] = locks[p]
  BY <1>1 DEF HoldInv, Arrive
<1>3. ~At(p, "db") /\ 1 \in Nat
  BY <1>1, Kinds, PostProgram, ListProgram, ResetProgram, PlainProgram DEF At, Running
<1>4. TaskInv(p)'
  BY <1>1, <1>2, <1>3 DEF TaskInv, PostConn, PostLocks, ListConn, ListLocks
<1>5. conn' = [conn EXCEPT ![p] = conn[p]] /\ locks' = [locks EXCEPT ![p] = locks[p]]
  BY DEF HoldInv, Arrive
<1>6. conn[p] \in SUBSET {"tx", "stmt"} /\ locks[p] \in SUBSET Table
  BY <1>1 DEF HoldInv
<1>7. QED BY <1>1, <1>3, <1>4, <1>5, <1>6, Alone DEF HoldInv, Arrive

LEMMA AcquireHolds ==
  ASSUME HoldInv, NEW p \in Task, Acquire(p)
  PROVE  HoldInv'
<1>1. /\ TaskInv(p) /\ at[p] \in Nat
      /\ conn[p] \in SUBSET {"tx", "stmt"} /\ locks[p] \in SUBSET Table
      /\ conn[p] \cup {"stmt"} \in SUBSET {"tx", "stmt"}
  BY DEF HoldInv
<1>2. at'[p] = at[p] /\ conn'[p] = conn[p] \cup {"stmt"} /\ locks'[p] = locks[p] /\ At(p, "db")
  BY DEF HoldInv, Acquire
<1>3. conn'[p] \ {"stmt"} = conn[p] \ {"stmt"} /\ At(p, "db")'
  BY <1>2 DEF At, Running, OpOf
<1>4. TaskInv(p)'
  BY <1>1, <1>2, <1>3 DEF TaskInv
<1>5. at' = [at EXCEPT ![p] = at[p]] /\ locks' = [locks EXCEPT ![p] = locks[p]]
        /\ conn' = [conn EXCEPT ![p] = conn[p] \cup {"stmt"}]
  BY DEF HoldInv, Acquire
<1>6. QED BY <1>1, <1>4, <1>5, Alone DEF HoldInv, Acquire

LEMMA ExecuteHolds ==
  ASSUME HoldInv, NEW p \in Task, Execute(p)
  PROVE  HoldInv'
<1>1. /\ p \in Task /\ TaskInv(p) /\ at[p] + 1 \in Nat
      /\ conn[p] \ {"stmt"} \in SUBSET {"tx", "stmt"} /\ locks[p] \in SUBSET Table
  BY DEF HoldInv, Task
<1>2. /\ at'[p] = at[p] + 1 /\ conn'[p] = conn[p] \ {"stmt"} /\ locks'[p] = locks[p]
      /\ OpOf(p) = "db" /\ Where(p)
  BY <1>1, Placed DEF HoldInv, Execute, Go, At
<1>3. /\ at' = [at EXCEPT ![p] = at[p] + 1]
      /\ conn' = [conn EXCEPT ![p] = conn[p] \ {"stmt"}]
      /\ locks' = [locks EXCEPT ![p] = locks[p]]
  BY DEF HoldInv, Execute, Go
<1>4. TaskInv(p)'
  <2>1. CASE IsPost(p)
    <3>1. at[p] \in {1}
      BY <1>2, <2>1 DEF Where
    <3>2. /\ conn[p] \ {"stmt"} = PostConn(at[p]) /\ locks[p] \ {"config"} = PostLocks(at[p])
          /\ "config" \in locks[p] => at[p] \in {5, 6, 7}
      BY <1>1, <2>1 DEF TaskInv
    <3>3. /\ conn'[p] = PostConn(at'[p]) /\ locks'[p] \ {"config"} = PostLocks(at'[p])
          /\ "config" \in locks'[p] => at'[p] \in {5, 6, 7}
      BY <1>2, <2>1, <3>1, <3>2 DEF PostConn, PostLocks
    <3>4. at'[p] \in {2}
      BY <1>2, <3>1
    <3>5. QED BY <1>1, <2>1, <3>3, <3>4, PostKept
  <2>2. CASE IsList(p)
    <3>1. at[p] \in {1}
      BY <1>2, <2>2 DEF Where
    <3>2. conn[p] \ {"stmt"} = ListConn(at[p]) /\ locks[p] = ListLocks(at[p])
      BY <1>1, <2>2 DEF TaskInv
    <3>3. conn'[p] = ListConn(at'[p]) /\ locks'[p] = ListLocks(at'[p])
      BY <1>2, <2>2, <3>1, <3>2 DEF ListConn, ListLocks
    <3>4. at'[p] \in {2}
      BY <1>2, <3>1
    <3>5. QED BY <1>1, <2>2, <3>3, <3>4, ListKept
  <2>3. CASE IsReset(p) \/ IsPlain(p)
    <3>1. Len(Program(p)) \in Nat /\ at[p] <= Len(Program(p))
      BY <1>1, <1>2, Lengths DEF Where
    <3>2. conn'[p] = {} /\ locks'[p] = {}
      BY <1>1, <1>2, <2>3 DEF TaskInv
    <3>3. at'[p] \in Nat /\ at'[p] <= Len(Program(p)) + 1
      <4>1. at[p] \in Nat /\ at'[p] = at[p] + 1
        BY <1>2 DEF HoldInv
      <4>2. QED BY <3>1, <4>1
    <3>4. QED BY <1>1, <2>3, <3>2, <3>3, RestKept
  <2>4. QED BY <1>1, <2>1, <2>2, <2>3, Kinds
<1>5. tables' \subseteq Table /\ isu' \subseteq {UuidOf[q] : q \in Request}
  BY DEF HoldInv, Execute
<1>6. QED BY <1>1, <1>3, <1>4, <1>5, Alone

LEMMA BeginxHolds ==
  ASSUME HoldInv, NEW p \in Task, Beginx(p)
  PROVE  HoldInv'
<1>1. /\ p \in Task /\ TaskInv(p) /\ at[p] + 1 \in Nat
      /\ conn[p] \cup {"tx"} \in SUBSET {"tx", "stmt"} /\ locks[p] \in SUBSET Table
  BY DEF HoldInv, Task
<1>2. /\ at'[p] = at[p] + 1 /\ conn'[p] = conn[p] \cup {"tx"} /\ locks'[p] = locks[p]
      /\ OpOf(p) = "begin" /\ Where(p) /\ "stmt" \notin conn[p]
  BY <1>1, Placed DEF HoldInv, Beginx, TaskInv, Go, At
<1>3. /\ at' = [at EXCEPT ![p] = at[p] + 1]
      /\ conn' = [conn EXCEPT ![p] = conn[p] \cup {"tx"}]
      /\ locks' = [locks EXCEPT ![p] = locks[p]]
  BY DEF HoldInv, Beginx, Go
<1>4. TaskInv(p)'
  <2>1. CASE IsPost(p)
    <3>1. at[p] \in {2}
      BY <1>2, <2>1 DEF Where
    <3>2. /\ conn[p] \ {"stmt"} = PostConn(at[p]) /\ locks[p] \ {"config"} = PostLocks(at[p])
          /\ "config" \in locks[p] => at[p] \in {5, 6, 7}
      BY <1>1, <2>1 DEF TaskInv
    <3>3. /\ conn'[p] = PostConn(at'[p]) /\ locks'[p] \ {"config"} = PostLocks(at'[p])
          /\ "config" \in locks'[p] => at'[p] \in {5, 6, 7}
      BY <1>2, <2>1, <3>1, <3>2 DEF PostConn, PostLocks
    <3>4. at'[p] \in {3}
      BY <1>2, <3>1
    <3>5. QED BY <1>1, <2>1, <3>3, <3>4, PostKept
  <2>2. CASE IsList(p)
    <3>1. at[p] \in {2}
      BY <1>2, <2>2 DEF Where
    <3>2. conn[p] \ {"stmt"} = ListConn(at[p]) /\ locks[p] = ListLocks(at[p])
      BY <1>1, <2>2 DEF TaskInv
    <3>3. conn'[p] = ListConn(at'[p]) /\ locks'[p] = ListLocks(at'[p])
      BY <1>2, <2>2, <3>1, <3>2 DEF ListConn, ListLocks
    <3>4. at'[p] \in {3}
      BY <1>2, <3>1
    <3>5. QED BY <1>1, <2>2, <3>3, <3>4, ListKept
  <2>3. CASE IsReset(p) \/ IsPlain(p)
    BY <1>2, <2>3 DEF Where
  <2>4. QED BY <1>1, <2>1, <2>2, <2>3, Kinds
<1>5. tables' \subseteq Table /\ isu' \subseteq {UuidOf[q] : q \in Request}
  BY DEF HoldInv, Beginx
<1>6. QED BY <1>1, <1>3, <1>4, <1>5, Alone

LEMMA ExecuteTxHolds ==
  ASSUME HoldInv, NEW p \in Task, ExecuteTx(p)
  PROVE  HoldInv'
<1>1. /\ p \in Task /\ TaskInv(p) /\ at[p] + 1 \in Nat
      /\ conn[p] \in SUBSET {"tx", "stmt"} /\ locks[p] \cup {TableOf(p)} \in SUBSET Table
  BY DEF HoldInv, Task, ExecuteTx
<1>2. /\ at'[p] = at[p] + 1 /\ conn'[p] = conn[p] /\ locks'[p] = locks[p] \cup {TableOf(p)}
      /\ OpOf(p) \in {"tx", "insert"} /\ Where(p) /\ "stmt" \notin conn[p]
  BY <1>1, Placed DEF HoldInv, ExecuteTx, TaskInv, Go, At
<1>3. /\ at' = [at EXCEPT ![p] = at[p] + 1]
      /\ conn' = [conn EXCEPT ![p] = conn[p]]
      /\ locks' = [locks EXCEPT ![p] = locks[p] \cup {TableOf(p)}]
  BY DEF HoldInv, ExecuteTx, Go
<1>4. TaskInv(p)'
  <2>1. CASE IsPost(p)
    <3>1. at[p] \in {3, 6}
      BY <1>2, <2>1 DEF Where
    <3>2. /\ conn[p] \ {"stmt"} = PostConn(at[p]) /\ locks[p] \ {"config"} = PostLocks(at[p])
          /\ "config" \in locks[p] => at[p] \in {5, 6, 7}
      BY <1>1, <2>1 DEF TaskInv
    <3>3. /\ conn'[p] = PostConn(at'[p]) /\ locks'[p] \ {"config"} = PostLocks(at'[p])
          /\ "config" \in locks'[p] => at'[p] \in {5, 6, 7}
      <4>1. CASE at[p] = 3
        BY <1>2, <2>1, <3>2, <4>1 DEF PostConn, PostLocks, Where
      <4>2. CASE at[p] = 6
        BY <1>2, <2>1, <3>2, <4>2 DEF PostConn, PostLocks, Where
      <4>3. QED BY <3>1, <4>1, <4>2
    <3>4. at'[p] \in {4, 7}
      BY <1>2, <3>1
    <3>5. QED BY <1>1, <2>1, <3>3, <3>4, PostKept
  <2>2. CASE IsList(p)
    <3>1. at[p] \in {3, 4}
      BY <1>2, <2>2 DEF Where
    <3>2. conn[p] \ {"stmt"} = ListConn(at[p]) /\ locks[p] = ListLocks(at[p])
      BY <1>1, <2>2 DEF TaskInv
    <3>3. conn'[p] = ListConn(at'[p]) /\ locks'[p] = ListLocks(at'[p])
      <4>1. CASE at[p] = 3
        BY <1>2, <2>2, <3>2, <4>1 DEF ListConn, ListLocks, Where
      <4>2. CASE at[p] = 4
        BY <1>2, <2>2, <3>2, <4>2 DEF ListConn, ListLocks, Where
      <4>3. QED BY <3>1, <4>1, <4>2
    <3>4. at'[p] \in {4, 5}
      BY <1>2, <3>1
    <3>5. QED BY <1>1, <2>2, <3>3, <3>4, ListKept
  <2>3. CASE IsReset(p) \/ IsPlain(p)
    BY <1>2, <2>3 DEF Where
  <2>4. QED BY <1>1, <2>1, <2>2, <2>3, Kinds
<1>5. tables' \subseteq Table /\ isu' \subseteq {UuidOf[q] : q \in Request}
  BY DEF HoldInv, ExecuteTx
<1>6. QED BY <1>1, <1>3, <1>4, <1>5, Alone

LEMMA ReadURLHolds ==
  ASSUME HoldInv, NEW p \in Task, ReadURL(p)
  PROVE  HoldInv'
<1>1. PICK k \in {locks[p], locks[p] \cup {"config"}} : locks' = [locks EXCEPT ![p] = k]
  <2>1. CASE UNCHANGED locks
    <3>1. locks' = [locks EXCEPT ![p] = locks[p]]
      BY <2>1 DEF HoldInv
    <3>2. QED BY <3>1
  <2>2. CASE locks' = [locks EXCEPT ![p] = locks[p] \cup {"config"}]
    BY <2>2
  <2>3. QED BY <2>1, <2>2 DEF ReadURL
<1>2. /\ TaskInv(p) /\ at[p] + 1 \in Nat
      /\ conn[p] \in SUBSET {"tx", "stmt"} /\ k \in SUBSET Table
  BY DEF HoldInv, Table
<1>3. /\ at'[p] = at[p] + 1 /\ conn'[p] = conn[p] /\ locks'[p] = k
      /\ OpOf(p) = "url" /\ Where(p) /\ "stmt" \notin conn[p]
  BY <1>1, <1>2, Placed DEF HoldInv, ReadURL, TaskInv, Go, At
<1>4. /\ at' = [at EXCEPT ![p] = at[p] + 1]
      /\ conn' = [conn EXCEPT ![p] = conn[p]]
  BY DEF HoldInv, ReadURL, Go
<1>5. TaskInv(p)'
  <2>1. CASE IsPost(p)
    <3>1. at[p] \in {4}
      BY <1>3, <2>1 DEF Where
    <3>2. conn[p] \ {"stmt"} = PostConn(at[p]) /\ locks[p] \ {"config"} = PostLocks(at[p])
      BY <1>2, <2>1 DEF TaskInv
    <3>3. at'[p] \in {5}
      BY <1>3, <3>1
    <3>4. locks'[p] \ {"config"} = locks[p] \ {"config"}
      BY <1>1, <1>3
    <3>5. conn'[p] = PostConn(at'[p]) /\ locks'[p] \ {"config"} = PostLocks(at'[p])
      BY <1>3, <3>1, <3>2, <3>3, <3>4 DEF PostConn, PostLocks
    <3>6. QED BY <2>1, <3>3, <3>5, PostKept
  <2>2. CASE IsList(p)
    BY <1>3, <2>2 DEF Where
  <2>3. CASE IsReset(p) \/ IsPlain(p)
    BY <1>3, <2>3 DEF Where
  <2>4. QED BY <2>1, <2>2, <2>3, Kinds
<1>6. tables' \subseteq Table /\ isu' \subseteq {UuidOf[q] : q \in Request}
  BY DEF HoldInv, ReadURL
<1>7. QED BY <1>1, <1>2, <1>4, <1>5, <1>6, Alone

LEMMA AnswerHolds ==
  ASSUME HoldInv, NEW p \in Task, AnswerOfJIA(p)
  PROVE  HoldInv'
<1>1. /\ p \in Task /\ TaskInv(p) /\ at[p] + 1 \in Nat
      /\ conn[p] \in SUBSET {"tx", "stmt"} /\ locks[p] \in SUBSET Table
  BY DEF HoldInv, Task
<1>2. /\ at'[p] = at[p] + 1 /\ conn'[p] = conn[p] /\ locks'[p] = locks[p]
      /\ OpOf(p) = "jia" /\ Where(p) /\ "stmt" \notin conn[p]
  BY <1>1, Placed DEF HoldInv, AnswerOfJIA, TaskInv, Go, At
<1>3. /\ at' = [at EXCEPT ![p] = at[p] + 1]
      /\ conn' = [conn EXCEPT ![p] = conn[p]]
      /\ locks' = [locks EXCEPT ![p] = locks[p]]
  BY DEF HoldInv, AnswerOfJIA, Go
<1>4. TaskInv(p)'
  <2>1. CASE IsPost(p)
    <3>1. at[p] \in {5}
      BY <1>2, <2>1 DEF Where
    <3>2. /\ conn[p] \ {"stmt"} = PostConn(at[p]) /\ locks[p] \ {"config"} = PostLocks(at[p])
          /\ "config" \in locks[p] => at[p] \in {5, 6, 7}
      BY <1>1, <2>1 DEF TaskInv
    <3>3. /\ conn'[p] = PostConn(at'[p]) /\ locks'[p] \ {"config"} = PostLocks(at'[p])
          /\ "config" \in locks'[p] => at'[p] \in {5, 6, 7}
      BY <1>2, <2>1, <3>1, <3>2 DEF PostConn, PostLocks
    <3>4. at'[p] \in {6}
      BY <1>2, <3>1
    <3>5. QED BY <1>1, <2>1, <3>3, <3>4, PostKept
  <2>2. CASE IsList(p)
    BY <1>2, <2>2 DEF Where
  <2>3. CASE IsReset(p) \/ IsPlain(p)
    BY <1>2, <2>3 DEF Where
  <2>4. QED BY <1>1, <2>1, <2>2, <2>3, Kinds
<1>5. tables' \subseteq Table /\ isu' \subseteq {UuidOf[q] : q \in Request}
  BY DEF HoldInv, AnswerOfJIA
<1>6. QED BY <1>1, <1>3, <1>4, <1>5, Alone

LEMMA CommitHolds ==
  ASSUME HoldInv, NEW p \in Request, CommitTx(p)
  PROVE  HoldInv'
<1>1. /\ p \in Task /\ TaskInv(p) /\ at[p] + 1 \in Nat
      /\ conn[p] \ {"tx"} \in SUBSET {"tx", "stmt"} /\ {} \in SUBSET Table
  BY DEF HoldInv, Task
<1>2. /\ at'[p] = at[p] + 1 /\ conn'[p] = conn[p] \ {"tx"} /\ locks'[p] = {}
      /\ OpOf(p) = "commit" /\ Where(p) /\ "stmt" \notin conn[p]
  BY <1>1, Placed DEF HoldInv, CommitTx, TaskInv, Go, At
<1>3. /\ at' = [at EXCEPT ![p] = at[p] + 1]
      /\ conn' = [conn EXCEPT ![p] = conn[p] \ {"tx"}]
      /\ locks' = [locks EXCEPT ![p] = {}]
  BY DEF HoldInv, CommitTx, Go
<1>4. TaskInv(p)'
  <2>1. CASE IsPost(p)
    <3>1. at[p] \in {7}
      BY <1>2, <2>1 DEF Where
    <3>2. /\ conn[p] \ {"stmt"} = PostConn(at[p]) /\ locks[p] \ {"config"} = PostLocks(at[p])
          /\ "config" \in locks[p] => at[p] \in {5, 6, 7}
      BY <1>1, <2>1 DEF TaskInv
    <3>3. /\ conn'[p] = PostConn(at'[p]) /\ locks'[p] \ {"config"} = PostLocks(at'[p])
          /\ "config" \in locks'[p] => at'[p] \in {5, 6, 7}
      BY <1>2, <2>1, <3>1, <3>2 DEF PostConn, PostLocks
    <3>4. at'[p] \in {8}
      BY <1>2, <3>1
    <3>5. QED BY <1>1, <2>1, <3>3, <3>4, PostKept
  <2>2. CASE IsList(p)
    <3>1. at[p] \in {5}
      BY <1>2, <2>2 DEF Where
    <3>2. conn[p] \ {"stmt"} = ListConn(at[p]) /\ locks[p] = ListLocks(at[p])
      BY <1>1, <2>2 DEF TaskInv
    <3>3. conn'[p] = ListConn(at'[p]) /\ locks'[p] = ListLocks(at'[p])
      BY <1>2, <2>2, <3>1, <3>2 DEF ListConn, ListLocks
    <3>4. at'[p] \in {6}
      BY <1>2, <3>1
    <3>5. QED BY <1>1, <2>2, <3>3, <3>4, ListKept
  <2>3. CASE IsReset(p) \/ IsPlain(p)
    BY <1>2, <2>3 DEF Where
  <2>4. QED BY <1>1, <2>1, <2>2, <2>3, Kinds
<1>5. tables' \subseteq Table /\ isu' \subseteq {UuidOf[q] : q \in Request}
  BY DEF HoldInv, CommitTx
<1>6. QED BY <1>1, <1>3, <1>4, <1>5, Alone

LEMMA ReturnHolds ==
  ASSUME HoldInv, NEW p \in Task, ReturnEarly(p)
  PROVE  HoldInv'
<1>1. /\ TaskInv(p) /\ Len(Program(p)) + 1 \in Nat
      /\ {} \in SUBSET {"tx", "stmt"} /\ {} \in SUBSET Table
  BY Lengths DEF HoldInv
<1>2. at'[p] = Len(Program(p)) + 1 /\ conn'[p] = {} /\ locks'[p] = {}
  BY DEF HoldInv, ReturnEarly
<1>3. TaskInv(p)'
  <2>1. CASE IsPost(p)
    <3>0. Len(Program(p)) = 7
      BY <2>1, PostProgram
    <3>1. at'[p] = 8
      BY <1>2, <3>0
    <3>2. /\ conn'[p] = PostConn(at'[p]) /\ locks'[p] \ {"config"} = PostLocks(at'[p])
          /\ "config" \notin locks'[p]
      BY <1>2, <3>1 DEF PostConn, PostLocks
    <3>3. QED BY <2>1, <3>1, <3>2, PostKept
  <2>2. CASE IsList(p)
    <3>0. Len(Program(p)) = 5
      BY <2>2, ListProgram
    <3>1. at'[p] = 6
      BY <1>2, <3>0
    <3>2. conn'[p] = ListConn(at'[p]) /\ locks'[p] = ListLocks(at'[p])
      BY <1>2, <3>1 DEF ListConn, ListLocks
    <3>3. QED BY <2>2, <3>1, <3>2, ListKept
  <2>3. CASE IsReset(p) \/ IsPlain(p)
    BY <1>1, <1>2, <2>3, RestKept
  <2>4. QED BY <2>1, <2>2, <2>3, Kinds
<1>4. QED BY <1>1, <1>3, Alone DEF HoldInv, ReturnEarly

(* A step of a reset.                                                      *)
LEMMA ResetKept ==
  ASSUME HoldInv, NEW p \in Reset, Running(p), OpOf(p) # "db", NEW a \in 1 .. 12,
         at' = [at EXCEPT ![p] = a], UNCHANGED <<conn, locks>>,
         tables' \subseteq Table, isu' \subseteq {UuidOf[q] : q \in Request}
  PROVE  HoldInv'
<1>1. p \in Task /\ IsReset(p) /\ TaskInv(p) /\ Len(Program(p)) = 11 /\ a \in Nat
  BY ResetProgram DEF HoldInv, Reset, Task, IsReset
<1>2. conn[p] = {} /\ locks[p] = {}
  BY <1>1 DEF TaskInv, At
<1>3. conn[p] \in SUBSET {"tx", "stmt"} /\ locks[p] \in SUBSET Table
  BY <1>1 DEF HoldInv
<1>4. /\ conn' = [conn EXCEPT ![p] = conn[p]] /\ locks' = [locks EXCEPT ![p] = locks[p]]
      /\ at'[p] = a /\ conn'[p] = {} /\ locks'[p] = {}
  BY <1>1, <1>2 DEF HoldInv
<1>5. at'[p] \in Nat /\ at'[p] <= Len(Program(p)) + 1
  BY <1>1, <1>4
<1>6. TaskInv(p)'
  BY <1>1, <1>4, <1>5, RestKept
<1>7. QED BY <1>1, <1>3, <1>4, <1>6, Alone

LEMMA ResetPlaced ==
  ASSUME NEW p \in Reset, Running(p)
  PROVE  /\ p \in Task /\ IsReset(p) /\ Where(p) /\ Len(Program(p)) = 11 /\ at[p] \in 1 .. 11
BY Placed, ResetProgram DEF Reset, Task, IsReset, Where

LEMMA ResetStepHolds ==
  ASSUME HoldInv, NEW p \in Reset, ResetStep(p)
  PROVE  HoldInv'
<1>1. CASE DropTable(p)
  <2>1. /\ Running(p) /\ OpOf(p) = "drop" /\ at' = [at EXCEPT ![p] = at[p] + 1]
        /\ UNCHANGED <<conn, locks>> /\ tables' \subseteq Table
        /\ isu' \subseteq {UuidOf[q] : q \in Request}
    BY <1>1 DEF DropTable, Go, At, HoldInv
  <2>2. at[p] + 1 \in 1 .. 12
    BY <2>1, ResetPlaced
  <2>3. QED BY <2>1, <2>2, ResetKept
<1>2. CASE CreateTables(p)
  <2>1. /\ Running(p) /\ OpOf(p) = "create" /\ at' = [at EXCEPT ![p] = at[p] + 1]
        /\ UNCHANGED <<conn, locks>> /\ tables' \subseteq Table
        /\ isu' \subseteq {UuidOf[q] : q \in Request}
    BY <1>2 DEF CreateTables, Go, At, HoldInv
  <2>2. at[p] + 1 \in 1 .. 12
    BY <2>1, ResetPlaced
  <2>3. QED BY <2>1, <2>2, ResetKept
<1>3. CASE LoadSeeds(p)
  <2>1. /\ Running(p) /\ OpOf(p) = "seed"
        /\ UNCHANGED <<conn, locks>> /\ tables' \subseteq Table
        /\ isu' \subseteq {UuidOf[q] : q \in Request}
    BY <1>3 DEF LoadSeeds, At, HoldInv
  <2>2. PICK a \in {at[p] + 1, Len(Program(p)) + 1} : at' = [at EXCEPT ![p] = a]
    BY <1>3 DEF LoadSeeds
  <2>3. at[p] \in 1 .. 11 /\ Len(Program(p)) = 11
    BY <2>1, ResetPlaced
  <2>4. a \in 1 .. 12
    BY <2>2, <2>3
  <2>5. QED BY <2>1, <2>2, <2>4, ResetKept
<1>4. CASE Notify(p)
  <2>1. p \in Task /\ p \notin Load /\ Running(p) /\ OpOf(p) = "notify"
    BY <1>4, PoolAssumption DEF Notify, At, Reset, Task
  <2>2. at[p] + 1 \in 1 .. 12 /\ IsReset(p) /\ Len(Program(p)) = 11
    BY <2>1, ResetPlaced
  <2>3. /\ at' = [q \in Task |-> IF q = p THEN at[q] + 1
                                 ELSE IF q \in Load /\ ResetOf[q] = p THEN 1 ELSE at[q]]
        /\ conn' = conn /\ locks' = locks
    BY <1>4 DEF Notify
  <2>4. at' \in [Task -> Nat]
    BY <2>2, <2>3 DEF HoldInv
  <2>5. ASSUME NEW q \in Task PROVE TaskInv(q)'
    <3>1. TaskInv(q)
      BY DEF HoldInv
    <3>2. CASE q = p
      <4>1. at'[q] = at[p] + 1
        BY <2>3, <3>2
      <4>2. "stmt" \notin conn[q] /\ conn[q] \ {"stmt"} = {} /\ locks[q] = {}
        BY <2>1, <2>2, <3>1, <3>2 DEF TaskInv, At
      <4>3. conn'[q] = {} /\ locks'[q] = {}
        BY <2>3, <4>2
      <4>4. at'[q] \in Nat /\ at'[q] <= Len(Program(q)) + 1
        <5>1. at'[q] \in 1 .. 12 /\ Len(Program(q)) = 11
          BY <2>2, <3>2, <4>1
        <5>2. QED BY <5>1
      <4>5. QED BY <2>2, <3>2, <4>3, <4>4, RestKept
    <3>3. CASE q # p /\ q \in Load /\ ResetOf[q] = p
      <4>1. at'[q] = 1
        BY <2>3, <3>3
      <4>2. IsPlain(q) /\ ~IsPost(q) /\ ~IsList(q) /\ Len(Program(q)) = 1
              /\ DOMAIN Program(q) = 1 .. 1 /\ Program(q)[1].op = "db"
        BY <3>3, PlainProgram, Kinds DEF IsPlain
      <4>3. At(q, "db")'
        BY <4>1, <4>2 DEF At, Running, OpOf
      <4>4. conn'[q] \ {"stmt"} = {} /\ locks'[q] = {}
        BY <2>3, <3>1, <4>2 DEF TaskInv
      <4>5. at'[q] \in Nat /\ at'[q] <= Len(Program(q)) + 1
        BY <4>1, <4>2
      <4>6. QED BY <4>2, <4>3, <4>4, <4>5 DEF TaskInv
    <3>4. CASE q # p /\ ~(q \in Load /\ ResetOf[q] = p)
      <4>1. at'[q] = at[q] /\ conn'[q] = conn[q] /\ locks'[q] = locks[q]
        BY <2>3, <3>4
      <4>2. QED BY <3>1, <4>1 DEF TaskInv, At, Running, OpOf
    <3>5. QED BY <3>2, <3>3, <3>4
  <2>6. QED BY <1>4, <2>4, <2>5 DEF HoldInv, Notify
<1>5. CASE Await(p)
  <2>1. /\ Running(p) /\ OpOf(p) = "await" /\ at' = [at EXCEPT ![p] = at[p] + 1]
        /\ UNCHANGED <<conn, locks>> /\ tables' \subseteq Table
        /\ isu' \subseteq {UuidOf[q] : q \in Request}
    BY <1>5 DEF Await, Go, At, HoldInv
  <2>2. at[p] + 1 \in 1 .. 12
    BY <2>1, ResetPlaced
  <2>3. QED BY <2>1, <2>2, ResetKept
<1>6. QED BY <1>1, <1>2, <1>3, <1>4, <1>5 DEF ResetStep

-----------------------------------------------------------------------------
(* Each action keeps ResetInv.                                             *)
LEMMA ResetStays ==
  ASSUME HoldInv, ResetInv, NEW p \in Task, Running(p), NEW a \in Nat \ {0},
         at' = [at EXCEPT ![p] = a], p \in Reset => a # 11
  PROVE  ResetInv'
<1>1. at'[p] = a /\ \A q \in Task : q # p => at'[q] = at[q]
  BY DEF HoldInv
<1>2. \A i \in Reset : i \in Task
  BY DEF Reset, Task
<1>3. \A i \in Reset : Running(i)' => Running(i)
  BY <1>1, <1>2 DEF Running
<1>4. ASSUME NEW l \in Load, at'[ResetOf[l]] = 11 PROVE at'[l] # 0
  <2>1. ResetOf[l] \in Reset /\ l \in Task
    BY PoolAssumption DEF Task
  <2>2. at[ResetOf[l]] = 11
    BY <1>1, <1>2, <1>4, <2>1
  <2>3. at[l] # 0
    BY <2>2 DEF ResetInv
  <2>4. QED BY <1>1, <2>1, <2>3
<1>5. QED BY <1>3, <1>4 DEF ResetInv

LEMMA GoStays ==
  ASSUME HoldInv, ResetInv, NEW p \in Task, Running(p), OpOf(p) # "notify",
         at' = [at EXCEPT ![p] = at[p] + 1]
  PROVE  ResetInv'
<1>1. at[p] + 1 \in Nat \ {0}
  BY DEF HoldInv
<1>2. p \in Reset => at[p] + 1 # 11
  <2> SUFFICES ASSUME p \in Reset PROVE at[p] + 1 # 11
    OBVIOUS
  <2>1. IsReset(p) /\ Where(p)
    BY ResetPlaced
  <2>2. at[p] \in 1 .. 11 /\ at[p] # 10
    BY <2>1 DEF Where
  <2>3. QED BY <2>2
<1>3. QED BY <1>1, <1>2, ResetStays

LEMMA ResetHolds ==
  ASSUME HoldInv, ResetInv, [Next]_vars
  PROVE  ResetInv'
<1>1. CASE UNCHANGED vars
  BY <1>1 DEF vars, ResetInv, Running
<1>2. ASSUME NEW p \in Request, Arrive(p) PROVE ResetInv'
  <2>1. p \in Task /\ p \notin Load /\ at'[p] = 1 /\ \A q \in Task : q # p => at'[q] = at[q]
    BY <1>2, PoolAssumption DEF Arrive, HoldInv, Task
  <2>2. \A i \in Reset : i \in Task
    BY DEF Reset, Task
  <2>3. ASSUME NEW i \in Reset, NEW j \in Reset, Running(i)', Running(j)' PROVE i = j
    <3>1. CASE p \in Reset
      <4>1. \A r \in Reset : ~Running(r)
        BY <1>2, <3>1 DEF Arrive
      <4>2. i = p /\ j = p
        BY <2>1, <2>2, <2>3, <4>1 DEF Running
      <4>3. QED BY <4>2
    <3>2. CASE p \notin Reset
      BY <2>1, <2>2, <2>3, <3>2 DEF Running, ResetInv
    <3>3. QED BY <3>1, <3>2
  <2>4. ASSUME NEW l \in Load, at'[ResetOf[l]] = 11 PROVE at'[l] # 0
    <3>1. ResetOf[l] \in Reset /\ l \in Task /\ l # p
      BY <2>1, PoolAssumption DEF Task
    <3>2. at[ResetOf[l]] = 11
      BY <2>1, <2>2, <2>4, <3>1
    <3>3. QED BY <2>1, <3>1, <3>2 DEF ResetInv
  <2>5. QED BY <2>3, <2>4 DEF ResetInv
<1>3. ASSUME NEW p \in Task, Acquire(p) PROVE ResetInv'
  BY <1>3 DEF Acquire, ResetInv, Running
<1>4. ASSUME NEW p \in Task, Execute(p) PROVE ResetInv'
  <2>1. Running(p) /\ OpOf(p) = "db" /\ at' = [at EXCEPT ![p] = at[p] + 1]
    BY <1>4 DEF Execute, Go, At
  <2>2. QED BY <2>1, GoStays
<1>5. ASSUME NEW p \in Task, Beginx(p) PROVE ResetInv'
  <2>1. Running(p) /\ OpOf(p) = "begin" /\ at' = [at EXCEPT ![p] = at[p] + 1]
    BY <1>5 DEF Beginx, Go, At
  <2>2. QED BY <2>1, GoStays
<1>6. ASSUME NEW p \in Task, ExecuteTx(p) PROVE ResetInv'
  <2>1. Running(p) /\ OpOf(p) \in {"tx", "insert"} /\ at' = [at EXCEPT ![p] = at[p] + 1]
    BY <1>6 DEF ExecuteTx, Go, At
  <2>2. QED BY <2>1, GoStays
<1>7. ASSUME NEW p \in Task, ReadURL(p) PROVE ResetInv'
  <2>1. Running(p) /\ OpOf(p) = "url" /\ at' = [at EXCEPT ![p] = at[p] + 1]
    BY <1>7 DEF ReadURL, Go, At
  <2>2. QED BY <2>1, GoStays
<1>8. ASSUME NEW p \in Task, AnswerOfJIA(p) PROVE ResetInv'
  <2>1. Running(p) /\ OpOf(p) = "jia" /\ at' = [at EXCEPT ![p] = at[p] + 1]
    BY <1>8 DEF AnswerOfJIA, Go, At
  <2>2. QED BY <2>1, GoStays
<1>9. ASSUME NEW p \in Task, CommitTx(p) PROVE ResetInv'
  <2>1. Running(p) /\ OpOf(p) = "commit" /\ at' = [at EXCEPT ![p] = at[p] + 1]
    BY <1>9 DEF CommitTx, Go, At
  <2>2. QED BY <2>1, GoStays
<1>10. ASSUME NEW p \in Task, ReturnEarly(p) PROVE ResetInv'
  <2>1. Running(p) /\ at' = [at EXCEPT ![p] = Len(Program(p)) + 1]
    BY <1>10 DEF ReturnEarly, MayFail
  <2>2. Len(Program(p)) + 1 \in Nat \ {0}
    BY Lengths
  <2>3. p \in Reset => Len(Program(p)) + 1 # 11
    <3>1. p \in Reset => Len(Program(p)) = 11
      BY <2>1, ResetPlaced
    <3>2. Len(Program(p)) = 11 => Len(Program(p)) + 1 # 11
      OBVIOUS
    <3>3. QED BY <3>1, <3>2
  <2>4. QED BY <2>1, <2>2, <2>3, ResetStays
<1>11. ASSUME NEW p \in Reset, DropTable(p) PROVE ResetInv'
  <2>1. p \in Task /\ Running(p) /\ OpOf(p) = "drop" /\ at' = [at EXCEPT ![p] = at[p] + 1]
    BY <1>11 DEF DropTable, Go, At, Reset, Task
  <2>2. QED BY <2>1, GoStays
<1>12. ASSUME NEW p \in Reset, CreateTables(p) PROVE ResetInv'
  <2>1. p \in Task /\ Running(p) /\ OpOf(p) = "create" /\ at' = [at EXCEPT ![p] = at[p] + 1]
    BY <1>12 DEF CreateTables, Go, At, Reset, Task
  <2>2. QED BY <2>1, GoStays
<1>13. ASSUME NEW p \in Reset, LoadSeeds(p) PROVE ResetInv'
  <2>1. p \in Task /\ Running(p) /\ OpOf(p) = "seed"
    BY <1>13 DEF LoadSeeds, At, Reset, Task
  <2>2. PICK a \in {at[p] + 1, Len(Program(p)) + 1} : at' = [at EXCEPT ![p] = a]
    BY <1>13 DEF LoadSeeds
  <2>3. IsReset(p) /\ Where(p) /\ Len(Program(p)) = 11
    BY <2>1, ResetPlaced
  <2>4. at[p] \in {6, 7, 8}
    BY <2>1, <2>3 DEF Where
  <2>5. a \in Nat \ {0} /\ a # 11
    BY <2>2, <2>3, <2>4
  <2>6. QED BY <2>1, <2>2, <2>5, ResetStays
<1>14. ASSUME NEW p \in Reset, Notify(p) PROVE ResetInv'
  <2>1. p \in Task /\ p \notin Load /\ Running(p) /\ \A i \in Reset : i \in Task /\ i \notin Load
    BY <1>14, PoolAssumption DEF Notify, At, Reset, Task
  <2>2. /\ \A q \in Task : q # p /\ ~(q \in Load /\ ResetOf[q] = p) => at'[q] = at[q]
        /\ \A l \in Load : ResetOf[l] = p => at'[l] = 1
    BY <1>14, <2>1 DEF Notify, Task
  <2>3. \A i \in Reset : i # p => at'[i] = at[i]
    BY <2>1, <2>2
  <2>4. \A i \in Reset : Running(i)' => Running(i)
    BY <2>1, <2>3 DEF Running
  <2>5. ASSUME NEW l \in Load, at'[ResetOf[l]] = 11 PROVE at'[l] # 0
    <3>1. ResetOf[l] \in Reset /\ l \in Task /\ l # p
      BY <2>1, PoolAssumption DEF Task
    <3>2. CASE ResetOf[l] = p
      BY <2>2, <3>2
    <3>3. CASE ResetOf[l] # p
      <4>1. at[ResetOf[l]] = 11 /\ at'[l] = at[l]
        BY <2>2, <2>3, <2>5, <3>1, <3>3
      <4>2. QED BY <4>1 DEF ResetInv
    <3>4. QED BY <3>2, <3>3
  <2>6. QED BY <2>4, <2>5 DEF ResetInv
<1>15. ASSUME NEW p \in Reset, Await(p) PROVE ResetInv'
  <2>1. p \in Task /\ Running(p) /\ OpOf(p) = "await" /\ at' = [at EXCEPT ![p] = at[p] + 1]
    BY <1>15 DEF Await, Go, At, Reset, Task
  <2>2. QED BY <2>1, GoStays
<1>16. QED BY <1>1, <1>2, <1>3, <1>4, <1>5, <1>6, <1>7, <1>8, <1>9, <1>10, <1>11, <1>12,
              <1>13, <1>14, <1>15 DEF Next, RequestStep, LoadStep, ResetStep, Task

LEMMA HoldHolds ==
  ASSUME HoldInv, [Next]_vars
  PROVE  HoldInv'
<1>1. CASE UNCHANGED vars
  <2>1. \A q \in Task : TaskInv(q) => TaskInv(q)'
    BY <1>1 DEF vars, TaskInv, At, Running, OpOf
  <2>2. QED BY <1>1, <2>1 DEF vars, HoldInv
<1>2. ASSUME NEW p \in Request, Arrive(p) \/ RequestStep(p) \/ AnswerOfJIA(p) PROVE HoldInv'
  <2>1. p \in Task
    BY DEF Task
  <2>2. QED BY <1>2, <2>1, ArriveHolds, AcquireHolds, ExecuteHolds, BeginxHolds, ExecuteTxHolds,
              ReadURLHolds, AnswerHolds, CommitHolds, ReturnHolds DEF RequestStep
<1>3. ASSUME NEW l \in Load, LoadStep(l) PROVE HoldInv'
  <2>1. l \in Task
    BY DEF Task
  <2>2. QED BY <1>3, <2>1, AcquireHolds, ExecuteHolds DEF LoadStep
<1>4. QED BY <1>1, <1>2, <1>3, ResetStepHolds DEF Next

LEMMA Holds == Spec => [](HoldInv /\ ResetInv)
<1>1. Init => HoldInv /\ ResetInv
  BY InitHolds
<1>2. HoldInv /\ ResetInv /\ [Next]_vars => (HoldInv /\ ResetInv)'
  BY HoldHolds, ResetHolds
<1>3. QED BY <1>1, <1>2, PTL DEF Spec

-----------------------------------------------------------------------------
(* The bookkeeping of connections and locks is well formed: a task holds   *)
(* connections and metadata locks of existing kinds only.                  *)
THEOREM TypeCorrect == Spec => []TypeOK
<1>1. HoldInv => TypeOK
  BY DEF HoldInv, TypeOK, TaskInv
<1>2. QED BY <1>1, Holds, PTL

(* A table's lock is held by a running task, from the statement that used  *)
(* the table to the end of the transaction.                                *)
LEMMA LockHolder ==
  ASSUME HoldInv, NEW r \in Task, locks[r] # {}
  PROVE  /\ Running(r)
         /\ \/ IsPost(r) /\ at[r] \in {4, 5, 6, 7}
            \/ IsList(r) /\ at[r] \in {4, 5}
<1>1. TaskInv(r)
  BY DEF HoldInv
<1>2. ~IsReset(r) /\ ~IsPlain(r)
  BY <1>1 DEF TaskInv
<1>3. CASE IsPost(r)
  <2>1. at[r] \in {4, 5, 6, 7}
    BY <1>1, <1>3 DEF TaskInv, PostLocks
  <2>2. QED BY <1>3, <2>1, PostProgram DEF Running
<1>4. CASE IsList(r)
  <2>1. at[r] \in {4, 5}
    BY <1>1, <1>4 DEF TaskInv, ListLocks
  <2>2. QED BY <1>4, <2>1, ListProgram DEF Running
<1>5. QED BY <1>2, <1>3, <1>4, Kinds

LEMMA NoLocksNoDrop ==
  ASSUME \A r \in Task : locks[r] = {}, \A r \in Task : Running(r) => ~CanGo(r)
  PROVE  \A r \in Task : ~Blocked(r)
<1>1. \A i \in Reset : ~At(i, "drop") /\ ~At(i, "seed")
  BY DEF Reset, Task, At, CanGo
<1>2. QED BY <1>1 DEF Blocked, Wanted

(* Nobody waits in a circle: when nothing could go on, nobody would hold a *)
(* lock, hence no reset and no statement would wait for one, hence nobody  *)
(* would hold a connection, and there is one for whoever waits.            *)
LEMMA SomebodyCanGo ==
  ASSUME HoldInv, ResetInv, NEW q \in Task, Running(q)
  PROVE  \E r \in Task : Running(r) /\ CanGo(r)
<1> SUFFICES ASSUME \A r \in Task : Running(r) => ~CanGo(r) PROVE FALSE
  OBVIOUS
<1>1. ASSUME NEW r \in Task, Running(r)
      PROVE  OpOf(r) \notin {"jia", "commit", "create", "notify"}
  BY <1>1 DEF CanGo
<1>2. ASSUME NEW r \in Task, Running(r), IsPost(r) PROVE at[r] \in {1, 2, 3, 4}
  <2>1. Where(r) /\ TaskInv(r) /\ at[r] \in {1, 2, 3, 4, 5, 6, 7}
    <3>1. Where(r) /\ TaskInv(r)
      BY <1>2, Placed DEF HoldInv
    <3>2. at[r] \in 1 .. 7
      BY <1>2, <3>1 DEF Where
    <3>3. QED BY <3>1, <3>2
  <2>2. at[r] # 5 /\ at[r] # 7
    BY <1>1, <1>2, <2>1 DEF Where
  <2>3. ASSUME at[r] = 6 PROVE FALSE
    <3>1. OpOf(r) = "tx" /\ TableOf(r) = "isu"
      BY <1>2, <2>1, <2>3 DEF Where
    <3>2. "isu" \in locks[r]
      BY <1>2, <2>1, <2>3 DEF TaskInv, PostLocks
    <3>3. QED BY <1>2, <3>1, <3>2 DEF CanGo, Blocked
  <2>4. QED BY <2>1, <2>2, <2>3
<1>3. ASSUME NEW r \in Task, Running(r), IsList(r) PROVE at[r] \in {1, 2, 3, 4}
  <2>1. Where(r)
    BY <1>3, Placed
  <2>2. at[r] \in 1 .. 5 /\ at[r] # 5
    BY <1>1, <1>3, <2>1 DEF Where
  <2>3. QED BY <2>2
<1>4. \A r \in Task : locks[r] \subseteq {"isu"}
  <2> SUFFICES ASSUME NEW r \in Task, locks[r] # {} PROVE locks[r] = {"isu"}
    OBVIOUS
  <2>1. TaskInv(r)
    BY DEF HoldInv
  <2>2. CASE IsPost(r)
    <3>1. Running(r) /\ at[r] \in {4, 5, 6, 7}
      BY <2>2, LockHolder, Kinds
    <3>2. at[r] = 4
      BY <1>2, <2>2, <3>1
    <3>3. QED BY <2>1, <2>2, <3>2 DEF TaskInv, PostLocks
  <2>3. CASE IsList(r)
    <3>1. Running(r) /\ at[r] \in {4, 5}
      BY <2>3, LockHolder, Kinds
    <3>2. at[r] = 4
      BY <1>3, <2>3, <3>1
    <3>3. QED BY <2>1, <2>3, <3>2 DEF TaskInv, ListLocks
  <2>4. QED BY <2>2, <2>3, LockHolder
<1>5. ASSUME NEW i \in Reset, At(i, "drop") \/ At(i, "seed") PROVE TableOf(i) = "isu"
  <2>1. i \in Task /\ ~CanGo(i)
    BY <1>5 DEF Reset, Task, At
  <2>2. PICK r \in Task : TableOf(i) \in locks[r]
    BY <1>5, <2>1 DEF CanGo, At
  <2>3. QED BY <1>4, <2>2
<1>6. ASSUME NEW r \in Task, locks[r] # {} PROVE FALSE
  <2>1. Running(r) /\ ((IsPost(r) /\ at[r] \in {4, 5, 6, 7}) \/ (IsList(r) /\ at[r] \in {4, 5}))
    BY <1>6, LockHolder
  <2>2. Where(r) /\ at[r] = 4
    BY <1>2, <1>3, <2>1, Placed
  <2>3. OpOf(r) \in {"tx", "url"} /\ TableOf(r) # "isu"
    BY <2>1, <2>2 DEF Where
  <2>4. ~Blocked(r)
    BY <1>5, <2>3 DEF Blocked, Wanted
  <2>5. QED BY <2>1, <2>3, <2>4 DEF CanGo
<1>7. \A r \in Task : locks[r] = {}
  BY <1>6
<1>8. \A r \in Task : ~Blocked(r)
  BY <1>7, NoLocksNoDrop
<1>9. \A r \in Request : ~OpenRow(r)
  BY <1>7 DEF OpenRow, Task
<1>10. ASSUME NEW r \in Task, Running(r) PROVE OpOf(r) \notin {"tx", "url", "insert"}
  BY <1>8, <1>9, <1>10 DEF CanGo, RowTaken
<1>11. \A r \in Task : conn[r] = {}
  <2> SUFFICES ASSUME NEW r \in Task, conn[r] # {} PROVE FALSE
    OBVIOUS
  <2>1. TaskInv(r) /\ conn[r] \subseteq {"tx", "stmt"}
    BY DEF HoldInv
  <2>2. "stmt" \notin conn[r]
    BY <1>8, <2>1 DEF TaskInv, At, CanGo
  <2>3. conn[r] \ {"stmt"} # {}
    BY <2>2
  <2>4. CASE IsPost(r)
    <3>1. at[r] \in {3, 4, 5, 6, 7}
      BY <2>1, <2>3, <2>4 DEF TaskInv, PostConn
    <3>2. Running(r)
      BY <2>4, <3>1, PostProgram DEF Running
    <3>3. at[r] \in {3, 4} /\ Where(r)
      BY <1>2, <2>4, <3>1, <3>2, Placed
    <3>4. OpOf(r) \in {"tx", "url", "insert"}
      BY <2>4, <3>3 DEF Where
    <3>5. QED BY <1>10, <3>2, <3>4
  <2>5. CASE IsList(r)
    <3>1. at[r] \in {3, 4, 5}
      BY <2>1, <2>3, <2>5 DEF TaskInv, ListConn
    <3>2. Running(r)
      BY <2>5, <3>1, ListProgram DEF Running
    <3>3. at[r] \in {3, 4} /\ Where(r)
      BY <1>3, <2>5, <3>1, <3>2, Placed
    <3>4. OpOf(r) \in {"tx", "url", "insert"}
      BY <2>5, <3>3 DEF Where
    <3>5. QED BY <1>10, <3>2, <3>4
  <2>6. CASE IsReset(r) \/ IsPlain(r)
    BY <2>1, <2>3, <2>6 DEF TaskInv
  <2>7. QED BY <2>4, <2>5, <2>6, Kinds
<1>12. \A h : Free(h)
  <2>1. \A h : InUse(h) = {}
    BY <1>11 DEF InUse
  <2>2. Cardinality({}) = 0
    BY FS_EmptySet
  <2>3. 0 < MaxOpenConns
    BY PoolAssumption
  <2>4. QED BY <2>1, <2>2, <2>3 DEF Free
<1>13. ASSUME NEW r \in Task, Running(r) PROVE OpOf(r) \notin {"db", "begin"}
  BY <1>11, <1>12, <1>13 DEF CanGo
<1>14. ASSUME NEW r \in Task, Running(r) PROVE OpOf(r) \notin {"drop", "seed"}
  BY <1>7, <1>9, <1>14 DEF CanGo
<1>15. IsReset(q) /\ OpOf(q) = "await"
  <2>1. Where(q)
    BY Placed
  <2>2. ~IsPost(q)
    BY <1>1, <1>10, <1>13, <1>2, <2>1 DEF Where
  <2>3. ~IsList(q)
    BY <1>1, <1>10, <1>13, <1>3, <2>1 DEF Where
  <2>4. ~IsPlain(q)
    BY <1>13, <2>1 DEF Where
  <2>5. IsReset(q)
    BY <2>2, <2>3, <2>4, Kinds
  <2>6. at[q] \in 1 .. 11 /\ at[q] \notin 1 .. 4 /\ at[q] # 5
          /\ at[q] \notin {6, 7, 8} /\ at[q] # 9 /\ at[q] # 10
    BY <1>1, <1>13, <1>14, <2>1, <2>5 DEF Where
  <2>7. at[q] = 11
    BY <2>6
  <2>8. QED BY <2>1, <2>5, <2>7 DEF Where
<1>16. PICK l \in Load : ResetOf[l] = q /\ ~Over(l)
  BY <1>15 DEF CanGo
<1>17. l \in Task /\ TaskInv(l) /\ at[q] = 11 /\ IsPlain(l)
  BY <1>15, Placed DEF HoldInv, Task, Where, IsPlain
<1>18. at[l] # 0 /\ Len(Program(l)) = 1 /\ DOMAIN Program(l) = 1 .. 1
  BY <1>16, <1>17, PlainProgram DEF ResetInv
<1>19. at[l] = 1
  BY <1>16, <1>17, <1>18 DEF Over, TaskInv
<1>20. Running(l)
  BY <1>18, <1>19 DEF Running
<1>21. OpOf(l) = "db"
  BY <1>17, <1>20, Placed DEF Where
<1>22. QED BY <1>13, <1>17, <1>20, <1>21

(* The handlers, the transactions and the DROPs of a reset never wait for  *)
(* each other in a circle, however few connections a process has.          *)
THEOREM NeverDeadlocks == Spec => []NoDeadlock
<1>1. HoldInv /\ ResetInv => NoDeadlock
  BY SomebodyCanGo DEF NoDeadlock
<1>2. QED BY <1>1, Holds, PTL

(* While no reset runs, a handler other than a registration waits for JIA  *)
(* only once registrations hold every connection of its process.           *)
LEMMA ServesOthers ==
  ASSUME HoldInv, NEW q \in Request, Running(q), HandlerOf[q] # "postIsu",
         ~Exhausted(HostOf[q]), \A i \in Reset : ~Running(i)
  PROVE  \E r \in Task : HostOf[r] = HostOf[q] /\ Running(r) /\ CanGo(r) /\ ~At(r, "jia")
<1>1. \A r \in Task : ~Blocked(r)
  BY DEF Blocked, Wanted, At
<1>2. q \in Task /\ Where(q) /\ ~IsPost(q)
  BY Placed DEF Task, IsPost
<1>3. ~IsReset(q)
  BY DEF IsReset, Reset
<1>4. OpOf(q) \in {"db", "begin", "tx", "commit"}
  <2>1. CASE IsList(q)
    <3>1. at[q] \in 1 .. 5
      BY <1>2, <2>1 DEF Where
    <3>2. at[q] \in {1, 2, 3, 4, 5}
      BY <3>1
    <3>3. QED BY <1>2, <2>1, <3>2 DEF Where
  <2>2. CASE IsPlain(q)
    BY <1>2, <2>2 DEF Where
  <2>3. QED BY <1>2, <1>3, <2>1, <2>2, Kinds
<1>5. CASE CanGo(q)
  BY <1>2, <1>4, <1>5 DEF At
<1>6. CASE ~CanGo(q)
  <2>1. ~Free(HostOf[q])
    BY <1>1, <1>2, <1>4, <1>6 DEF CanGo
  <2>2. PICK r \in Task : /\ HostOf[r] = HostOf[q] /\ conn[r] # {}
                          /\ ~(IsPost(r) /\ conn[r] = {"tx"})
    BY <2>1 DEF Exhausted, IsPost
  <2>3. TaskInv(r) /\ conn[r] \subseteq {"tx", "stmt"}
    BY DEF HoldInv
  <2>4. CASE "stmt" \in conn[r]
    <3>1. Running(r) /\ OpOf(r) = "db"
      BY <2>3, <2>4 DEF TaskInv, At
    <3>2. CanGo(r)
      BY <1>1, <2>4, <3>1 DEF CanGo
    <3>3. QED BY <2>2, <3>1, <3>2 DEF At
  <2>5. CASE "stmt" \notin conn[r]
    <3>1. conn[r] = {"tx"} /\ conn[r] \ {"stmt"} # {}
      BY <2>2, <2>3, <2>5
    <3>2. IsList(r)
      BY <2>2, <2>3, <3>1, Kinds DEF TaskInv
    <3>3. at[r] \in {3, 4, 5}
      BY <2>3, <3>1, <3>2 DEF TaskInv, ListConn
    <3>4. Running(r)
      BY <3>2, <3>3, ListProgram DEF Running
    <3>5. Where(r)
      BY <3>4, Placed
    <3>6. OpOf(r) \in {"tx", "commit"}
      BY <3>2, <3>3, <3>5 DEF Where
    <3>7. CanGo(r)
      BY <1>1, <3>6 DEF CanGo
    <3>8. QED BY <2>2, <3>4, <3>6, <3>7 DEF At
  <2>6. QED BY <2>4, <2>5
<1>7. QED BY <1>5, <1>6

(* A JIA service that is silent takes the registrations and nobody else,   *)
(* as long as they have left one connection.                               *)
THEOREM JIAIsolated == Spec => []JIAStopsOnlyItsOwn
<1>1. HoldInv => JIAStopsOnlyItsOwn
  BY ServesOthers DEF JIAStopsOnlyItsOwn
<1>2. QED BY <1>1, Holds, PTL
=============================================================================
