----------------------------- MODULE ConnectionPool -----------------------------
(***************************************************************************)
(* The database connections of go/main.go: what a request waits for.       *)
(* Every process has a pool of MaxOpenConns connections.  A statement made *)
(* on `db` takes one and gives it back; a transaction keeps one from       *)
(* Beginx to Commit or Rollback, registrations also while they wait for    *)
(* the JIA service.  In the database a statement waits for the metadata    *)
(* lock of its table, behind a DROP that waits for the transactions that   *)
(* use the table, and an INSERT of an ISU waits for the uncommitted row of *)
(* another registration of the same uuid.  A handler is the list of its    *)
(* operations on the database; what it computes in between is left out.    *)
(***************************************************************************)
EXTENDS Naturals, Sequences, FiniteSets

CONSTANTS
  Host,           (* processes that serve requests or load their caches     *)
  Request,        (* HTTP requests                                          *)
  Load,           (* calls of InitializeFunction                            *)
  HandlerOf,      (* the handler of a request                               *)
  HostOf,         (* the process that a request or a call runs on           *)
  ResetOf,        (* the POST /initialize that makes a call                 *)
  UuidOf,         (* jia_isu_uuid of a registration                         *)
  MaxOpenConns    (* 10 in the code                                         *)

Task == Request \cup Load

-----------------------------------------------------------------------------
(* Operations on the database. *)
Op(o, t)  == [op |-> o, table |-> t]
Db(t)     == Op("db", t)          (* a statement on `db`                    *)
Begin     == Op("begin", "none")
Tx(t)     == Op("tx", t)          (* a statement of the transaction         *)
InsertRow == Op("insert", "isu")  (* the same, which adds the new ISU       *)
GetURL    == Op("url", "config")  (* the same, whose error is only logged   *)
AskJIA    == Op("jia", "none")    (* no operation on the database           *)
Commit    == Op("commit", "none")
Drop(t)   == Op("drop", t)        (* DROP TABLE, by the mysql client        *)
Seed(t)   == Op("seed", t)        (* LOCK TABLES WRITE and INSERT, the same *)

(* Plausible mistakes in the code, each to stand in for the definition of  *)
(* the same name without its suffix.                                       *)

(* the URL is read on `db` while the transaction is open                   *)
getJIAServiceURL_OnDb == Db("config")

-----------------------------------------------------------------------------
(* The handlers.  Loops are bounded by one character and one ISU. *)
getUserIDFromSession == Db("user")
getJIAServiceURL     == GetURL
initializeCache      == <<Db("isu")>>

postAuthentication == <<Db("user")>>
postSignout        == <<getUserIDFromSession>>
getMe              == <<getUserIDFromSession>>
getIsuID           == <<getUserIDFromSession>>
getIsuIcon         == <<getUserIDFromSession>>
getIsuGraph        == <<getUserIDFromSession, Db("isu_condition")>>
getIsuConditions   == <<getUserIDFromSession, Db("isu_condition")>>
getTrend           == <<Db("isu"), Db("isu"), Db("isu_condition")>>
postIsuCondition   == <<Db("isu_condition")>>

getIsuList == <<getUserIDFromSession, Begin, Tx("isu"), Tx("isu_condition"), Commit>>
postIsu    == <<getUserIDFromSession, Begin, InsertRow, getJIAServiceURL, AskJIA,
                Tx("isu"), Commit>>

(* The script has a connection of its own.                                 *)
postInitialize ==
  <<Drop("config"), Drop("isu_condition"), Drop("isu"), Drop("user"), Op("create", "none"),
    Seed("isu"), Seed("isu_condition"), Seed("user"),
    Db("config"), Op("notify", "none"), Op("await", "none")>>

Handler ==
  [postAuthentication |-> postAuthentication, postSignout |-> postSignout, getMe |-> getMe,
   getIsuID |-> getIsuID, getIsuIcon |-> getIsuIcon, getIsuGraph |-> getIsuGraph,
   getIsuConditions |-> getIsuConditions, getTrend |-> getTrend,
   postIsuCondition |-> postIsuCondition, getIsuList |-> getIsuList, postIsu |-> postIsu,
   postInitialize |-> postInitialize]

Reset == {q \in Request : HandlerOf[q] = "postInitialize"}

ASSUME PoolAssumption ==
  /\ Request \cap Load = {}
  /\ HandlerOf \in [Request -> DOMAIN Handler]
  /\ HostOf \in [Task -> Host]
  /\ ResetOf \in [Load -> Reset]
  /\ DOMAIN UuidOf = Request
  /\ MaxOpenConns \in Nat \ {0}

Program(q) == IF q \in Load THEN initializeCache ELSE Handler[HandlerOf[q]]

-----------------------------------------------------------------------------
VARIABLES
  at,       (* the operation a task is at; 0 before it has arrived          *)
  conn,     (* the connections a task holds: for "tx", for "stmt"           *)
  locks,    (* the tables whose metadata lock its transaction holds         *)
  tables,   (* the tables that exist                                        *)
  isu       (* uuids of the committed rows                                  *)

vars == <<at, conn, locks, tables, isu>>

Table == {"config", "isu_condition", "isu", "user"}

Init ==
  /\ at = [q \in Task |-> 0]
  /\ conn = [q \in Task |-> {}] /\ locks = [q \in Task |-> {}]
  /\ tables = Table /\ isu = {}

Running(q) == at[q] \in DOMAIN Program(q)
Over(q)    == at[q] > Len(Program(q))
OpOf(q)    == Program(q)[at[q]].op
TableOf(q) == Program(q)[at[q]].table
At(q, o)   == Running(q) /\ OpOf(q) = o

-----------------------------------------------------------------------------
(* What a task waits for. *)
InUse(h) == {x \in Task \X {"tx", "stmt"} : HostOf[x[1]] = h /\ x[2] \in conn[x[1]]}
Free(h)  == Cardinality(InUse(h)) < MaxOpenConns

OpenRow(q) == HandlerOf[q] = "postIsu" /\ "isu" \in locks[q]
RowTaken(q) ==
  \E r \in Request \ {q} : OpenRow(r) /\ UuidOf[r] = UuidOf[q]

(* DROP and LOCK TABLES WRITE want a table for themselves, and go before   *)
(* its new users.                                                          *)
Wanted(t) == \E i \in Reset : (At(i, "drop") \/ At(i, "seed")) /\ TableOf(i) = t

(* a plausible mistake: SERIALIZABLE, a SELECT waits for uncommitted rows  *)
Blocked_Serializable(q) ==
  TableOf(q) \notin locks[q]
    /\ (Wanted(TableOf(q)) \/ (TableOf(q) = "isu" /\ \E r \in Request : OpenRow(r)))

Blocked(q) == TableOf(q) \notin locks[q] /\ Wanted(TableOf(q))

(* The next step of a running task waits for nobody. *)
CanGo(q) ==
  \/ OpOf(q) = "db" /\ "stmt" \notin conn[q] /\ Free(HostOf[q])
  \/ OpOf(q) = "db" /\ "stmt" \in conn[q] /\ ~Blocked(q)
  \/ OpOf(q) = "begin" /\ Free(HostOf[q])
  \/ OpOf(q) \in {"tx", "url"} /\ ~Blocked(q)
  \/ OpOf(q) = "insert" /\ ~Blocked(q) /\ ~RowTaken(q)
  \/ OpOf(q) \in {"drop", "seed"} /\ \A r \in Task : TableOf(q) \notin locks[r]
  \/ OpOf(q) = "await" /\ \A l \in Load : ResetOf[l] = q => Over(l)
  \/ OpOf(q) \in {"jia", "commit", "create", "notify"}

Go(q, o) == /\ At(q, o) /\ CanGo(q)
            /\ at' = [at EXCEPT ![q] = @ + 1]

-----------------------------------------------------------------------------
(* A request arrives.  Bound: resets do not overlap. *)
Arrive(q) ==
  /\ at[q] = 0
  /\ q \in Reset => \A i \in Reset : ~Running(i)
  /\ at' = [at EXCEPT ![q] = 1]
  /\ UNCHANGED <<conn, locks, tables, isu>>

(* db.Get, db.Select and db.Exec: a connection, the statement, and back.   *)
Acquire(q) ==
  /\ At(q, "db") /\ "stmt" \notin conn[q] /\ CanGo(q)
  /\ conn' = [conn EXCEPT ![q] = @ \cup {"stmt"}]
  /\ UNCHANGED <<at, locks, tables, isu>>

Execute(q) ==
  /\ "stmt" \in conn[q] /\ Go(q, "db") /\ TableOf(q) \in tables
  /\ conn' = [conn EXCEPT ![q] = @ \ {"stmt"}]
  /\ UNCHANGED <<locks, tables, isu>>

Beginx(q) ==
  /\ Go(q, "begin")
  /\ conn' = [conn EXCEPT ![q] = @ \cup {"tx"}]
  /\ UNCHANGED <<locks, tables, isu>>

ExecuteTx(q) ==
  /\ Go(q, "tx") \/ (Go(q, "insert") /\ UuidOf[q] \notin isu)
  /\ TableOf(q) \in tables
  /\ locks' = [locks EXCEPT ![q] = @ \cup {TableOf(q)}]
  /\ UNCHANGED <<conn, tables, isu>>

(* When the statement fails the default URL is used.                       *)
ReadURL(q) ==
  /\ Go(q, "url")
  /\ \/ "config" \in tables /\ locks' = [locks EXCEPT ![q] = @ \cup {"config"}]
     \/ UNCHANGED locks
  /\ UNCHANGED <<conn, tables, isu>>

AnswerOfJIA(q) == Go(q, "jia") /\ UNCHANGED <<conn, locks, tables, isu>>

CommitTx(q) ==
  /\ Go(q, "commit")
  /\ conn' = [conn EXCEPT ![q] = @ \ {"tx"}]
  /\ isu' = IF OpenRow(q) THEN isu \cup {UuidOf[q]} ELSE isu
  /\ locks' = [locks EXCEPT ![q] = {}]
  /\ UNCHANGED tables

(* An error, of the statement or of JIA, or a check that fails after the   *)
(* statement.                                                              *)
MayFail(q) ==
  /\ Running(q) /\ CanGo(q)
  /\ OpOf(q) \in {"tx", "insert", "jia", "commit"} \/ "stmt" \in conn[q]

(* a plausible mistake: no deferred Rollback                               *)
ReturnEarly_NoRollback(q) ==
  /\ MayFail(q)
  /\ at' = [at EXCEPT ![q] = Len(Program(q)) + 1]
  /\ conn' = [conn EXCEPT ![q] = @ \ {"stmt"}]
  /\ UNCHANGED <<locks, tables, isu>>

(* The handler returns, and the deferred Rollback ends its transaction.    *)
(* (In initializeCache an error ends the process.)                         *)
ReturnEarly(q) ==
  /\ MayFail(q)
  /\ at' = [at EXCEPT ![q] = Len(Program(q)) + 1]
  /\ conn' = [conn EXCEPT ![q] = {}] /\ locks' = [locks EXCEPT ![q] = {}]
  /\ UNCHANGED <<tables, isu>>

-----------------------------------------------------------------------------
(* POST /initialize. *)
DropTable(i) ==
  /\ Go(i, "drop")
  /\ tables' = tables \ {TableOf(i)}
  /\ isu' = IF TableOf(i) = "isu" THEN {} ELSE isu
  /\ UNCHANGED <<conn, locks>>

(* a plausible mistake: CREATE under another name                          *)
CreateTables_Renamed(i) ==
  Go(i, "create") /\ tables' = {"isu_config", "isu_condition", "isu", "user"}
    /\ UNCHANGED <<conn, locks, isu>>

CreateTables(i) == Go(i, "create") /\ tables' = Table /\ UNCHANGED <<conn, locks, isu>>

(* The ids of the seeds collide with those of a row that was added since,  *)
(* and the script ends.                                                    *)
LoadSeeds(i) ==
  /\ At(i, "seed") /\ CanGo(i)
  /\ \/ /\ TableOf(i) = "isu" => isu = {}
        /\ at' = [at EXCEPT ![i] = @ + 1]
     \/ /\ TableOf(i) = "isu" => isu # {}
        /\ at' = [at EXCEPT ![i] = Len(Program(i)) + 1]
  /\ UNCHANGED <<conn, locks, tables, isu>>

(* group.Call: every host loads its caches, and the caller waits for all.  *)
Notify(i) ==
  /\ At(i, "notify")
  /\ at' = [q \in Task |-> IF q = i THEN at[q] + 1
                            ELSE IF q \in Load /\ ResetOf[q] = i THEN 1 ELSE at[q]]
  /\ UNCHANGED <<conn, locks, tables, isu>>

Await(i) == Go(i, "await") /\ UNCHANGED <<conn, locks, tables, isu>>

-----------------------------------------------------------------------------
RequestStep(q) ==
  \/ Acquire(q) \/ Execute(q)
  \/ Beginx(q) \/ ExecuteTx(q) \/ ReadURL(q) \/ CommitTx(q) \/ ReturnEarly(q)
LoadStep(l)  == Acquire(l) \/ Execute(l)
ResetStep(i) ==
  DropTable(i) \/ CreateTables(i) \/ LoadSeeds(i) \/ Notify(i) \/ Await(i)

Next ==
  \/ \E q \in Request : Arrive(q) \/ RequestStep(q) \/ AnswerOfJIA(q)
  \/ \E l \in Load : LoadStep(l)
  \/ \E i \in Reset : ResetStep(i)

(* A process with a handler that can go on goes on with one, and so does   *)
(* the mysql client; JIA need not answer.                                  *)
ProcessStep(h) ==
  \/ \E q \in Request : HostOf[q] = h /\ ~At(q, "jia") /\ RequestStep(q)
  \/ \E l \in Load : HostOf[l] = h /\ LoadStep(l)
  \/ \E i \in Reset : HostOf[i] = h /\ ResetStep(i)

Fairness == \A h \in Host : WF_vars(ProcessStep(h))

Spec == Init /\ [][Next]_vars
FairSpec == Spec /\ Fairness

-----------------------------------------------------------------------------
TypeOK ==
  /\ at \in [Task -> Nat] /\ \A q \in Task : at[q] <= Len(Program(q)) + 1
  /\ conn \in [Task -> SUBSET {"tx", "stmt"}]
  /\ locks \in [Task -> SUBSET Table]
  /\ tables \subseteq Table /\ isu \subseteq {UuidOf[q] : q \in Request}

(* Waits never close a circle: as long as a task has not ended, some task  *)
(* can go on (a request that waits for JIA counts as one).  Pools, pending *)
(* DROPs and uncommitted rows only wait for transactions, and a            *)
(* transaction never waits for a connection.                               *)
NoDeadlock ==
  (\E q \in Task : Running(q)) => \E q \in Task : Running(q) /\ CanGo(q)

(* A JIA that does not answer stops the registrations that ask it, and     *)
(* nothing else, before they hold every connection of a process: as long   *)
(* as no reset waits for one of them, the other handlers of the process    *)
(* wait at most for tasks that can go on without JIA.                      *)
Exhausted(h) ==
  /\ ~Free(h)
  /\ \A q \in Task : HostOf[q] = h /\ conn[q] # {} =>
       q \in Request /\ HandlerOf[q] = "postIsu" /\ conn[q] = {"tx"}

JIAStopsOnlyItsOwn ==
  \A q \in Request :
    Running(q) /\ HandlerOf[q] # "postIsu" /\ ~Exhausted(HostOf[q])
      /\ (\A i \in Reset : ~Running(i))
    => \E r \in Task : HostOf[r] = HostOf[q] /\ Running(r) /\ CanGo(r) /\ ~At(r, "jia")

(* If JIA catches up with its answers again and again, there comes a time  *)
(* when everything that has arrived is answered, however few connections   *)
(* there are and whatever a reset drops under it.                          *)
RequestsEnd ==
  []<>(\A q \in Request : ~At(q, "jia")) => []<>(\A q \in Task : ~Running(q))
=============================================================================
