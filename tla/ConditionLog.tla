------------------------------ MODULE ConditionLog ------------------------------
(***************************************************************************)
(* The condition reports of go/main.go: ISUs append batches of reports to  *)
(* the table `isu_condition` (POST /api/condition/:jia_isu_uuid), sending  *)
(* a batch again when its answer is lost, while the handlers that read the *)
(* table run: getIsuConditions, whose client pages backwards through the   *)
(* reports, getTrend, which sends one query per character and per ISU      *)
(* without a transaction, and getIsuList, which reads in one; and while    *)
(* POST /initialize drops the tables under all of them, creates them and   *)
(* loads 1_InitData.sql.                                                   *)
(***************************************************************************)
EXTENDS ConditionFormat, FiniteSetsExt

CONSTANTS
  Isu,
  CharacterOf,  (* `character` of an ISU                                    *)
  Registered,   (* ISUs of 1_InitData.sql                                   *)
  Seed,         (* its reports: rows of isu_condition                       *)
  Post,         (* batches of reports; a batch is sent until it is answered *)
  IsuOf,        (* the ISU that sends a batch                               *)
  ReportsOf,    (* its reports: [ts, condition], sequence                   *)
  Query,        (* queries of getIsuConditions: [isu, levels, start, end]   *)
  Walk,         (* clients that page through getIsuConditions               *)
  Trend,        (* GET /api/trend requests                                  *)
  List,         (* GET /api/isu requests                                    *)
  Limit,        (* conditionLimit: 20 in the code                           *)
  MaxWriters,   (* bound: requests that write                               *)
  MaxReaders    (* bound: requests that read; they do not affect each other *)

NoTime == 0     (* absent start_time *)

RowType == [id : Nat, isu : Isu, ts : Nat, condition : Seq(Piece)]

(* Nothing is assumed of the times of the reports: an ISU may send         *)
(* different reports of one second, or what the seeds have already.        *)
ASSUME ConditionAssumption ==
  /\ Registered \subseteq Isu /\ Seed \subseteq RowType /\ IsFiniteSet(Seed)
  /\ \A x \in Seed : \E c \in Condition : x.condition = Rendered(c)
  /\ IsuOf \in [Post -> Isu]
  /\ DOMAIN ReportsOf = Post
  /\ \A p \in Post : /\ ReportsOf[p] \in Seq([ts : Nat, condition : Seq(Piece)])
                     /\ ReportsOf[p] # << >>
  /\ Query \subseteq [isu : Isu, levels : SUBSET STRING, start : Nat, end : Nat]
  /\ Limit \in Nat \ {0} /\ {MaxWriters, MaxReaders} \subseteq Nat

VARIABLES
  isu,            (* rows of `isu`                                          *)
  isu_condition,  (* rows of `isu_condition`                                *)
  tables,         (* which of the two tables exist                          *)
  known,          (* the ISUs in the caches of the process                  *)
  script,         (* the step of POST /initialize; "ok", "failed": none runs *)
  writers,        (* how many requests that write were made                 *)
  answer,         (* the last answer to a batch                             *)
  walk,           (* a client of getIsuConditions                           *)
  trend,          (* a getTrend request                                     *)
  list            (* a getIsuList request                                   *)

database == <<isu, isu_condition, tables>>
readers == <<walk, trend, list>>
vars == <<database, known, script, writers, answer, readers>>

-----------------------------------------------------------------------------
(* Queries. *)
Of(u, rows)     == {x \in rows : x.isu = u}
(* ORDER BY `timestamp` DESC LIMIT n: rows of the same second in any order *)
Newest(S, n) ==
  {T \in kSubset(IF n < Cardinality(S) THEN n ELSE Cardinality(S), S) :
     \A x \in T, y \in S \ T : x.ts >= y.ts}

-----------------------------------------------------------------------------
(* Plausible mistakes in the code, each to stand in for the definition of  *)
(* the same name without its suffix.                                       *)

(* ORDER BY `id` DESC                                                      *)
Last_ById(u, rows) ==
  {{x} : x \in {y \in Of(u, rows) : \A z \in Of(u, rows) : z.id <= y.id}}
(* the start of the window is not part of it                               *)
Window_Open(q, rows) ==
  {x \in Of(q.isu, rows) : x.ts < q.end /\ (q.start # NoTime => q.start < x.ts)}
(* the zone of the connection (loc=Asia/Tokyo) is subtracted twice         *)
Row_Shifted(p, i) ==
  [id |-> Cardinality(isu_condition) + i, isu |-> IsuOf[p],
   ts |-> ReportsOf[p][i].ts - 9, condition |-> ReportsOf[p][i].condition]

(* db.Get instead of tx.Get: the statement sees what is committed now      *)
Visible_Committed(l) == isu_condition

-----------------------------------------------------------------------------
Last(u, rows) == Newest(Of(u, rows), 1)

Window(q, rows) ==
  {x \in Of(q.isu, rows) : x.ts < q.end /\ (q.start # NoTime => q.start <= x.ts)}
OfLevel(S, levels) == {x \in S : calculateConditionLevel(x.condition) \in levels}

(* a plausible mistake: LIMIT whatever levels are asked for                *)
Selected_Limited(q, rows) ==
  IF q.start = NoTime THEN Newest(Window(q, rows), Limit) ELSE {Window(q, rows)}

(* getIsuConditionsFromDB: without start_time and with three levels the    *)
(* database is asked for a page, otherwise for all rows of the window; the *)
(* levels are filtered then, and the page is cut.                          *)
Selected(q, rows) ==
  IF q.start = NoTime /\ Cardinality(q.levels) = 3
  THEN Newest(Window(q, rows), Limit) ELSE {Window(q, rows)}

getIsuConditionsFromDB(q, rows) ==
  UNION {Newest(OfLevel(S, q.levels), Limit) : S \in Selected(q, rows)}

Init ==
  /\ isu = Registered /\ isu_condition = Seed /\ tables = {"isu", "isu_condition"}
  /\ known = Registered /\ script = "ok"
  /\ writers = 0 /\ answer = [p \in Post |-> "none"]
  /\ walk = [w \in Walk |-> [pc |-> "new", got |-> {}, ends |-> {}, stored |-> {},
                            dropped |-> FALSE]]
  /\ trend = [t \in Trend |-> [pc |-> "new", characters |-> {}, isus |-> {}, res |-> {},
                              known |-> {}, stored |-> {}, dropped |-> FALSE]]
  /\ list = [l \in List |-> [pc |-> "new", isus |-> {}, snapshot |-> {}, res |-> {},
                            known |-> {}, stored |-> {}]]

-----------------------------------------------------------------------------
(* A report as a row; `id` is AUTO_INCREMENT. *)
Row(p, i) ==
  [id |-> Cardinality(isu_condition) + i, isu |-> IsuOf[p],
   ts |-> ReportsOf[p][i].ts, condition |-> ReportsOf[p][i].condition]

(* Bound: writers. *)
MayWrite == writers < MaxWriters /\ writers' = writers + 1

(* POST /api/isu, as far as these handlers see it. *)
Register(u) ==
  /\ u \notin isu /\ "isu" \in tables /\ MayWrite
  /\ isu' = isu \cup {u} /\ known' = known \cup {u}
  /\ UNCHANGED <<isu_condition, tables, script, answer, readers>>

(* postIsuCondition: one INSERT for the batch, if every report is valid.   *)
Verdict(p) ==
  IF IsuOf[p] \notin known THEN "404"
  ELSE LET bad == {i \in DOMAIN ReportsOf[p] : ~isValidConditionFormat(ReportsOf[p][i].condition)}
       IN IF bad = {} THEN "202"
          ELSE IF OutOfRange(ReportsOf[p][Min(bad)].condition) THEN "panic" ELSE "400"

(* a plausible mistake: one INSERT per report, up to the first bad one     *)
Stored_OneByOne(p) ==
  IF IsuOf[p] \notin known THEN {}
  ELSE LET good == {i \in DOMAIN ReportsOf[p] :
                      \A j \in 1 .. i : isValidConditionFormat(ReportsOf[p][j].condition)}
       IN {Row(p, i) : i \in good}

Stored(p) ==
  IF Verdict(p) # "202" THEN {}
  ELSE {Row(p, i) : i \in DOMAIN ReportsOf[p]}

(* The answer may be lost.  An answer 404, or 500 when the database refuses *)
(* the statement or there is no table, changes nothing: the ISU sends the   *)
(* batch again, as it does when it has got no answer.                       *)
PostIsuCondition(p) ==
  /\ MayWrite /\ answer[p] = "none"
  /\ Verdict(p) # "404" /\ (Verdict(p) = "202" => "isu_condition" \in tables)
  /\ isu_condition' = isu_condition \cup Stored(p)
  /\ \E a \in {Verdict(p), "none"} : answer' = [answer EXCEPT ![p] = a]
  /\ UNCHANGED <<isu, tables, known, script, readers>>

-----------------------------------------------------------------------------
(* Bound: readers. *)
MayRead ==
  Cardinality({w \in Walk : walk[w].pc # "new"}) + Cardinality({t \in Trend : trend[t].pc # "new"})
    + Cardinality({l \in List : list[l].pc # "new"}) < MaxReaders

(* A client pages through GET /api/condition/:jia_isu_uuid: the next page  *)
(* ends where the last one began, until a page is short.  `ends` has the   *)
(* seconds in which its full pages ended.                                  *)
StartWalk(w, q) ==
  /\ walk[w].pc = "new" /\ q.isu \in known /\ MayRead
  /\ walk' = [walk EXCEPT ![w] =
       [pc |-> "running", got |-> {}, ends |-> {}, stored |-> isu_condition,
        dropped |-> FALSE, query |-> q, end |-> q.end]]
  /\ UNCHANGED <<database, known, script, writers, answer, trend, list>>

GetIsuConditions(w) ==
  /\ walk[w].pc = "running" /\ walk[w].query.isu \in known /\ "isu_condition" \in tables
  /\ \E page \in getIsuConditionsFromDB([walk[w].query EXCEPT !.end = walk[w].end],
                                         isu_condition) :
       walk' = [walk EXCEPT ![w] =
         [walk[w] EXCEPT !.got = @ \cup page,
                         !.pc  = IF Cardinality(page) < Limit THEN "done" ELSE @,
                         !.end = IF page = {} THEN @ ELSE Min({x.ts : x \in page}),
                         !.ends = IF Cardinality(page) < Limit THEN @
                                  ELSE @ \cup {Min({x.ts : x \in page})}]]
  /\ UNCHANGED <<database, known, script, writers, answer, trend, list>>

-----------------------------------------------------------------------------
(* getTrend.  Every query is a statement of its own. *)
SelectCharacters(t) ==
  /\ trend[t].pc = "new" /\ "isu" \in tables /\ MayRead
  /\ trend' = [trend EXCEPT ![t].pc = "running", ![t].characters = {CharacterOf[u] : u \in isu},
                            ![t].known = isu, ![t].stored = isu_condition]
  /\ UNCHANGED <<database, known, script, writers, answer, walk, list>>

SelectIsusOf(t, ch) ==
  /\ trend[t].pc = "running" /\ trend[t].isus = {} /\ ch \in trend[t].characters
  /\ "isu" \in tables
  /\ trend' = [trend EXCEPT ![t].characters = @ \ {ch},
                            ![t].isus = {u \in isu : CharacterOf[u] = ch}]
  /\ UNCHANGED <<database, known, script, writers, answer, walk, list>>

TrendCondition(x) ==
  [isu |-> x.isu, ts |-> x.ts, level |-> calculateConditionLevel(x.condition)]

SelectLastCondition(t, u) ==
  /\ trend[t].pc = "running" /\ u \in trend[t].isus /\ "isu_condition" \in tables
  /\ \E last \in Last(u, isu_condition) :
       trend' = [trend EXCEPT ![t].isus = @ \ {u},
                              ![t].res = @ \cup {TrendCondition(x) : x \in last}]
  /\ UNCHANGED <<database, known, script, writers, answer, walk, list>>

TrendDone(t) ==
  /\ trend[t].pc = "running" /\ trend[t].isus = {} /\ trend[t].characters = {}
  /\ trend' = [trend EXCEPT ![t].pc = "done"]
  /\ UNCHANGED <<database, known, script, writers, answer, walk, list>>

-----------------------------------------------------------------------------
(* getIsuList: the first SELECT of the transaction takes its snapshot.     *)
SelectIsuList(l) ==
  /\ list[l].pc = "new" /\ "isu" \in tables /\ MayRead
  /\ list' = [list EXCEPT ![l] =
       [@ EXCEPT !.pc = "running", !.isus = isu, !.snapshot = isu_condition,
                 !.known = isu, !.stored = isu_condition]]
  /\ UNCHANGED <<database, known, script, writers, answer, walk, trend>>

Visible(l) == list[l].snapshot

GetLastCondition(l, u) ==
  /\ list[l].pc = "running" /\ u \in list[l].isus /\ "isu_condition" \in tables
  /\ \E last \in Last(u, Visible(l)) :
       list' = [list EXCEPT ![l] =
         [list[l] EXCEPT !.isus = @ \ {u}, !.res = @ \cup last]]
  /\ UNCHANGED <<database, known, script, writers, answer, walk, trend>>

ListDone(l) ==
  /\ list[l].pc = "running" /\ list[l].isus = {}
  /\ list' = [list EXCEPT ![l].pc = "done", ![l].snapshot = {}]
  /\ UNCHANGED <<database, known, script, writers, answer, walk, trend>>

(* A query of a reader fails, always when its table does not exist, and    *)
(* the handler answers 500 (to a page it may be 404).                      *)
Fails(x) == x.pc = "running"

FailWalk(w) ==
  /\ Fails(walk[w]) /\ walk' = [walk EXCEPT ![w] = [@ EXCEPT !.pc = "failed", !.got = {}]]
  /\ UNCHANGED <<database, known, script, writers, answer, trend, list>>
FailTrend(t) ==
  /\ Fails(trend[t]) /\ trend' = [trend EXCEPT ![t].pc = "failed"]
  /\ UNCHANGED <<database, known, script, writers, answer, walk, list>>
FailList(l) ==
  /\ Fails(list[l]) /\ list' = [list EXCEPT ![l].pc = "failed", ![l].snapshot = {}]
  /\ UNCHANGED <<database, known, script, writers, answer, walk, trend>>

-----------------------------------------------------------------------------
(* POST /initialize: init.sh with the statements of 0_Schema.sql and       *)
(* 1_InitData.sql, then the call that loads the caches.  DROP and LOCK     *)
(* TABLES WRITE wait for the transactions that have used the table.        *)
Uses(l, table) ==
  /\ list[l].pc = "running"
  /\ table = "isu_condition" => list[l].isus # list[l].known
Alone(table) == \A l \in List : ~Uses(l, table)

PostInitialize ==
  /\ script \in {"ok", "failed"} /\ MayWrite
  /\ script' = "drop isu_condition"
  /\ UNCHANGED <<database, known, answer, readers>>

DropConditions ==
  /\ script = "drop isu_condition" /\ Alone("isu_condition")
  /\ script' = "drop isu"
  /\ isu_condition' = {} /\ tables' = tables \ {"isu_condition"}
  /\ answer' = [p \in Post |-> IF answer[p] = "202" THEN "dropped" ELSE answer[p]]
  /\ walk' = [w \in Walk |-> [walk[w] EXCEPT !.dropped = (@ \/ walk[w].pc # "new")]]
  /\ trend' = [t \in Trend |-> [trend[t] EXCEPT !.dropped = (@ \/ trend[t].pc # "new")]]
  /\ UNCHANGED <<isu, known, writers, list>>

DropIsu ==
  /\ script = "drop isu" /\ Alone("isu")
  /\ script' = "create"
  /\ isu' = {} /\ tables' = tables \ {"isu"}
  /\ UNCHANGED <<isu_condition, known, writers, answer, readers>>

CreateTables ==
  /\ script = "create"
  /\ script' = "seed isu"
  /\ tables' = {"isu", "isu_condition"}
  /\ UNCHANGED <<isu, isu_condition, known, writers, answer, readers>>

(* a plausible mistake: mysql --force, INSERT IGNORE                       *)
SeedConditions_Force ==
  /\ script = "seed isu_condition" /\ Alone("isu_condition")
  /\ script' = "clear"
  /\ isu_condition' = isu_condition \cup
       {x \in Seed : \A y \in isu_condition : y.id # x.id}
  /\ UNCHANGED <<isu, tables, known, writers, answer, readers>>

(* The script ends at the first error: the keys of the seeds are taken.    *)
SeedIsu ==
  /\ script = "seed isu" /\ Alone("isu")
  /\ \/ isu = {} /\ isu' = Registered /\ script' = "seed isu_condition"
     \/ isu # {} /\ UNCHANGED isu /\ script' = "failed"
  /\ UNCHANGED <<isu_condition, tables, known, writers, answer, readers>>

SeedConditions ==
  /\ script = "seed isu_condition" /\ Alone("isu_condition")
  /\ \/ isu_condition = {} /\ isu_condition' = Seed /\ script' = "clear"
     \/ isu_condition # {} /\ UNCHANGED isu_condition /\ script' = "failed"
  /\ UNCHANGED <<isu, tables, known, writers, answer, readers>>

(* initializeCache                                                         *)
ClearCache ==
  /\ script = "clear"
  /\ script' = "load" /\ known' = {}
  /\ UNCHANGED <<database, writers, answer, readers>>

LoadCache ==
  /\ script = "load"
  /\ script' = "ok" /\ known' = known \cup isu
  /\ UNCHANGED <<database, writers, answer, readers>>

Next ==
  \/ \E u \in Isu : Register(u)
  \/ \E p \in Post : PostIsuCondition(p)
  \/ \E w \in Walk : (\E q \in Query : StartWalk(w, q)) \/ GetIsuConditions(w) \/ FailWalk(w)
  \/ \E t \in Trend : \/ SelectCharacters(t) \/ TrendDone(t) \/ FailTrend(t)
                      \/ \E u \in Isu : SelectIsusOf(t, CharacterOf[u]) \/ SelectLastCondition(t, u)
  \/ \E l \in List : \/ SelectIsuList(l) \/ ListDone(l) \/ FailList(l)
                     \/ \E u \in Isu : GetLastCondition(l, u)
  \/ PostInitialize \/ DropConditions \/ DropIsu \/ CreateTables
  \/ SeedIsu \/ SeedConditions \/ ClearCache \/ LoadCache

Spec == Init /\ [][Next]_vars

-----------------------------------------------------------------------------
TypeOK ==
  /\ isu \subseteq Isu /\ isu_condition \subseteq RowType
  /\ tables \subseteq {"isu", "isu_condition"} /\ known \subseteq Isu
  /\ isu # {} => "isu" \in tables
  /\ isu_condition # {} => "isu_condition" \in tables
  /\ script \in {"ok", "failed", "drop isu_condition", "drop isu", "create", "seed isu",
                 "seed isu_condition", "clear", "load"}
  /\ writers \in 0 .. MaxWriters
  /\ answer \in [Post -> {"none", "202", "400", "panic", "dropped"}]
  /\ \A x \in {walk[w] : w \in Walk} \cup {trend[t] : t \in Trend} \cup {list[l] : l \in List} :
       x.pc \in {"new", "running", "done", "failed"}
  /\ \A w \in Walk : walk[w].got \subseteq RowType
  /\ \A t \in Trend : trend[t].isus \subseteq Isu
  /\ \A l \in List : list[l].res \subseteq RowType

(* Whatever is sent, in whatever batches, the table holds only strings     *)
(* whose level can be computed: no later getTrend, getIsuList or           *)
(* getIsuGraph fails for a report that was let in (main.go:1374).          *)
StoredIsWellFormed ==
  \A x \in isu_condition :
    /\ \E c \in Condition : x.condition = Rendered(c)
    /\ calculateConditionLevel(x.condition) # "error"

(* A batch is stored as a whole or not at all, however often it was sent   *)
(* and whichever of its reports is the bad one: what was answered with 202 *)
(* is in the table until a reset drops it, what was answered with 400 or   *)
(* died in the index of the missing comma has left nothing behind.         *)
IsStored(p, i) ==
  \E x \in isu_condition : x = [Row(p, i) EXCEPT !.id = x.id]
Own(p) == {i \in DOMAIN ReportsOf[p] :
  /\ \A q \in Post \ {p} : IsuOf[q] = IsuOf[p] =>
       \A j \in DOMAIN ReportsOf[q] : ReportsOf[q][j] # ReportsOf[p][i]
  /\ \A x \in Seed : x.isu = IsuOf[p] =>
       x.ts # ReportsOf[p][i].ts \/ x.condition # ReportsOf[p][i].condition}

AllOrNothing ==
  \A p \in Post :
    /\ (\E i \in Own(p) : IsStored(p, i)) => \A i \in DOMAIN ReportsOf[p] : IsStored(p, i)
    /\ answer[p] = "202" => \A i \in DOMAIN ReportsOf[p] : IsStored(p, i)
    /\ answer[p] \in {"400", "panic"} => \A i \in Own(p) : ~IsStored(p, i)

(* A page is the newest reports of the window that have one of the levels, *)
(* as many as a page holds: asking the database for one page only when     *)
(* there are three levels (main.go:1168) never makes it shorter.           *)
Matching(q) == {x \in isu_condition :
  /\ x.isu = q.isu /\ x.ts < q.end /\ q.start <= x.ts
  /\ calculateConditionLevel(x.condition) \in q.levels}

PageIsNewestMatching ==
  \A q \in Query : getIsuConditionsFromDB(q, isu_condition) = Newest(Matching(q), Limit)

(* A client that pages back to a short page has seen every matching report *)
(* that was stored when it began, although reports were added at both ends *)
(* and sent twice meanwhile: end_time is exclusive, so the rest of the     *)
(* second in which a full page ended is skipped.  What is lost by that is  *)
(* the repetition of a report, or a report of which the ISU made another   *)
(* one in that very second, which the client got.  A reset in between ends *)
(* the guarantee.                                                          *)
Seen(r, x) == \E y \in r.got : [y EXCEPT !.id = x.id] = x
Straddles(r, x) == /\ x.ts \in r.ends
                   /\ \E y \in r.got : y.isu = x.isu /\ y.ts = x.ts /\ y.condition # x.condition

WalkIsComplete ==
  \A w \in Walk : walk[w].pc = "done" /\ ~walk[w].dropped =>
    \A x \in Matching(walk[w].query) \cap walk[w].stored :
      Seen(walk[w], x) \/ Straddles(walk[w], x)

(* getTrend reads no consistent state, but every ISU that was registered   *)
(* and had reported when it began is in its answer exactly once, with a    *)
(* report of the ISU, its level, and at least as new as any of then,       *)
(* unless a reset dropped the reports meanwhile.                           *)
TrendCoversStart ==
  \A t \in Trend : trend[t].pc = "done" /\ ~trend[t].dropped =>
    /\ \A e \in trend[t].res : \E x \in isu_condition : e = TrendCondition(x)
    /\ \A u \in trend[t].known : Of(u, trend[t].stored) # {} =>
         \E e \in trend[t].res :
           /\ \A f \in trend[t].res : f.isu = u => f = e
           /\ e.isu = u /\ \A x \in Of(u, trend[t].stored) : x.ts <= e.ts

(* getIsuList shows every ISU as of one moment, the start of its           *)
(* transaction, whatever was registered, reported or dropped between its   *)
(* queries: a reset drops isu_condition first and then waits for the list, *)
(* which fails, and never sees a part of the new table.                    *)
ListIsSnapshot ==
  \A l \in List : list[l].pc = "done" =>
    /\ list[l].res \subseteq list[l].stored
    /\ \A u \in list[l].known : Of(u, list[l].res) \in Last(u, list[l].stored)

(* A reset that was answered with 200 has left the seeds whole in both     *)
(* tables, and their ISUs in the caches, although the caches still let     *)
(* reports of dropped ISUs into the new table before the seeds were there: *)
(* then the reset fails (init.sh ends at the first error).                 *)
ResetIsWhole ==
  script = "ok" => Seed \subseteq isu_condition /\ Registered \subseteq isu \cap known
=============================================================================
