--------------------------- MODULE ConditionLogProofs ---------------------------
(***************************************************************************)
(* isValidConditionFormat accepts exactly the strings the code is written  *)
(* for, whatever string it is given, and so no report that was let in can  *)
(* make a later request fail.  Batches are atomic, a successful reset is   *)
(* whole, and the two readers of several statements are consistent: the    *)
(* list is one state of the table, and the trend misses nothing that was   *)
(* stored when it began.  A page of getIsuConditions is the newest         *)
(* matching reports, and a client that pages back misses none, but for     *)
(* reports of one second that straddle two pages.                          *)
(***************************************************************************)
EXTENDS ConditionLog, FiniteSetTheorems, WellFoundedInduction, TLAPS

(* The pieces of an accepted string. *)
LEMMA AcceptedPieces ==
  ASSUME NEW s \in Seq(Piece), isValidConditionFormat(s)
  PROVE  /\ Len(s) = 8 /\ s[1] = Keys[1] /\ s[4] = Keys[2] /\ s[7] = Keys[3]
         /\ s[3] = Comma /\ s[6] = Comma
         /\ s[2] \in Values /\ s[5] \in Values /\ s[8] \in Values
<1>1. PairAt(s, 1) /\ CommaAt(s, 1) /\ PairAt(s, 2) /\ CommaAt(s, 2) /\ PairAt(s, 3)
  BY DEF isValidConditionFormat, Reaches
<1>2. Len(s) = 8
  BY DEF isValidConditionFormat
<1> QED
  BY <1>1, <1>2 DEF PairAt, CommaAt, HasPrefix

LEMMA RenderedPieces ==
  ASSUME NEW c \in Condition
  PROVE  /\ Len(Rendered(c)) = 8 /\ DOMAIN Rendered(c) = 1 .. 8
         /\ Rendered(c)[1] = Keys[1] /\ Rendered(c)[2] = Value(c[1]) /\ Rendered(c)[3] = Comma
         /\ Rendered(c)[4] = Keys[2] /\ Rendered(c)[5] = Value(c[2]) /\ Rendered(c)[6] = Comma
         /\ Rendered(c)[7] = Keys[3] /\ Rendered(c)[8] = Value(c[3])
BY DEF Rendered

LEMMA ValueIsRendered == \A v \in Values : \E b \in BOOLEAN : v = Value(b)
BY DEF Values, Value

(* isValidConditionFormat (main.go:1392) returns true for the rendering of *)
(* a condition and for nothing else.                                       *)
THEOREM AcceptedIsRendered ==
  \A s \in Seq(Piece) :
    isValidConditionFormat(s) <=> \E c \in Condition : s = Rendered(c)
<1> SUFFICES ASSUME NEW s \in Seq(Piece)
             PROVE  isValidConditionFormat(s) <=> \E c \in Condition : s = Rendered(c)
  OBVIOUS
<1>1. ASSUME isValidConditionFormat(s) PROVE \E c \in Condition : s = Rendered(c)
  <2>1. PICK b1 \in BOOLEAN, b2 \in BOOLEAN, b3 \in BOOLEAN :
          s[2] = Value(b1) /\ s[5] = Value(b2) /\ s[8] = Value(b3)
    BY <1>1, AcceptedPieces, ValueIsRendered
  <2> DEFINE c == [k \in 1 .. 3 |-> IF k = 1 THEN b1 ELSE IF k = 2 THEN b2 ELSE b3]
  <2>2. c \in Condition /\ c[1] = b1 /\ c[2] = b2 /\ c[3] = b3
    BY DEF Condition
  <2>3. \A i \in 1 .. 8 : s[i] = Rendered(c)[i]
    BY <1>1, <2>1, <2>2, AcceptedPieces, RenderedPieces
  <2>4. s = Rendered(c)
    BY <1>1, <2>2, <2>3, AcceptedPieces DEF Rendered
  <2> QED
    BY <2>2, <2>4
<1>2. ASSUME NEW c \in Condition, s = Rendered(c) PROVE isValidConditionFormat(s)
  <2>1. Value(c[1]) \in Values /\ Value(c[2]) \in Values /\ Value(c[3]) \in Values
    BY DEF Value, Values
  <2>2. PairAt(s, 1) /\ PairAt(s, 2) /\ PairAt(s, 3) /\ CommaAt(s, 1) /\ CommaAt(s, 2)
    BY <1>2, <2>1, RenderedPieces DEF PairAt, CommaAt, HasPrefix
  <2> QED
    BY <1>2, <2>2, RenderedPieces DEF isValidConditionFormat, Reaches
<1> QED
  BY <1>1, <1>2

(* An accepted string has at most three "=true": its level is computed.    *)
LEMMA RenderedHasLevel ==
  ASSUME NEW c \in Condition
  PROVE  calculateConditionLevel(Rendered(c)) # "error"
<1> DEFINE W == {i \in 2 .. Len(Rendered(c)) :
                   Rendered(c)[i - 1] \in Key /\ Rendered(c)[i] = "true"}
<1>1. W \subseteq {2, 5, 8}
  <2>1. Keys[1] # "true" /\ Keys[2] # "true" /\ Keys[3] # "true" /\ Comma # "true"
    BY DEF Keys, Comma
  <2>2. ASSUME NEW i \in W PROVE i \in {2, 5, 8}
    <3>1. i \in 2 .. 8 /\ Rendered(c)[i] = "true"
      BY RenderedPieces
    <3> QED
      BY <2>1, <3>1, RenderedPieces
  <2> QED
    BY <2>2
<1>2. IsFiniteSet({2, 5, 8}) /\ Cardinality({2, 5, 8}) = 3
  <2>1. {2, 5, 8} = ({2} \cup {5}) \cup {8}
    OBVIOUS
  <2>2. IsFiniteSet({2}) /\ Cardinality({2}) = 1
    BY FS_Singleton
  <2>3. IsFiniteSet({2} \cup {5}) /\ Cardinality({2} \cup {5}) = 2
    BY <2>2, FS_AddElement
  <2>4. IsFiniteSet(({2} \cup {5}) \cup {8}) /\ Cardinality(({2} \cup {5}) \cup {8}) = 3
    BY <2>3, FS_AddElement
  <2> QED
    BY <2>1, <2>4
<1>3. Cardinality(W) \in 0 .. 3
  BY <1>1, <1>2, FS_Subset, FS_CardinalityType
<1> QED
  BY <1>3 DEF calculateConditionLevel, WarnCount

-----------------------------------------------------------------------------
LEMMA ElementOf == ASSUME NEW S, NEW s \in Seq(S), NEW i \in DOMAIN s PROVE s[i] \in S
OBVIOUS

(* The steps that write no report.                                         *)
LEMMA Quiet ==
  ASSUME [Next]_vars
  PROVE  \/ UNCHANGED <<isu_condition, answer>>
         \/ \E p \in Post : PostIsuCondition(p)
         \/ DropConditions
         \/ SeedConditions /\ UNCHANGED answer
BY DEF Next, vars, database, readers, Register, StartWalk, GetIsuConditions, FailWalk,
     SelectCharacters, SelectIsusOf, SelectLastCondition, TrendDone, FailTrend, SelectIsuList,
     GetLastCondition, ListDone, FailList, PostInitialize, DropIsu, CreateTables, SeedIsu,
     SeedConditions, ClearCache, LoadCache

LEMMA ReportType ==
  ASSUME NEW p \in Post, NEW i \in DOMAIN ReportsOf[p]
  PROVE  ReportsOf[p][i] \in [ts : Nat, condition : Seq(Piece)]
<1>1. ReportsOf[p] \in Seq([ts : Nat, condition : Seq(Piece)])
  BY ConditionAssumption
<1> QED
  BY <1>1, ElementOf

LEMMA SeedWellFormed ==
  \A x \in Seed : /\ \E c \in Condition : x.condition = Rendered(c)
                  /\ calculateConditionLevel(x.condition) # "error"
BY ConditionAssumption, RenderedHasLevel

LEMMA StoredStep ==
  ASSUME StoredIsWellFormed, [Next]_vars
  PROVE  StoredIsWellFormed'
<1>1. ASSUME NEW p \in Post, PostIsuCondition(p) PROVE StoredIsWellFormed'
  <2>1. ASSUME NEW x \in Stored(p)
        PROVE  /\ \E c \in Condition : x.condition = Rendered(c)
               /\ calculateConditionLevel(x.condition) # "error"
    <3>1. PICK i \in DOMAIN ReportsOf[p] : x = Row(p, i)
      BY <2>1 DEF Stored
    <3>2. isValidConditionFormat(ReportsOf[p][i].condition)
      BY <2>1, <3>1 DEF Stored, Verdict
    <3>3. PICK c \in Condition : ReportsOf[p][i].condition = Rendered(c)
      BY <3>2, ReportType, AcceptedIsRendered
    <3>4. x.condition = Rendered(c)
      BY <3>1, <3>3 DEF Row
    <3> QED
      BY <3>4, RenderedHasLevel
  <2> QED
    BY <1>1, <2>1 DEF PostIsuCondition, StoredIsWellFormed
<1>2. ASSUME UNCHANGED isu_condition PROVE StoredIsWellFormed'
  BY <1>2 DEF StoredIsWellFormed
<1>3. ASSUME DropConditions PROVE StoredIsWellFormed'
  BY <1>3 DEF DropConditions, StoredIsWellFormed
<1>4. ASSUME SeedConditions PROVE StoredIsWellFormed'
  BY <1>4, SeedWellFormed DEF SeedConditions, StoredIsWellFormed
<1> QED
  BY <1>1, <1>2, <1>3, <1>4, Quiet

(* No sequence of batches puts a string into the table whose level cannot  *)
(* be computed: getTrend, getIsuList and getIsuGraph never fail for one.   *)
THEOREM StoredNeverFails == Spec => []StoredIsWellFormed
<1>1. Init => StoredIsWellFormed
  BY SeedWellFormed DEF Init, StoredIsWellFormed
<1>2. StoredIsWellFormed /\ [Next]_vars => StoredIsWellFormed'
  BY StoredStep
<1> QED
  BY <1>1, <1>2, PTL DEF Spec

-----------------------------------------------------------------------------
(* A batch is stored whole or not at all. *)
Bad(p) == {i \in DOMAIN ReportsOf[p] : ~isValidConditionFormat(ReportsOf[p][i].condition)}

(* A row that holds the i-th report of a batch.                            *)
Holds(x, p, i) ==
  x.isu = IsuOf[p] /\ x.ts = ReportsOf[p][i].ts /\ x.condition = ReportsOf[p][i].condition

IsRow(x) == x = [id |-> x.id, isu |-> x.isu, ts |-> x.ts, condition |-> x.condition]

BatchInv ==
  /\ \A x \in isu_condition : IsRow(x)
  /\ \A p \in Post :
       /\ (\E i \in Own(p) : IsStored(p, i)) =>
            Bad(p) = {} /\ \A i \in DOMAIN ReportsOf[p] : IsStored(p, i)
       /\ answer[p] = "202" => \A i \in DOMAIN ReportsOf[p] : IsStored(p, i)
       /\ answer[p] \in {"400", "panic"} => Bad(p) # {}

LEMMA RowHolds ==
  ASSUME NEW x, IsRow(x), NEW p, NEW i, NEW n
  PROVE  x = [[id |-> n, isu |-> IsuOf[p], ts |-> ReportsOf[p][i].ts,
               condition |-> ReportsOf[p][i].condition] EXCEPT !.id = x.id]
           <=> Holds(x, p, i)
BY DEF IsRow, Holds

LEMMA StoredHolds ==
  ASSUME \A x \in isu_condition : IsRow(x), NEW p, NEW i
  PROVE  IsStored(p, i) <=> \E x \in isu_condition : Holds(x, p, i)
BY RowHolds DEF IsStored, Row

LEMMA StoredHoldsNext ==
  ASSUME (\A x \in isu_condition : IsRow(x))', NEW p, NEW i
  PROVE  IsStored(p, i)' <=> \E x \in isu_condition' : Holds(x, p, i)
BY RowHolds DEF IsStored, Row

(* A report of a batch's own is in no row that another batch made.         *)
LEMMA OwnRow ==
  ASSUME NEW p \in Post, NEW q \in Post, NEW i \in Own(p), NEW j \in DOMAIN ReportsOf[q],
         IsuOf[p] = IsuOf[q], ReportsOf[p][i].ts = ReportsOf[q][j].ts,
         ReportsOf[p][i].condition = ReportsOf[q][j].condition
  PROVE  p = q
<1>1. i \in DOMAIN ReportsOf[p]
  BY DEF Own
<1>2. ReportsOf[p][i] = ReportsOf[q][j]
  BY <1>1, ReportType
<1> QED
  BY <1>2 DEF Own

(* ... and in no seed. *)
LEMMA SeedApart ==
  ASSUME NEW x \in Seed, NEW p \in Post, NEW i \in Own(p)
  PROVE  ~Holds(x, p, i)
BY DEF Holds, Own

LEMMA SeedRows == \A x \in Seed : IsRow(x)
BY ConditionAssumption DEF RowType, IsRow

LEMMA BatchStep ==
  ASSUME BatchInv, [Next]_vars
  PROVE  BatchInv'
<1>1. \A x \in isu_condition : IsRow(x)
  BY DEF BatchInv
<1>2. ASSUME NEW q \in Post, PostIsuCondition(q) PROVE BatchInv'
  <2>1. /\ isu_condition' = isu_condition \cup Stored(q)
        /\ \A p \in Post : answer'[p] # answer[p] => p = q /\ answer'[p] = Verdict(q)
        /\ \A p \in Post : p # q => answer'[p] = answer[p]
    <3>1. isu_condition' = isu_condition \cup Stored(q)
      BY <1>2 DEF PostIsuCondition
    <3>2. PICK a \in {Verdict(q), "none"} : answer' = [answer EXCEPT ![q] = a]
      BY <1>2 DEF PostIsuCondition
    <3>3. answer[q] = "none"
      BY <1>2 DEF PostIsuCondition
    <3> QED
      BY <3>1, <3>2, <3>3
  <2>2. Verdict(q) = "202" => Bad(q) = {}
    BY DEF Verdict, Bad
  <2>3. Verdict(q) \in {"400", "panic"} => Bad(q) # {}
    BY DEF Verdict, Bad
  <2>4. (\A x \in isu_condition : IsRow(x))'
    <3>1. ASSUME NEW x \in Stored(q) PROVE IsRow(x)
      BY <3>1 DEF Stored, Row, IsRow
    <3> QED
      BY <1>1, <2>1, <3>1
  <2>5. ASSUME NEW p \in Post, NEW i, IsStored(p, i) PROVE IsStored(p, i)'
    BY <1>1, <2>1, <2>4, <2>5, StoredHolds, StoredHoldsNext
  <2>6. ASSUME Verdict(q) = "202", NEW i \in DOMAIN ReportsOf[q] PROVE IsStored(q, i)'
    <3>1. Row(q, i) \in isu_condition' /\ Holds(Row(q, i), q, i)
      BY <2>1, <2>6 DEF Stored, Row, Holds
    <3> QED
      BY <2>4, <3>1, StoredHoldsNext
  <2>7. ASSUME NEW p \in Post, NEW i \in Own(p), IsStored(p, i)'
        PROVE  Bad(p) = {} /\ \A k \in DOMAIN ReportsOf[p] : IsStored(p, k)'
    <3>1. CASE IsStored(p, i)
      BY <2>5, <3>1 DEF BatchInv
    <3>2. CASE ~IsStored(p, i)
      <4>1. PICK x \in isu_condition' : Holds(x, p, i)
        BY <2>4, <2>7, StoredHoldsNext
      <4>2. x \in Stored(q)
        BY <1>1, <2>1, <3>2, <4>1, StoredHolds
      <4>3. PICK j \in DOMAIN ReportsOf[q] : x = Row(q, j)
        BY <4>2 DEF Stored
      <4>4. Verdict(q) = "202"
        BY <4>2 DEF Stored
      <4>5. p = q
        BY <4>1, <4>3, OwnRow DEF Holds, Row
      <4> QED
        BY <2>2, <2>6, <4>4, <4>5
    <3> QED
      BY <3>1, <3>2
  <2>8. ASSUME NEW p \in Post, answer'[p] = "202"
        PROVE  \A k \in DOMAIN ReportsOf[p] : IsStored(p, k)'
    <3>1. CASE answer[p] = "202"
      BY <2>5, <3>1 DEF BatchInv
    <3>2. CASE answer[p] # "202"
      BY <2>1, <2>6, <2>8, <3>2
    <3> QED
      BY <3>1, <3>2
  <2>9. ASSUME NEW p \in Post, answer'[p] \in {"400", "panic"} PROVE Bad(p) # {}
    <3>1. CASE answer'[p] = answer[p]
      BY <2>9, <3>1 DEF BatchInv
    <3>2. CASE answer'[p] # answer[p]
      BY <2>1, <2>3, <2>9, <3>2
    <3> QED
      BY <3>1, <3>2
  <2> QED
    BY <2>4, <2>7, <2>8, <2>9 DEF BatchInv
<1>3. ASSUME UNCHANGED <<isu_condition, answer>> PROVE BatchInv'
  <2>1. \A p, i : IsStored(p, i)' <=> IsStored(p, i)
    BY <1>1, <1>3, StoredHolds, StoredHoldsNext
  <2> QED
    BY <1>1, <1>3, <2>1 DEF BatchInv
<1>4. ASSUME DropConditions PROVE BatchInv'
  <2>1. isu_condition' = {} /\ \A p \in Post : answer'[p] # "202"
          /\ (answer'[p] = answer[p] \/ answer'[p] = "dropped")
    BY <1>4 DEF DropConditions
  <2>2. \A p, i : ~IsStored(p, i)'
    BY <2>1 DEF IsStored
  <2> QED
    BY <2>1, <2>2 DEF BatchInv
<1>5. ASSUME SeedConditions, UNCHANGED answer PROVE BatchInv'
  <2>1. CASE isu_condition # {}
    BY <1>3, <1>5, <2>1 DEF SeedConditions
  <2>2. CASE isu_condition = {}
    <3>1. isu_condition' = Seed
      BY <1>5, <2>2 DEF SeedConditions
    <3>2. (\A x \in isu_condition : IsRow(x))'
      BY <3>1, SeedRows
    <3>3. \A p \in Post : \A i \in Own(p) : ~IsStored(p, i)'
      BY <3>1, <3>2, SeedApart, StoredHoldsNext
    <3>4. \A p \in Post : \A i \in DOMAIN ReportsOf[p] : ~IsStored(p, i)
      BY <2>2 DEF IsStored
    <3>5. ASSUME NEW p \in Post PROVE answer[p] # "202"
      <4>1. 1 \in DOMAIN ReportsOf[p]
        BY ConditionAssumption
      <4> QED
        BY <3>4, <4>1 DEF BatchInv
    <3> QED
      BY <1>5, <3>2, <3>3, <3>5 DEF BatchInv, Own
  <2> QED
    BY <2>1, <2>2
<1> QED
  BY <1>2, <1>3, <1>4, <1>5, Quiet

(* Whatever batches are sent, again or not, and whatever is dropped, an    *)
(* answer 202 means a whole batch and an answer 400 none of it.            *)
THEOREM BatchIsAtomic == Spec => []AllOrNothing
<1>1. Init => BatchInv
  <2> SUFFICES ASSUME Init PROVE BatchInv
    OBVIOUS
  <2>1. \A x \in isu_condition : IsRow(x)
    BY SeedRows DEF Init
  <2>2. \A p \in Post : \A i \in Own(p) : ~IsStored(p, i)
    BY <2>1, SeedApart, StoredHolds DEF Init
  <2> QED
    BY <2>1, <2>2 DEF Init, BatchInv, Own
<1>2. BatchInv /\ [Next]_vars => BatchInv'
  BY BatchStep
<1>3. BatchInv => AllOrNothing
  <2> SUFFICES ASSUME BatchInv, NEW p \in Post
               PROVE  /\ (\E i \in Own(p) : IsStored(p, i)) =>
                            \A i \in DOMAIN ReportsOf[p] : IsStored(p, i)
                      /\ answer[p] = "202" => \A i \in DOMAIN ReportsOf[p] : IsStored(p, i)
                      /\ answer[p] \in {"400", "panic"} => \A i \in Own(p) : ~IsStored(p, i)
    BY DEF AllOrNothing
  <2> QED
    BY DEF BatchInv
<1> QED
  BY <1>1, <1>2, <1>3, PTL DEF Spec

-----------------------------------------------------------------------------
(* getIsuList reads one state. *)
IsList(r) ==
  r = [pc |-> r.pc, isus |-> r.isus, snapshot |-> r.snapshot, res |-> r.res,
       known |-> r.known, stored |-> r.stored]

SnapshotOf(r) ==
  /\ IsList(r)
  /\ r.pc = "new" => r.res = {}
  /\ r.pc = "running" => r.snapshot = r.stored
  /\ r.pc = "done" => r.isus = {}
  /\ r.pc \in {"running", "done"} =>
       /\ r.res \subseteq r.stored
       /\ \A u \in r.isus : Of(u, r.res) = {}
       /\ \A u \in r.known \ r.isus : Of(u, r.res) \in Last(u, r.stored)

ListInv == DOMAIN list = List /\ \A l \in List : SnapshotOf(list[l])

(* What a query for one ISU returns holds nothing of another.              *)
LEMMA LastOf ==
  ASSUME NEW u, NEW rows, NEW last \in Last(u, rows)
  PROVE  /\ last \subseteq rows /\ Of(u, last) = last
         /\ \A v : v # u => Of(v, last) = {}
BY DEF Last, Newest, kSubset, Of

LEMMA GetLastKeeps ==
  ASSUME NEW r, SnapshotOf(r), r.pc = "running", NEW u \in r.isus,
         NEW last \in Last(u, r.stored)
  PROVE  SnapshotOf([r EXCEPT !.isus = @ \ {u}, !.res = @ \cup last])
<1> DEFINE n == [r EXCEPT !.isus = @ \ {u}, !.res = @ \cup last]
<1>1. /\ n.pc = r.pc /\ n.isus = r.isus \ {u} /\ n.res = r.res \cup last
      /\ n.snapshot = r.snapshot /\ n.known = r.known /\ n.stored = r.stored /\ IsList(n)
  <2>1. r = [pc |-> r.pc, isus |-> r.isus, snapshot |-> r.snapshot, res |-> r.res,
             known |-> r.known, stored |-> r.stored]
    BY DEF SnapshotOf, IsList
  <2>2. n = [pc |-> r.pc, isus |-> r.isus \ {u}, snapshot |-> r.snapshot, res |-> r.res \cup last,
             known |-> r.known, stored |-> r.stored]
    <3>1. PICK a, b, c, d, e, g : r = [pc |-> a, isus |-> b, snapshot |-> c, res |-> d,
                                       known |-> e, stored |-> g]
      BY <2>1
    <3>2. r.isus = b /\ r.res = d
      BY <3>1
    <3>3. n = [r EXCEPT !.isus = b \ {u}, !.res = d \cup last]
      BY <3>2
    <3> HIDE DEF n
    <3>4. n = [pc |-> a, isus |-> b \ {u}, snapshot |-> c, res |-> d \cup last,
               known |-> e, stored |-> g]
      BY <3>1, <3>3
    <3> QED
      BY <3>1, <3>4
  <2> QED
    BY <2>2 DEF IsList
<1>2. n.res \subseteq n.stored
  BY <1>1, LastOf DEF SnapshotOf
<1>3. \A v : Of(v, n.res) = Of(v, r.res) \cup Of(v, last)
  BY <1>1 DEF Of
<1>4. ASSUME NEW v \in n.isus PROVE Of(v, n.res) = {}
  <2>1. v # u /\ v \in r.isus
    BY <1>1
  <2>2. Of(v, r.res) = {} /\ Of(v, last) = {}
    BY <2>1, LastOf DEF SnapshotOf
  <2> QED
    BY <1>3, <2>2
<1>5. ASSUME NEW v \in n.known \ n.isus PROVE Of(v, n.res) \in Last(v, n.stored)
  <2>1. CASE v = u
    <3>1. Of(u, r.res) = {} /\ Of(u, last) = last
      BY LastOf DEF SnapshotOf
    <3> QED
      BY <1>1, <1>3, <2>1, <3>1
  <2>2. CASE v # u
    <3>1. Of(v, last) = {} /\ Of(v, r.res) \in Last(v, r.stored)
      BY <1>1, <1>5, <2>2, LastOf DEF SnapshotOf
    <3> QED
      BY <1>1, <1>3, <3>1
  <2> QED
    BY <2>1, <2>2
<1> HIDE DEF n
<1>6. SnapshotOf(n)
  BY <1>1, <1>2, <1>4, <1>5 DEF SnapshotOf
<1> QED
  BY <1>6 DEF n

LEMMA ListStep ==
  ASSUME ListInv, [Next]_vars
  PROVE  ListInv'
<1>1. ASSUME NEW l \in List, SelectIsuList(l) PROVE ListInv'
  <2>1. list' = [list EXCEPT ![l] =
          [@ EXCEPT !.pc = "running", !.isus = isu, !.snapshot = isu_condition,
                    !.known = isu, !.stored = isu_condition]]
    BY <1>1 DEF SelectIsuList
  <2>2. IsList(list[l])
    BY DEF ListInv, SnapshotOf
  <2>3. /\ IsList(list'[l]) /\ list'[l].pc = "running" /\ list'[l].isus = isu
        /\ list'[l].snapshot = isu_condition /\ list'[l].known = isu
        /\ list'[l].stored = isu_condition /\ list'[l].res = list[l].res
    BY <2>1, <2>2 DEF ListInv, IsList
  <2>4. list[l].res = {}
    BY <1>1 DEF SelectIsuList, ListInv, SnapshotOf
  <2>5. SnapshotOf(list'[l])
    BY <2>3, <2>4 DEF SnapshotOf, Of
  <2> QED
    BY <2>1, <2>5 DEF ListInv
<1>2. ASSUME NEW l \in List, NEW u \in Isu, GetLastCondition(l, u) PROVE ListInv'
  <2> DEFINE next(last) == [list[l] EXCEPT !.isus = @ \ {u}, !.res = @ \cup last]
  <2>1. PICK last \in Last(u, Visible(l)) : list' = [list EXCEPT ![l] = next(last)]
    BY <1>2 DEF GetLastCondition
  <2>2. SnapshotOf(list[l]) /\ list[l].pc = "running" /\ u \in list[l].isus
    BY <1>2 DEF ListInv, GetLastCondition
  <2>3. last \in Last(u, list[l].stored)
    BY <2>1, <2>2 DEF Visible, SnapshotOf
  <2>4. SnapshotOf(next(last))
    BY <2>2, <2>3, GetLastKeeps
  <2> HIDE DEF next
  <2>5. SnapshotOf(list'[l])
    BY <2>1, <2>4 DEF ListInv
  <2> QED
    BY <2>1, <2>5 DEF ListInv
<1>3. ASSUME NEW l \in List, ListDone(l) \/ FailList(l) PROVE ListInv'
  <2>1. PICK pc \in {"done", "failed"} :
          /\ list' = [list EXCEPT ![l].pc = pc, ![l].snapshot = {}]
          /\ list[l].pc = "running" /\ (pc = "done" => list[l].isus = {})
    BY <1>3 DEF ListDone, FailList, Fails
  <2>2. SnapshotOf(list[l])
    BY DEF ListInv
  <2>3. /\ IsList(list'[l]) /\ list'[l].pc = pc /\ list'[l].isus = list[l].isus
        /\ list'[l].known = list[l].known /\ list'[l].stored = list[l].stored
        /\ list'[l].res = list[l].res
    BY <2>1, <2>2 DEF ListInv, SnapshotOf, IsList
  <2>4. SnapshotOf(list'[l])
    BY <2>1, <2>2, <2>3 DEF SnapshotOf
  <2> QED
    BY <2>1, <2>4 DEF ListInv
<1>4. ASSUME UNCHANGED list PROVE ListInv'
  BY <1>4 DEF ListInv
<1> QED
  BY <1>1, <1>2, <1>3, <1>4 DEF Next, vars, readers, Register, PostIsuCondition, StartWalk,
     GetIsuConditions, FailWalk, SelectCharacters, SelectIsusOf, SelectLastCondition, TrendDone,
     FailTrend, PostInitialize, DropConditions, DropIsu, CreateTables, SeedIsu, SeedConditions,
     ClearCache, LoadCache

LEMMA ListInvariant == Spec => []ListInv
<1>1. Init => ListInv
  BY DEF Init, ListInv, SnapshotOf, IsList
<1>. QED  BY <1>1, ListStep, PTL DEF Spec

(* The list that getIsuList answers is that of the moment its transaction  *)
(* began, whatever is registered, reported or reset between its queries.   *)
THEOREM ListIsOneState == Spec => []ListIsSnapshot
<1>1. ListInv => ListIsSnapshot
  BY DEF ListInv, SnapshotOf, ListIsSnapshot
<1>. QED  BY <1>1, ListInvariant, PTL

-----------------------------------------------------------------------------
(* A reset that succeeds has left the seeds in both tables: what has been  *)
(* achieved at each step of the script stays until the next reset.         *)
ScriptInv ==
  /\ script \in {"seed isu_condition", "clear", "load", "ok"} => Registered \subseteq isu
  /\ script \in {"clear", "load", "ok"} => Seed \subseteq isu_condition
  /\ script = "ok" => Registered \subseteq known

LEMMA ScriptStep ==
  ASSUME ScriptInv, [Next]_vars
  PROVE  ScriptInv'
<1>1. ASSUME NEW p \in Post, PostIsuCondition(p) PROVE ScriptInv'
  BY <1>1 DEF ScriptInv, PostIsuCondition
<1>2. ASSUME NEW u \in Isu, Register(u) PROVE ScriptInv'
  BY <1>2 DEF ScriptInv, Register
<1>3. ASSUME UNCHANGED <<isu, isu_condition, known, script>> PROVE ScriptInv'
  BY <1>3 DEF ScriptInv
<1>4. ASSUME PostInitialize \/ DropConditions \/ DropIsu \/ CreateTables PROVE ScriptInv'
  BY <1>4 DEF ScriptInv, PostInitialize, DropConditions, DropIsu, CreateTables
<1>5. ASSUME SeedIsu PROVE ScriptInv'
  BY <1>5 DEF ScriptInv, SeedIsu
<1>6. ASSUME SeedConditions PROVE ScriptInv'
  BY <1>6 DEF ScriptInv, SeedConditions
<1>7. ASSUME ClearCache \/ LoadCache PROVE ScriptInv'
  BY <1>7 DEF ScriptInv, ClearCache, LoadCache, database
<1> QED
  BY <1>1, <1>2, <1>3, <1>4, <1>5, <1>6, <1>7 DEF Next, vars, database, readers, StartWalk,
     GetIsuConditions, FailWalk, SelectCharacters, SelectIsusOf, SelectLastCondition, TrendDone,
     FailTrend, SelectIsuList, GetLastCondition, ListDone, FailList

(* A POST /initialize that was answered with 200 has loaded all seeds.     *)
THEOREM ResetLoadsSeeds == Spec => []ResetIsWhole
<1>1. Init => ScriptInv
  BY DEF Init, ScriptInv
<1>2. ScriptInv /\ [Next]_vars => ScriptInv'
  BY ScriptStep
<1>3. ScriptInv => ResetIsWhole
  BY DEF ScriptInv, ResetIsWhole
<1> QED
  BY <1>1, <1>2, <1>3, PTL DEF Spec
-----------------------------------------------------------------------------
(* getTrend reads many states.  Nothing that was stored when it began is   *)
(* gone before a reset drops it, and each ISU of then is still to come     *)
(* with its character, or among the ISUs of the current character, or has  *)
(* been answered; no ISU is answered before it has its turn, so it is      *)
(* answered once.                                                          *)
TableInv ==
  /\ IsFiniteSet(isu_condition) /\ \A x \in isu_condition : x.ts \in Nat
  /\ script \in {"drop isu", "create"} =>
       isu_condition = {} /\ "isu_condition" \notin tables

IsTrend(r) ==
  r = [pc |-> r.pc, characters |-> r.characters, isus |-> r.isus, res |-> r.res,
       known |-> r.known, stored |-> r.stored, dropped |-> r.dropped]

Answered(r, u) ==
  \E e \in r.res : /\ \A f \in r.res : f.isu = u => f = e
                   /\ e.isu = u /\ \A x \in Of(u, r.stored) : x.ts <= e.ts

Covers(r) ==
  /\ r.stored \subseteq isu_condition
  /\ \A e \in r.res : \E x \in isu_condition : e = TrendCondition(x)
  /\ \A u \in r.isus : CharacterOf[u] \notin r.characters
  /\ \A u \in Isu : u \in r.isus \/ CharacterOf[u] \in r.characters => \A e \in r.res : e.isu # u
  /\ \A u \in r.known : Of(u, r.stored) # {} =>
       (u \in isu /\ CharacterOf[u] \in r.characters) \/ u \in r.isus \/ Answered(r, u)

TrendOK(r) ==
  /\ IsTrend(r)
  /\ r.pc = "new" => r.res = {} /\ r.isus = {}
  /\ r.pc = "done" => r.isus = {} /\ r.characters = {}
  /\ r.pc \in {"running", "done"} /\ ~r.dropped => Covers(r)

TrendInv == DOMAIN trend = Trend /\ \A t \in Trend : TrendOK(trend[t])

LEMMA StoredIsFinite ==
  ASSUME NEW p \in Post
  PROVE  IsFiniteSet(Stored(p)) /\ \A x \in Stored(p) : x.ts \in Nat
<1> DEFINE n == Len(ReportsOf[p])
           rows == {Row(p, i) : i \in 1 .. n}
           f == [i \in 1 .. n |-> Row(p, i)]
<1>1. n \in Nat /\ DOMAIN ReportsOf[p] = 1 .. n
  BY ConditionAssumption
<1>2. IsFiniteSet(1 .. n)
  BY <1>1, FS_Interval
<1>3. f \in Surjection(1 .. n, rows)
  BY DEF Surjection
<1>4. IsFiniteSet(rows)
  BY <1>2, <1>3, FS_Surjection
<1>5. \A i \in 1 .. n : Row(p, i).ts \in Nat
  BY <1>1, ReportType DEF Row
<1>6. Stored(p) = {} \/ Stored(p) = rows
  BY <1>1 DEF Stored
<1> QED
  BY <1>4, <1>5, <1>6, FS_EmptySet

LEMMA TableStep ==
  ASSUME TableInv, [Next]_vars
  PROVE  TableInv'
<1>1. ASSUME NEW p \in Post, PostIsuCondition(p) PROVE TableInv'
  <2>1. isu_condition' = isu_condition \cup Stored(p) /\ UNCHANGED <<tables, script>>
    BY <1>1 DEF PostIsuCondition
  <2>2. IsFiniteSet(isu_condition')
    BY <2>1, StoredIsFinite, FS_Union DEF TableInv
  <2>3. "isu_condition" \notin tables => Stored(p) = {}
    BY <1>1 DEF PostIsuCondition, Stored
  <2> QED
    BY <2>1, <2>2, <2>3, StoredIsFinite DEF TableInv
<1>2. ASSUME UNCHANGED <<isu_condition, tables, script>> PROVE TableInv'
  BY <1>2 DEF TableInv
<1>3. ASSUME PostInitialize \/ DropConditions \/ DropIsu \/ CreateTables PROVE TableInv'
  BY <1>3, FS_EmptySet
     DEF TableInv, PostInitialize, DropConditions, DropIsu, CreateTables, database
<1>4. ASSUME SeedIsu \/ ClearCache \/ LoadCache PROVE TableInv'
  BY <1>4 DEF TableInv, SeedIsu, ClearCache, LoadCache, database
<1>5. ASSUME SeedConditions PROVE TableInv'
  BY <1>5, ConditionAssumption DEF TableInv, SeedConditions, RowType
<1> QED
  BY <1>1, <1>2, <1>3, <1>4, <1>5 DEF Next, vars, database, readers, Register, StartWalk,
     GetIsuConditions, FailWalk, SelectCharacters, SelectIsusOf, SelectLastCondition, TrendDone,
     FailTrend, SelectIsuList, GetLastCondition, ListDone, FailList

LEMMA TableInvariant == Spec => []TableInv
<1>1. Init => TableInv
  BY ConditionAssumption DEF Init, TableInv, RowType
<1>. QED  BY <1>1, TableStep, PTL DEF Spec

(* The last report of an ISU, if it has one, is one row and the newest.    *)
LEMMA LastIsNewest ==
  ASSUME NEW u, NEW rows, IsFiniteSet(rows), \A x \in rows : x.ts \in Nat,
         NEW last \in Last(u, rows)
  PROVE  /\ last \subseteq Of(u, rows)
         /\ Of(u, rows) # {} =>
              \E x \in Of(u, rows) : last = {x} /\ \A y \in Of(u, rows) : y.ts <= x.ts
<1> DEFINE S == Of(u, rows)
           n == IF 1 < Cardinality(S) THEN 1 ELSE Cardinality(S)
<1>1. S \subseteq rows /\ IsFiniteSet(S)
  BY FS_Subset DEF Of
<1>2. last \subseteq S /\ Cardinality(last) = n /\ \A x \in last, y \in S \ last : x.ts >= y.ts
  BY DEF Last, Newest, kSubset
<1>3. ASSUME S # {}
      PROVE  \E x \in S : last = {x} /\ \A y \in S : y.ts <= x.ts
  <2>1. Cardinality(S) \in Nat /\ Cardinality(S) # 0
    BY <1>1, <1>3, FS_EmptySet, FS_CardinalityType
  <2>2. Cardinality(last) = 1
    BY <1>2, <2>1
  <2>3. IsFiniteSet(last)
    BY <1>1, <1>2, FS_Subset
  <2>4. PICK x : last = {x}
    BY <2>2, <2>3, FS_Singleton
  <2>5. x \in S /\ \A y \in S : y.ts \in Nat
    BY <1>1, <1>2, <2>4
  <2>6. \A y \in S : y.ts <= x.ts
    BY <1>2, <2>4, <2>5
  <2> QED
    BY <2>4, <2>5, <2>6
<1> QED
  BY <1>2, <1>3

(* While tables only grow, a trend misses nothing.                         *)
LEMMA TablesGrow ==
  ASSUME TrendInv, trend' = trend, isu_condition \subseteq isu_condition',
         \/ isu \subseteq isu'
         \/ isu_condition = {}
  PROVE  TrendInv'
<1> SUFFICES ASSUME NEW t \in Trend, trend[t].pc \in {"running", "done"}, ~trend[t].dropped
             PROVE  Covers(trend[t])'
  BY DEF TrendInv, TrendOK, IsTrend
<1>1. Covers(trend[t])
  BY DEF TrendInv, TrendOK
<1>2. CASE isu \subseteq isu'
  BY <1>1, <1>2 DEF Covers, Answered
<1>3. CASE isu_condition = {}
  <2>1. \A u : Of(u, trend[t].stored) = {}
    BY <1>1, <1>3 DEF Covers, Of
  <2> QED
    BY <1>1, <2>1 DEF Covers
<1> QED
  BY <1>2, <1>3

(* A trend moves and the database does not. *)
LEMMA TrendMoves ==
  ASSUME TrendInv, NEW t \in Trend, DOMAIN trend' = Trend, UNCHANGED database,
         \A s \in Trend : s # t => trend'[s] = trend[s],
         TrendOK(trend'[t])
  PROVE  TrendInv'
<1> SUFFICES ASSUME NEW s \in Trend PROVE TrendOK(trend[s])'
  BY DEF TrendInv
<1>1. UNCHANGED <<isu, isu_condition>>
  BY DEF database
<1>2. TrendOK(trend'[s])
  BY DEF TrendInv
<1> QED
  BY <1>1, <1>2 DEF TrendOK, IsTrend, Covers, Answered

LEMMA SelectCharactersOK ==
  ASSUME TrendInv, NEW t \in Trend, SelectCharacters(t)
  PROVE  TrendInv'
<1> DEFINE n == trend'[t]
<1>1. trend[t].isus = {} /\ trend[t].res = {} /\ IsTrend(trend[t]) /\ DOMAIN trend = Trend
  BY DEF SelectCharacters, TrendInv, TrendOK
<1>2. /\ trend' = [trend EXCEPT ![t].pc = "running",
                                ![t].characters = {CharacterOf[u] : u \in isu},
                                ![t].known = isu, ![t].stored = isu_condition]
      /\ UNCHANGED database
  BY DEF SelectCharacters
<1>3. DOMAIN trend' = Trend /\ \A s \in Trend : s # t => trend'[s] = trend[s]
  BY <1>1, <1>2
<1>4. /\ IsTrend(n) /\ n.pc = "running" /\ n.characters = {CharacterOf[u] : u \in isu}
      /\ n.known = isu /\ n.stored = isu_condition /\ n.isus = {} /\ n.res = {}
  BY <1>1, <1>2 DEF IsTrend
<1> HIDE DEF n
<1>5. Covers(n)
  BY <1>4 DEF Covers
<1>6. TrendOK(n)
  BY <1>4, <1>5 DEF TrendOK
<1> QED
  BY <1>2, <1>3, <1>6, TrendMoves DEF n

LEMMA SelectIsusOfOK ==
  ASSUME TrendInv, NEW t \in Trend, NEW ch, SelectIsusOf(t, ch)
  PROVE  TrendInv'
<1> DEFINE r == trend[t]
           n == trend'[t]
<1>1. /\ r.pc = "running" /\ r.isus = {} /\ ch \in r.characters /\ IsTrend(r)
      /\ DOMAIN trend = Trend
  BY DEF SelectIsusOf, TrendInv, TrendOK
<1>2. /\ trend' = [trend EXCEPT ![t].characters = @ \ {ch},
                                ![t].isus = {u \in isu : CharacterOf[u] = ch}]
      /\ UNCHANGED database
  BY DEF SelectIsusOf
<1>3. DOMAIN trend' = Trend /\ \A s \in Trend : s # t => trend'[s] = trend[s]
  BY <1>1, <1>2
<1>4. /\ IsTrend(n) /\ n.pc = "running" /\ n.characters = r.characters \ {ch}
      /\ n.known = r.known /\ n.stored = r.stored /\ n.res = r.res /\ n.dropped = r.dropped
      /\ n.isus = {u \in isu : CharacterOf[u] = ch}
  BY <1>1, <1>2 DEF IsTrend
<1>5. ~r.dropped => Covers(r)
  BY <1>1 DEF TrendInv, TrendOK
<1> HIDE DEF n, r
<1>6. ASSUME ~n.dropped PROVE Covers(n)
  BY <1>1, <1>4, <1>5, <1>6 DEF Covers, Answered
<1>7. TrendOK(n)
  BY <1>4, <1>6 DEF TrendOK
<1> QED
  BY <1>2, <1>3, <1>7, TrendMoves DEF n

LEMMA SelectLastConditionOK ==
  ASSUME TableInv, TrendInv, NEW t \in Trend, NEW u \in Isu, SelectLastCondition(t, u)
  PROVE  TrendInv'
<1> DEFINE r == trend[t]
           n == trend'[t]
<1>1. r.pc = "running" /\ u \in r.isus /\ IsTrend(r) /\ DOMAIN trend = Trend
  BY DEF SelectLastCondition, TrendInv, TrendOK
<1>2. PICK last \in Last(u, isu_condition) :
        trend' = [trend EXCEPT ![t].isus = @ \ {u},
                               ![t].res = @ \cup {TrendCondition(x) : x \in last}]
  BY DEF SelectLastCondition
<1> DEFINE new == {TrendCondition(x) : x \in last}
<1>3. DOMAIN trend' = Trend /\ \A s \in Trend : s # t => trend'[s] = trend[s]
  BY <1>1, <1>2
<1>4. /\ IsTrend(n) /\ n.pc = "running" /\ n.isus = r.isus \ {u} /\ n.res = r.res \cup new
      /\ n.characters = r.characters /\ n.known = r.known /\ n.stored = r.stored
      /\ n.dropped = r.dropped
  BY <1>1, <1>2 DEF IsTrend
<1>5. ~r.dropped => Covers(r)
  BY <1>1 DEF TrendInv, TrendOK
<1> HIDE DEF n, r
<1>6. ASSUME ~n.dropped PROVE Covers(n)
  <2>1. Covers(r)
    BY <1>4, <1>5, <1>6
  <2>2. /\ last \subseteq Of(u, isu_condition)
        /\ Of(u, isu_condition) # {} =>
             \E x \in Of(u, isu_condition) :
               last = {x} /\ \A y \in Of(u, isu_condition) : y.ts <= x.ts
    BY LastIsNewest DEF TableInv
  <2>3. \A e \in new : e.isu = u /\ \E x \in isu_condition : e = TrendCondition(x)
    BY <2>2 DEF Of, TrendCondition
  <2>4. \A f \in r.res : f.isu # u
    BY <1>1, <2>1 DEF Covers
  <2>5. ASSUME NEW v \in r.known, Of(v, r.stored) # {}
        PROVE  \/ v \in isu /\ CharacterOf[v] \in r.characters
               \/ v \in n.isus
               \/ Answered(n, v)
    <3>1. CASE v = u
      <4>1. Of(u, r.stored) \subseteq Of(u, isu_condition)
        BY <2>1 DEF Covers, Of
      <4>2. PICK x \in Of(u, isu_condition) :
              last = {x} /\ \A y \in Of(u, isu_condition) : y.ts <= x.ts
        BY <2>2, <2>5, <3>1, <4>1
      <4>3. new = {TrendCondition(x)} /\ TrendCondition(x).isu = u /\ TrendCondition(x).ts = x.ts
        BY <4>2 DEF Of, TrendCondition
      <4>4. /\ \A f \in r.res \cup new : f.isu = u => f = TrendCondition(x)
            /\ \A y \in Of(u, r.stored) : y.ts <= TrendCondition(x).ts
        BY <2>4, <4>1, <4>2, <4>3
      <4> HIDE DEF new
      <4> QED
        BY <1>4, <3>1, <4>3, <4>4 DEF Answered
    <3>2. CASE v # u
      <4>1. CASE Answered(r, v)
        <5>1. PICK e \in r.res : /\ \A f \in r.res : f.isu = v => f = e
                                 /\ e.isu = v /\ \A x \in Of(v, r.stored) : x.ts <= e.ts
          BY <4>1 DEF Answered
        <5>2. \A f \in r.res \cup new : f.isu = v => f = e
          BY <2>3, <3>2, <5>1
        <5> HIDE DEF new
        <5> QED
          BY <1>4, <5>1, <5>2 DEF Answered
      <4> QED
        BY <1>4, <2>1, <2>5, <3>2, <4>1 DEF Covers
    <3> QED
      BY <3>1, <3>2
  <2>6. \A v \in Isu : v \in n.isus \/ CharacterOf[v] \in r.characters =>
          v # u /\ \A e \in r.res : e.isu # v
    BY <1>1, <1>4, <2>1 DEF Covers
  <2> HIDE DEF new
  <2>7. \A e \in n.res : \E x \in isu_condition : e = TrendCondition(x)
    BY <1>4, <2>1, <2>3 DEF Covers
  <2> QED
    BY <1>4, <2>1, <2>3, <2>5, <2>6, <2>7 DEF Covers
<1>7. TrendOK(n)
  BY <1>4, <1>6 DEF TrendOK
<1> QED
  BY <1>3, <1>7, TrendMoves DEF SelectLastCondition, n

LEMMA TrendEndsOK ==
  ASSUME TrendInv, NEW t \in Trend, TrendDone(t) \/ FailTrend(t)
  PROVE  TrendInv'
<1> DEFINE r == trend[t]
           n == trend'[t]
<1>1. PICK pc \in {"done", "failed"} :
        /\ trend' = [trend EXCEPT ![t].pc = pc] /\ UNCHANGED database
        /\ r.pc = "running" /\ (pc = "done" => r.isus = {} /\ r.characters = {})
  BY DEF TrendDone, FailTrend, Fails
<1>2. TrendOK(r) /\ DOMAIN trend = Trend
  BY DEF TrendInv
<1>3. DOMAIN trend' = Trend /\ \A s \in Trend : s # t => trend'[s] = trend[s]
  BY <1>1, <1>2
<1>4. /\ IsTrend(n) /\ n.pc = pc /\ n.characters = r.characters /\ n.isus = r.isus
      /\ n.res = r.res /\ n.known = r.known /\ n.stored = r.stored /\ n.dropped = r.dropped
  BY <1>1, <1>2 DEF TrendOK, IsTrend
<1> HIDE DEF n
<1>5. TrendOK(n)
  BY <1>1, <1>2, <1>4 DEF TrendOK, Covers, Answered
<1> QED
  BY <1>1, <1>3, <1>5, TrendMoves DEF n

LEMMA DropKeepsTrends ==
  ASSUME TrendInv, DropConditions
  PROVE  TrendInv'
<1> SUFFICES ASSUME NEW t \in Trend PROVE TrendOK(trend[t])'
  BY DEF DropConditions, TrendInv
<1> DEFINE r == trend[t]
           d == r.dropped \/ r.pc # "new"
           n == [r EXCEPT !.dropped = d]
<1>1. TrendOK(r) /\ trend'[t] = n
  BY DEF DropConditions, TrendInv
<1>2. /\ IsTrend(n) /\ n.pc = r.pc /\ n.characters = r.characters /\ n.isus = r.isus
      /\ n.res = r.res /\ n.dropped = d
  BY <1>1 DEF TrendOK, IsTrend
<1> HIDE DEF n
<1>3. n.pc \in {"running", "done"} => n.dropped
  BY <1>2
<1> QED
  BY <1>1, <1>2, <1>3 DEF TrendOK, IsTrend

LEMMA TrendStep ==
  ASSUME TableInv, TrendInv, [Next]_vars
  PROVE  TrendInv'
<1>1. ASSUME NEW t \in Trend, SelectCharacters(t) PROVE TrendInv'
  BY <1>1, SelectCharactersOK
<1>2. ASSUME NEW t \in Trend, NEW u \in Isu, SelectIsusOf(t, CharacterOf[u]) PROVE TrendInv'
  BY <1>2, SelectIsusOfOK
<1>3. ASSUME NEW t \in Trend, NEW u \in Isu, SelectLastCondition(t, u) PROVE TrendInv'
  BY <1>3, SelectLastConditionOK
<1>4. ASSUME NEW t \in Trend, TrendDone(t) \/ FailTrend(t) PROVE TrendInv'
  BY <1>4, TrendEndsOK
<1>5. CASE DropConditions
  BY <1>5, DropKeepsTrends
<1>6. CASE UNCHANGED <<isu, isu_condition, trend>>
  BY <1>6, TablesGrow
<1>7. ASSUME NEW u \in Isu, Register(u) PROVE TrendInv'
  BY <1>7, TablesGrow DEF Register, readers
<1>8. ASSUME NEW p \in Post, PostIsuCondition(p) PROVE TrendInv'
  BY <1>8, TablesGrow DEF PostIsuCondition, readers
<1>9. CASE DropIsu
  BY <1>9, TablesGrow DEF DropIsu, readers, TableInv
<1>10. CASE SeedIsu \/ SeedConditions
  BY <1>10, TablesGrow DEF SeedIsu, SeedConditions, readers
<1> QED
  BY <1>1, <1>2, <1>3, <1>4, <1>5, <1>6, <1>7, <1>8, <1>9, <1>10 DEF Next, vars, database,
     readers, StartWalk, GetIsuConditions, FailWalk, SelectIsuList, GetLastCondition, ListDone,
     FailList, PostInitialize, CreateTables, ClearCache, LoadCache

LEMMA TrendInvariant == Spec => []TrendInv
<1>1. Init => TrendInv
  BY DEF Init, TrendInv, TrendOK, IsTrend
<1>. QED  BY <1>1, TrendStep, TableInvariant, PTL DEF Spec

(* The answer of getTrend has every ISU that was there with a report when  *)
(* it began, once, with a report no older than those of then: whatever is  *)
(* registered and reported between its queries, unless a reset drops the   *)
(* reports.                                                                *)
THEOREM TrendMissesNothing == Spec => []TrendCoversStart
<1>1. TrendInv => TrendCoversStart
  <2> SUFFICES ASSUME TrendInv, NEW t \in Trend, trend[t].pc = "done", ~trend[t].dropped
               PROVE  /\ \A e \in trend[t].res : \E x \in isu_condition : e = TrendCondition(x)
                      /\ \A u \in trend[t].known : Of(u, trend[t].stored) # {} =>
                           Answered(trend[t], u)
    BY DEF TrendCoversStart, Answered
  <2>. QED  BY DEF TrendInv, TrendOK, Covers
<1>. QED  BY <1>1, TrendInvariant, PTL

-----------------------------------------------------------------------------
(* Every non-empty set of numbers has a least one. *)
LEMMA LeastNat ==
  ASSUME NEW T \in SUBSET Nat, T # {}
  PROVE  \E n \in T : \A m \in T : n <= m
<1>1. PICK n \in T : \A m \in T : <<m, n>> \notin OpToRel(<, Nat)
  BY NatLessThanWellFounded, WFMin
<1>2. OpToRel(<, Nat) = {ss \in Nat \X Nat : ss[1] < ss[2]}
  BY SMT DEF OpToRel
<1>3. ASSUME NEW m \in T PROVE n <= m
  <2>1. ~(m < n)
    BY <1>1, <1>2
  <2>. QED  BY <2>1
<1>. QED  BY <1>3

(* A page of rows. *)
LEMMA PageOf ==
  ASSUME NEW S, IsFiniteSet(S), NEW n \in Nat, NEW T \in Newest(S, n)
  PROVE  /\ T \subseteq S /\ IsFiniteSet(T) /\ Cardinality(T) \in Nat
         /\ Cardinality(T) <= n
         /\ Cardinality(T) < n => T = S
         /\ \A x \in T, y \in S \ T : x.ts >= y.ts
<1>1. /\ T \subseteq S /\ \A x \in T, y \in S \ T : x.ts >= y.ts
      /\ Cardinality(T) = IF n < Cardinality(S) THEN n ELSE Cardinality(S)
  BY DEF Newest, kSubset
<1>2. Cardinality(S) \in Nat
  BY FS_CardinalityType
<1>3. IsFiniteSet(T) /\ (Cardinality(S) = Cardinality(T) => S = T)
  BY <1>1, FS_Subset
<1>. QED  BY <1>1, <1>2, <1>3

(* Rows that fit on a page are the page. *)
LEMMA OnePage ==
  ASSUME NEW S, IsFiniteSet(S), NEW n \in Nat, Cardinality(S) <= n
  PROVE  Newest(S, n) = {S}
<1>1. Cardinality(S) \in Nat
  BY FS_CardinalityType
<1>2. ASSUME NEW T \in Newest(S, n) PROVE T = S
  <2>1. T \subseteq S /\ Cardinality(T) = Cardinality(S)
    BY <1>1 DEF Newest, kSubset
  <2>. QED  BY <2>1, FS_Subset
<1>3. S \in Newest(S, n)
  BY <1>1 DEF Newest, kSubset
<1>. QED  BY <1>2, <1>3

-----------------------------------------------------------------------------
(* The levels that calculateConditionLevel gives; a query is for some.     *)
Levels == {"info", "warning", "critical"}
KnownLevels == \A q \in Query : q.levels \subseteq Levels

(* Who asks for three of the levels asks for all of them. *)
LEMMA ThreeLevels ==
  /\ IsFiniteSet(Levels) /\ Cardinality(Levels) = 3
  /\ \A L \in SUBSET Levels : Cardinality(L) = 3 => L = Levels
<1>1. Levels = ({"info"} \cup {"warning"}) \cup {"critical"}
  BY DEF Levels
<1>2. IsFiniteSet({"info"}) /\ Cardinality({"info"}) = 1
  BY FS_Singleton
<1>3. IsFiniteSet({"info"} \cup {"warning"}) /\ Cardinality({"info"} \cup {"warning"}) = 2
  BY <1>2, FS_AddElement
<1>4. IsFiniteSet(Levels) /\ Cardinality(Levels) = 3
  BY <1>1, <1>3, FS_AddElement
<1>. QED  BY <1>4, FS_Subset

(* Cutting the page before the levels are looked at does no harm when all  *)
(* are asked for.                                                          *)
LEMMA PageIsNewest ==
  ASSUME TableInv, StoredIsWellFormed, NEW q, q.levels \subseteq Levels, q.start \in Nat
  PROVE  getIsuConditionsFromDB(q, isu_condition) = Newest(Matching(q), Limit)
<1> DEFINE W == Window(q, isu_condition)
<1>0. Limit \in Nat
  BY ConditionAssumption
<1>1. IsFiniteSet(W) /\ W \subseteq isu_condition
  BY FS_Subset DEF TableInv, Window, Of
<1>2. Matching(q) = OfLevel(W, q.levels)
  <2>1. ASSUME NEW x \in isu_condition
        PROVE  (q.start # NoTime => q.start <= x.ts) <=> q.start <= x.ts
    <3>1. x.ts \in Nat
      BY DEF TableInv
    <3>2. q.start = 0 => q.start <= x.ts
      BY <3>1
    <3>. QED  BY <3>2 DEF NoTime
  <2>. QED  BY <2>1 DEF Matching, OfLevel, Window, Of
<1>3. CASE q.start = NoTime /\ Cardinality(q.levels) = 3
  <2>1. q.levels = Levels
    BY <1>3, ThreeLevels
  <2>2. \A S \in SUBSET isu_condition : OfLevel(S, q.levels) = S
    BY <2>1 DEF OfLevel, Levels, StoredIsWellFormed, calculateConditionLevel
  <2>3. ASSUME NEW S \in Newest(W, Limit) PROVE Newest(OfLevel(S, q.levels), Limit) = {S}
    <3>1. S \subseteq W /\ IsFiniteSet(S) /\ Cardinality(S) <= Limit
      BY <1>0, <1>1, PageOf
    <3>. QED  BY <1>0, <1>1, <2>2, <3>1, OnePage
  <2>4. getIsuConditionsFromDB(q, isu_condition)
          = UNION {Newest(OfLevel(S, q.levels), Limit) : S \in Newest(W, Limit)}
    BY <1>3 DEF getIsuConditionsFromDB, Selected
  <2>5. Matching(q) = W
    BY <1>1, <1>2, <2>2
  <2> HIDE DEF W
  <2>. QED  BY <2>3, <2>4, <2>5
<1>4. CASE ~(q.start = NoTime /\ Cardinality(q.levels) = 3)
  <2>1. getIsuConditionsFromDB(q, isu_condition)
          = UNION {Newest(OfLevel(S, q.levels), Limit) : S \in {W}}
    BY <1>4 DEF getIsuConditionsFromDB, Selected
  <2>. HIDE DEF W
  <2>. QED  BY <1>2, <2>1
<1>. QED  BY <1>3, <1>4

(* getIsuConditions answers with the newest matching reports, as many as a *)
(* page holds, for every query that asks for levels there are.             *)
THEOREM PagesAreNewest ==
  ASSUME KnownLevels PROVE Spec => []PageIsNewestMatching
<1>1. TableInv /\ StoredIsWellFormed => PageIsNewestMatching
  BY PageIsNewest, ConditionAssumption DEF PageIsNewestMatching, KnownLevels
<1>. QED  BY <1>1, TableInvariant, StoredNeverFails, PTL

-----------------------------------------------------------------------------
(* A client of getIsuConditions has a query once it has begun. *)
IsWalk(r) ==
  \/ r = [pc |-> "new", got |-> {}, ends |-> {}, stored |-> {}, dropped |-> FALSE]
  \/ /\ r = [pc |-> r.pc, got |-> r.got, ends |-> r.ends, stored |-> r.stored,
             dropped |-> r.dropped, query |-> r.query, end |-> r.end]
     /\ r.pc \in {"running", "done", "failed"} /\ r.dropped \in BOOLEAN
     /\ r.query \in Query /\ r.end \in Nat

(* What TypeOK needs: the tables exist that the script loads, and a list   *)
(* shows rows of its snapshot.                                             *)
TypeInv ==
  /\ TypeOK
  /\ script \in {"seed isu", "seed isu_condition"} => tables = {"isu", "isu_condition"}
  /\ DOMAIN walk = Walk /\ \A w \in Walk : IsWalk(walk[w])
  /\ \A l \in List : list[l].snapshot \subseteq RowType

(* A batch is stored as rows. *)
LEMMA RowsTyped ==
  ASSUME TableInv, NEW p \in Post
  PROVE  Stored(p) \subseteq RowType
<1>1. Cardinality(isu_condition) \in Nat
  BY FS_CardinalityType DEF TableInv
<1>2. ASSUME NEW i \in DOMAIN ReportsOf[p] PROVE Row(p, i) \in RowType
  <2>1. i \in Nat
    BY ConditionAssumption
  <2>. QED  BY <1>1, <2>1, ReportType, ConditionAssumption DEF Row, RowType
<1>. QED  BY <1>2 DEF Stored

(* The least time of a page that has a row. *)
LEMMA LeastTime ==
  ASSUME NEW page, page # {}, \A x \in page : x.ts \in Nat
  PROVE  LET e == Min({x.ts : x \in page})
         IN  e \in Nat /\ (\E x \in page : x.ts = e) /\ \A x \in page : e <= x.ts
<1> DEFINE T == {x.ts : x \in page}
<1>1. T \in SUBSET Nat /\ T # {}
  OBVIOUS
<1>2. \E n \in T : \A m \in T : n <= m
  BY <1>1, LeastNat
<1>3. Min(T) \in T /\ \A m \in T : Min(T) <= m
  BY <1>2 DEF Min
<1>. QED  BY <1>1, <1>3

(* The answer to a page, and the client after it. *)
PageFor(w) == getIsuConditionsFromDB([walk[w].query EXCEPT !.end = walk[w].end], isu_condition)

(* A page is rows of the table. *)
LEMMA PageRows ==
  ASSUME TableInv, NEW q, NEW page \in getIsuConditionsFromDB(q, isu_condition)
  PROVE  page \subseteq isu_condition
<1>1. PICK S \in Selected(q, isu_condition) : page \in Newest(OfLevel(S, q.levels), Limit)
  BY DEF getIsuConditionsFromDB
<1>2. S \subseteq Window(q, isu_condition)
  BY <1>1 DEF Selected, Newest, kSubset
<1>. QED  BY <1>1, <1>2 DEF Newest, kSubset, OfLevel, Window, Of

(* The client has what the page brings and goes on below it. *)
LEMMA WalkAfterPage ==
  ASSUME TypeInv, TableInv, NEW w \in Walk, GetIsuConditions(w)
  PROVE  \E page \in PageFor(w) :
           LET r == walk[w]
               n == walk'[w]
           IN  /\ IsWalk(n) /\ page \subseteq isu_condition
               /\ n.got = r.got \cup page /\ n.stored = r.stored /\ n.dropped = r.dropped
               /\ n.query = r.query
               /\ n.pc = IF Cardinality(page) < Limit THEN "done" ELSE "running"
               /\ n.end = IF page = {} THEN r.end ELSE Min({x.ts : x \in page})
               /\ n.ends = IF Cardinality(page) < Limit THEN r.ends
                           ELSE r.ends \cup {Min({x.ts : x \in page})}
<1> DEFINE r == walk[w]
           e(page) == IF page = {} THEN r.end ELSE Min({x.ts : x \in page})
           pc(page) == IF Cardinality(page) < Limit THEN "done" ELSE r.pc
           s(page) == IF Cardinality(page) < Limit THEN r.ends
                      ELSE r.ends \cup {Min({x.ts : x \in page})}
<1>1. PICK page \in PageFor(w) :
        walk' = [walk EXCEPT ![w] =
          [walk[w] EXCEPT !.got = @ \cup page,
                          !.pc  = IF Cardinality(page) < Limit THEN "done" ELSE @,
                          !.end = IF page = {} THEN @ ELSE Min({x.ts : x \in page}),
                          !.ends = IF Cardinality(page) < Limit THEN @
                                   ELSE @ \cup {Min({x.ts : x \in page})}]]
  BY DEF GetIsuConditions, PageFor
<1>2. /\ r = [pc |-> r.pc, got |-> r.got, ends |-> r.ends, stored |-> r.stored,
              dropped |-> r.dropped, query |-> r.query, end |-> r.end]
      /\ r.pc = "running" /\ r.dropped \in BOOLEAN /\ r.query \in Query /\ r.end \in Nat
  <2>1. r.pc = "running"
    BY DEF GetIsuConditions
  <2>2. IsWalk(r)
    BY DEF TypeInv
  <2>3. r # [pc |-> "new", got |-> {}, ends |-> {}, stored |-> {}, dropped |-> FALSE]
    BY <2>1
  <2>. HIDE DEF r
  <2>. QED  BY <2>1, <2>2, <2>3 DEF IsWalk
<1>3. page \subseteq isu_condition
  BY PageRows DEF PageFor
<1>4. e(page) \in Nat
  BY <1>2, <1>3, LeastTime DEF TableInv
<1>5. walk'[w] = [r EXCEPT !.got = r.got \cup page, !.pc = pc(page), !.end = e(page),
                          !.ends = s(page)]
  <2>1. walk' = [walk EXCEPT ![w] =
          [r EXCEPT !.got = r.got \cup page, !.pc = pc(page), !.end = e(page), !.ends = s(page)]]
    BY <1>1
  <2>2. w \in DOMAIN walk
    BY DEF TypeInv
  <2>. HIDE DEF r, pc, e, s
  <2>. QED  BY <2>1, <2>2
<1> HIDE DEF e, s
<1>6. walk'[w] = [pc |-> pc(page), got |-> r.got \cup page, ends |-> s(page), stored |-> r.stored,
                  dropped |-> r.dropped, query |-> r.query, end |-> e(page)]
  <2>1. PICK a, b, h, c, d, f, g : r = [pc |-> a, got |-> b, ends |-> h, stored |-> c,
                                        dropped |-> d, query |-> f, end |-> g]
    BY <1>2
  <2>2. r.got = b /\ r.stored = c /\ r.dropped = d /\ r.query = f
    BY <2>1
  <2> HIDE DEF r, pc
  <2>. QED  BY <1>5, <2>1, <2>2
<1>7. pc(page) \in {"running", "done"}
  BY <1>2
<1>8. IsWalk(walk'[w])
  BY <1>2, <1>4, <1>6, <1>7 DEF IsWalk
<1>9. /\ walk'[w].got = r.got \cup page /\ walk'[w].stored = r.stored
      /\ walk'[w].dropped = r.dropped /\ walk'[w].query = r.query
      /\ walk'[w].pc = pc(page) /\ walk'[w].end = e(page) /\ walk'[w].ends = s(page)
  <2>. HIDE DEF r, pc
  <2>. QED  BY <1>6
<1>10. pc(page) = IF Cardinality(page) < Limit THEN "done" ELSE "running"
  BY <1>2
<1>. QED  BY <1>3, <1>8, <1>9, <1>10 DEF e, s

(* What a step does to the record of a client. *)
LEMMA WalkPhase ==
  ASSUME NEW r, IsWalk(r)
  PROVE  r.pc \in {"new", "running", "done", "failed"}
BY DEF IsWalk

LEMMA WalkFailed ==
  ASSUME NEW r, IsWalk(r), r.pc = "running"
  PROVE  LET n == [r EXCEPT !.pc = "failed", !.got = {}] IN IsWalk(n) /\ n.got = {} /\ n.pc = "failed"
<1> DEFINE n == [r EXCEPT !.pc = "failed", !.got = {}]
<1>1. r # [pc |-> "new", got |-> {}, ends |-> {}, stored |-> {}, dropped |-> FALSE]
  OBVIOUS
<1>2. PICK a, b, h, c, d, f, g :
        /\ r = [pc |-> a, got |-> b, ends |-> h, stored |-> c, dropped |-> d, query |-> f, end |-> g]
        /\ d \in BOOLEAN /\ f \in Query /\ g \in Nat
  BY <1>1 DEF IsWalk
<1>3. n = [r EXCEPT !.pc = "failed", !.got = {}]
  OBVIOUS
<1> HIDE DEF n
<1>5. n = [pc |-> "failed", got |-> {}, ends |-> h, stored |-> c, dropped |-> d, query |-> f,
           end |-> g]
  BY <1>2, <1>3
<1>4. IsWalk(n) /\ n.got = {} /\ n.pc = "failed"
  BY <1>2, <1>5 DEF IsWalk
<1>. QED  BY <1>4 DEF n

LEMMA WalkDropped ==
  ASSUME NEW r, IsWalk(r)
  PROVE  LET n == [r EXCEPT !.dropped = r.dropped \/ r.pc # "new"]
         IN  IsWalk(n) /\ n.got = r.got /\ n.pc = r.pc /\ (n.dropped \/ n.pc = "new")
<1> DEFINE d == r.dropped \/ r.pc # "new"
           n == [r EXCEPT !.dropped = d]
<1>1. CASE r = [pc |-> "new", got |-> {}, ends |-> {}, stored |-> {}, dropped |-> FALSE]
  <2>1. d = FALSE
    BY <1>1
  <2>0. n = [r EXCEPT !.dropped = d]
    OBVIOUS
  <2> HIDE DEF n, d
  <2>2. n = [pc |-> "new", got |-> {}, ends |-> {}, stored |-> {}, dropped |-> FALSE]
    BY <1>1, <2>0, <2>1
  <2>3. IsWalk(n) /\ n.got = r.got /\ n.pc = r.pc /\ n.pc = "new"
    BY <1>1, <2>2 DEF IsWalk
  <2>. QED  BY <2>3 DEF n, d
<1>2. CASE r # [pc |-> "new", got |-> {}, ends |-> {}, stored |-> {}, dropped |-> FALSE]
  <2>1. PICK a, b, h, c, e, f, g :
          /\ r = [pc |-> a, got |-> b, ends |-> h, stored |-> c, dropped |-> e, query |-> f,
                  end |-> g]
          /\ a \in {"running", "done", "failed"} /\ e \in BOOLEAN /\ f \in Query /\ g \in Nat
    BY <1>2 DEF IsWalk
  <2>2. d = TRUE
    BY <2>1
  <2>0. n = [r EXCEPT !.dropped = d]
    OBVIOUS
  <2> HIDE DEF n, d
  <2>3. n = [pc |-> a, got |-> b, ends |-> h, stored |-> c, dropped |-> TRUE, query |-> f,
             end |-> g]
    BY <2>0, <2>1, <2>2
  <2>4. IsWalk(n) /\ n.got = r.got /\ n.pc = r.pc /\ n.dropped
    BY <2>1, <2>3 DEF IsWalk
  <2>. QED  BY <2>4 DEF n, d
<1>. QED  BY <1>1, <1>2

(* TypeInv is inductive together with the invariants above. *)
LEMMA TypeStep ==
  ASSUME TypeInv, TableInv, ListInv, TrendInv, TableInv', ListInv', TrendInv', [Next]_vars
  PROVE  TypeInv'
<1>t. /\ TypeOK /\ DOMAIN walk = Walk /\ (\A w \in Walk : IsWalk(walk[w]))
      /\ script \in {"seed isu", "seed isu_condition"} => tables = {"isu", "isu_condition"}
      /\ \A l \in List : list[l].snapshot \subseteq RowType
  BY DEF TypeInv
<1>w. MayWrite => writers' \in 0 .. MaxWriters
  <2>1. MaxWriters \in Nat
    BY ConditionAssumption
  <2>2. writers \in 0 .. MaxWriters
    BY <1>t DEF TypeOK
  <2>. QED  BY <2>1, <2>2 DEF MayWrite
(* The clients and the readers, as the other steps leave them.             *)
<1>0. ASSUME UNCHANGED readers,
             isu' \subseteq Isu, isu_condition' \subseteq RowType,
             tables' \subseteq {"isu", "isu_condition"}, known' \subseteq Isu,
             isu' # {} => "isu" \in tables',
             isu_condition' # {} => "isu_condition" \in tables',
             script' \in {"ok", "failed", "drop isu_condition", "drop isu", "create", "seed isu",
                          "seed isu_condition", "clear", "load"},
             script' \in {"seed isu", "seed isu_condition"} => tables' = {"isu", "isu_condition"},
             writers' \in 0 .. MaxWriters,
             answer' \in [Post -> {"none", "202", "400", "panic", "dropped"}]
      PROVE  TypeInv'
  BY <1>0, <1>t DEF TypeInv, TypeOK, readers
(* One reader moves.                                                       *)
<1>00. ASSUME UNCHANGED <<database, known, script, writers, answer>>,
              DOMAIN walk' = Walk, \A w \in Walk : IsWalk(walk'[w]) /\ walk'[w].got \subseteq RowType,
              \A t \in Trend : /\ trend'[t].pc \in {"new", "running", "done", "failed"}
                               /\ trend'[t].isus \subseteq Isu,
              \A l \in List : /\ list'[l].pc \in {"new", "running", "done", "failed"}
                              /\ list'[l].res \subseteq RowType
                              /\ list'[l].snapshot \subseteq RowType
       PROVE  TypeInv'
  <2>1. \A w \in Walk : walk'[w].pc \in {"new", "running", "done", "failed"}
    BY <1>00, WalkPhase
  <2>. QED  BY <1>00, <1>t, <2>1 DEF TypeInv, TypeOK, database
<1>1. ASSUME NEW u \in Isu, Register(u) PROVE TypeInv'
  BY <1>t, <1>w, <1>0, <1>1 DEF Register, TypeOK
<1>2. ASSUME NEW p \in Post, PostIsuCondition(p) PROVE TypeInv'
  <2>1. Verdict(p) \in {"202", "400", "panic", "404"} /\ Stored(p) \subseteq RowType
    BY RowsTyped DEF Verdict
  <2>2. Stored(p) # {} => "isu_condition" \in tables
    BY <1>2 DEF Stored, PostIsuCondition
  <2>3. writers' \in 0 .. MaxWriters
    BY <1>w, <1>2 DEF PostIsuCondition
  <2>4. answer' \in [Post -> {"none", "202", "400", "panic", "dropped"}]
    BY <1>t, <1>2, <2>1 DEF PostIsuCondition, TypeOK
  <2>. QED  BY <1>t, <1>0, <1>2, <2>1, <2>2, <2>3, <2>4 DEF PostIsuCondition, TypeOK
<1>3. ASSUME PostInitialize \/ DropIsu \/ CreateTables \/ ClearCache \/ LoadCache PROVE TypeInv'
  <2>1. CASE PostInitialize
    BY <1>0, <1>t, <1>w, <2>1 DEF PostInitialize, database, TypeOK
  <2>2. CASE DropIsu \/ CreateTables
    BY <1>0, <1>t, <2>2 DEF DropIsu, CreateTables, TypeOK
  <2>3. CASE ClearCache \/ LoadCache
    BY <1>0, <1>t, <2>3 DEF ClearCache, LoadCache, database, TypeOK
  <2>. QED  BY <1>3, <2>1, <2>2, <2>3
<1>4. ASSUME SeedIsu \/ SeedConditions PROVE TypeInv'
  BY <1>t, <1>0, <1>4, ConditionAssumption DEF SeedIsu, SeedConditions, TypeOK
<1>5. CASE UNCHANGED vars
  BY <1>t, <1>00, <1>5 DEF vars, readers, TypeOK
(* The readers.                                                            *)
<1>6. \A w \in Walk : IsWalk(walk[w]) /\ walk[w].got \subseteq RowType
  BY <1>t DEF TypeOK
<1>7. \A t \in Trend : /\ trend[t].pc \in {"new", "running", "done", "failed"}
                       /\ trend[t].isus \subseteq Isu
  BY <1>t DEF TypeOK
<1>8. \A l \in List : /\ list[l].pc \in {"new", "running", "done", "failed"}
                      /\ list[l].res \subseteq RowType /\ list[l].snapshot \subseteq RowType
  BY <1>t DEF TypeOK
<1>9. ASSUME NEW w \in Walk, NEW q \in Query, StartWalk(w, q) PROVE TypeInv'
  <2>1. /\ DOMAIN walk' = Walk /\ \A v \in Walk : v # w => walk'[v] = walk[v]
        /\ walk'[w] = [pc |-> "running", got |-> {}, ends |-> {}, stored |-> isu_condition,
                       dropped |-> FALSE, query |-> q, end |-> q.end]
    BY <1>t, <1>9 DEF StartWalk
  <2>2. q.end \in Nat
    BY ConditionAssumption
  <2>3. IsWalk(walk'[w]) /\ walk'[w].got = {}
    BY <2>1, <2>2 DEF IsWalk
  <2>4. \A v \in Walk : IsWalk(walk'[v]) /\ walk'[v].got \subseteq RowType
    BY <1>6, <2>1, <2>3
  <2>5. UNCHANGED <<database, known, script, writers, answer, trend, list>>
    BY <1>9 DEF StartWalk
  <2>. QED  BY <1>00, <1>7, <1>8, <2>1, <2>4, <2>5
<1>10. ASSUME NEW w \in Walk, GetIsuConditions(w) PROVE TypeInv'
  <2>1. DOMAIN walk' = Walk /\ \A v \in Walk : v # w => walk'[v] = walk[v]
    BY <1>t, <1>10 DEF GetIsuConditions
  <2>2. IsWalk(walk'[w]) /\ walk'[w].got \subseteq RowType
    <3>1. PICK page : /\ IsWalk(walk'[w]) /\ page \subseteq isu_condition
                      /\ walk'[w].got = walk[w].got \cup page
      BY <1>10, WalkAfterPage
    <3>. QED  BY <1>6, <1>t, <3>1 DEF TypeOK
  <2>3. \A v \in Walk : IsWalk(walk'[v]) /\ walk'[v].got \subseteq RowType
    BY <1>6, <2>1, <2>2
  <2>4. UNCHANGED <<database, known, script, writers, answer, trend, list>>
    BY <1>10 DEF GetIsuConditions
  <2>. QED  BY <1>00, <1>7, <1>8, <2>1, <2>3, <2>4
<1>11. ASSUME NEW w \in Walk, FailWalk(w) PROVE TypeInv'
  <2>1. /\ DOMAIN walk' = Walk /\ \A v \in Walk : v # w => walk'[v] = walk[v]
        /\ walk'[w] = [walk[w] EXCEPT !.pc = "failed", !.got = {}] /\ walk[w].pc = "running"
    BY <1>t, <1>11 DEF FailWalk, Fails
  <2>2. IsWalk(walk'[w]) /\ walk'[w].got = {}
    BY <1>6, <2>1, WalkFailed
  <2>3. \A v \in Walk : IsWalk(walk'[v]) /\ walk'[v].got \subseteq RowType
    BY <1>6, <2>1, <2>2
  <2>4. UNCHANGED <<database, known, script, writers, answer, trend, list>>
    BY <1>11 DEF FailWalk
  <2>. QED  BY <1>00, <1>7, <1>8, <2>1, <2>3, <2>4
<1>12. ASSUME NEW t \in Trend,
              \/ SelectCharacters(t) \/ TrendDone(t) \/ FailTrend(t)
              \/ \E u \in Isu : SelectIsusOf(t, CharacterOf[u]) \/ SelectLastCondition(t, u)
       PROVE  TypeInv'
  <2>1. /\ UNCHANGED <<database, known, script, writers, answer, walk, list>>
        /\ \A s \in Trend : s # t => trend'[s] = trend[s]
    BY <1>12 DEF TrendInv, SelectCharacters, TrendDone, FailTrend, SelectIsusOf, SelectLastCondition
  <2>2. IsTrend(trend[t]) /\ DOMAIN trend = Trend
    BY DEF TrendInv, TrendOK
  <2>3. /\ trend'[t].pc \in {"new", "running", "done", "failed"} /\ trend'[t].isus \subseteq Isu
    <3>1. CASE SelectCharacters(t)
      <4>1. trend' = [trend EXCEPT ![t].pc = "running",
                                   ![t].characters = {CharacterOf[u] : u \in isu},
                                   ![t].known = isu, ![t].stored = isu_condition]
        BY <3>1 DEF SelectCharacters
      <4>2. trend'[t].pc = "running" /\ trend'[t].isus = trend[t].isus
        BY <2>2, <4>1 DEF IsTrend
      <4>. QED  BY <1>7, <4>2
    <3>2. CASE TrendDone(t) \/ FailTrend(t)
      <4>1. PICK pc \in {"done", "failed"} : trend' = [trend EXCEPT ![t].pc = pc]
        BY <3>2 DEF TrendDone, FailTrend
      <4>2. trend'[t].pc = pc /\ trend'[t].isus = trend[t].isus
        BY <2>2, <4>1 DEF IsTrend
      <4>. QED  BY <1>7, <4>2
    <3>3. ASSUME NEW u \in Isu, SelectIsusOf(t, CharacterOf[u])
          PROVE  /\ trend'[t].pc \in {"new", "running", "done", "failed"}
                 /\ trend'[t].isus \subseteq Isu
      <4>1. trend' = [trend EXCEPT ![t].characters = @ \ {CharacterOf[u]},
                                   ![t].isus = {v \in isu : CharacterOf[v] = CharacterOf[u]}]
        BY <3>3 DEF SelectIsusOf
      <4>2. /\ trend'[t].pc = trend[t].pc
            /\ trend'[t].isus = {v \in isu : CharacterOf[v] = CharacterOf[u]}
        BY <2>2, <4>1 DEF IsTrend
      <4>. QED  BY <1>7, <1>t, <4>2 DEF TypeOK
    <3>4. ASSUME NEW u \in Isu, SelectLastCondition(t, u)
          PROVE  /\ trend'[t].pc \in {"new", "running", "done", "failed"}
                 /\ trend'[t].isus \subseteq Isu
      <4>1. PICK last \in Last(u, isu_condition) :
              trend' = [trend EXCEPT ![t].isus = @ \ {u},
                                     ![t].res = @ \cup {TrendCondition(x) : x \in last}]
        BY <3>4 DEF SelectLastCondition
      <4>2. trend'[t].pc = trend[t].pc /\ trend'[t].isus = trend[t].isus \ {u}
        BY <2>2, <4>1 DEF IsTrend
      <4>. QED  BY <1>7, <4>2
    <3>. QED  BY <1>12, <3>1, <3>2, <3>3, <3>4
  <2>4. \A s \in Trend : /\ trend'[s].pc \in {"new", "running", "done", "failed"}
                         /\ trend'[s].isus \subseteq Isu
    BY <1>7, <2>1, <2>3
  <2>5. walk' = walk /\ list' = list /\ DOMAIN walk' = Walk
    BY <1>t, <2>1
  <2>. QED  BY <1>00, <1>6, <1>8, <2>1, <2>4, <2>5
<1>13. ASSUME NEW l \in List,
              \/ SelectIsuList(l) \/ ListDone(l) \/ FailList(l)
              \/ \E u \in Isu : GetLastCondition(l, u)
       PROVE  TypeInv'
  <2>1. /\ UNCHANGED <<database, known, script, writers, answer, walk, trend>>
        /\ \A s \in List : s # l => list'[s] = list[s]
    BY <1>13 DEF ListInv, SelectIsuList, ListDone, FailList, GetLastCondition
  <2>2. IsList(list[l]) /\ DOMAIN list = List
    BY DEF ListInv, SnapshotOf
  <2>3. /\ list'[l].pc \in {"new", "running", "done", "failed"}
        /\ list'[l].res \subseteq RowType /\ list'[l].snapshot \subseteq RowType
    <3>1. CASE SelectIsuList(l)
      <4>1. list' = [list EXCEPT ![l] =
              [@ EXCEPT !.pc = "running", !.isus = isu, !.snapshot = isu_condition,
                        !.known = isu, !.stored = isu_condition]]
        BY <3>1 DEF SelectIsuList
      <4>2. /\ list'[l].pc = "running" /\ list'[l].res = list[l].res
            /\ list'[l].snapshot = isu_condition
        BY <2>2, <4>1 DEF IsList
      <4>. QED  BY <1>8, <1>t, <4>2 DEF TypeOK
    <3>2. CASE ListDone(l) \/ FailList(l)
      <4>1. PICK pc \in {"done", "failed"} :
              list' = [list EXCEPT ![l].pc = pc, ![l].snapshot = {}]
        BY <3>2 DEF ListDone, FailList
      <4>2. list'[l].pc = pc /\ list'[l].res = list[l].res /\ list'[l].snapshot = {}
        BY <2>2, <4>1 DEF IsList
      <4>. QED  BY <1>8, <4>2
    <3>3. ASSUME NEW u \in Isu, GetLastCondition(l, u)
          PROVE  /\ list'[l].pc \in {"new", "running", "done", "failed"}
                 /\ list'[l].res \subseteq RowType /\ list'[l].snapshot \subseteq RowType
      <4>1. PICK last \in Last(u, list[l].snapshot) :
              list' = [list EXCEPT ![l] =
                         [list[l] EXCEPT !.isus = @ \ {u}, !.res = @ \cup last]]
        BY <3>3 DEF GetLastCondition, Visible
      <4>2. last \subseteq list[l].snapshot
        BY <4>1, LastOf
      <4>3. /\ list'[l].pc = list[l].pc /\ list'[l].snapshot = list[l].snapshot
            /\ list'[l].res = list[l].res \cup last
        BY <2>2, <4>1 DEF IsList
      <4>. QED  BY <1>8, <4>2, <4>3
    <3>. QED  BY <1>13, <3>1, <3>2, <3>3
  <2>4. \A s \in List : /\ list'[s].pc \in {"new", "running", "done", "failed"}
                        /\ list'[s].res \subseteq RowType /\ list'[s].snapshot \subseteq RowType
    BY <1>8, <2>1, <2>3
  <2>5. walk' = walk /\ trend' = trend /\ DOMAIN walk' = Walk
    BY <1>t, <2>1
  <2>. QED  BY <1>00, <1>6, <1>7, <2>1, <2>4, <2>5
<1>14. CASE DropConditions
  <2>1. \A w \in Walk : IsWalk(walk'[w]) /\ walk'[w].got \subseteq RowType
    <3> SUFFICES ASSUME NEW w \in Walk PROVE IsWalk(walk'[w]) /\ walk'[w].got \subseteq RowType
      OBVIOUS
    <3>1. walk'[w] = [walk[w] EXCEPT !.dropped = walk[w].dropped \/ walk[w].pc # "new"]
      BY <1>14 DEF DropConditions
    <3>. QED  BY <1>6, <3>1, WalkDropped
  <2>2. \A t \in Trend : trend'[t].pc = trend[t].pc /\ trend'[t].isus = trend[t].isus
    <3> SUFFICES ASSUME NEW t \in Trend
                 PROVE  trend'[t].pc = trend[t].pc /\ trend'[t].isus = trend[t].isus
      OBVIOUS
    <3> DEFINE d == trend[t].dropped \/ trend[t].pc # "new"
    <3>1. trend'[t] = [trend[t] EXCEPT !.dropped = d] /\ IsTrend(trend[t])
      BY <1>14 DEF DropConditions, TrendInv, TrendOK
    <3> HIDE DEF d
    <3>. QED  BY <3>1 DEF IsTrend
  <2>3. UNCHANGED <<isu, known, writers, list>> /\ isu_condition' = {} /\ DOMAIN walk' = Walk
        /\ tables' = tables \ {"isu_condition"} /\ script' = "drop isu"
    BY <1>14 DEF DropConditions
  <2>4. answer' \in [Post -> {"none", "202", "400", "panic", "dropped"}]
    BY <1>t, <1>14 DEF DropConditions, TypeOK
  <2>5. \A w \in Walk : walk'[w].pc \in {"new", "running", "done", "failed"}
    BY <2>1, WalkPhase
  <2>6. \A x \in {walk'[w] : w \in Walk} \cup {trend'[t] : t \in Trend} \cup {list'[l] : l \in List} :
          x.pc \in {"new", "running", "done", "failed"}
    BY <1>7, <1>8, <2>2, <2>3, <2>5
  <2>7. TypeOK'
    BY <1>t, <1>7, <2>1, <2>2, <2>3, <2>4, <2>6 DEF TypeOK
  <2>. QED  BY <1>t, <2>1, <2>3, <2>7 DEF TypeInv
<1>. QED  BY <1>1, <1>2, <1>3, <1>4, <1>5, <1>9, <1>10, <1>11, <1>12, <1>13, <1>14 DEF Next

LEMMA TypeInvariant == Spec => []TypeInv
<1>1. Init => TypeInv
  BY ConditionAssumption DEF Init, TypeInv, TypeOK, IsWalk
<1>. QED  BY <1>1, TypeStep, TableInvariant, ListInvariant, TrendInvariant, PTL DEF Spec

(* Every variable of the table, its writers and its readers keeps its      *)
(* type, and a row is only ever in a table that exists.                    *)
THEOREM TypeCorrect == Spec => []TypeOK
<1>1. TypeInv => TypeOK
  BY DEF TypeInv
<1>. QED  BY <1>1, TypeInvariant, PTL

-----------------------------------------------------------------------------
(* A row is a seed or the report of a batch.                               *)
Reported == \A x \in isu_condition :
              x \in Seed \/ \E p \in Post : \E i \in DOMAIN ReportsOf[p] : Holds(x, p, i)

LEMMA ReportedInvariant == Spec => []Reported
<1>1. Init => Reported
  BY DEF Init, Reported
<1>2. ASSUME Reported, [Next]_vars PROVE Reported'
  <2>1. ASSUME NEW p \in Post, PostIsuCondition(p) PROVE Reported'
    <3>1. \A x \in Stored(p) : \E i \in DOMAIN ReportsOf[p] : Holds(x, p, i)
      BY DEF Stored, Row, Holds
    <3>. QED  BY <1>2, <2>1, <3>1 DEF PostIsuCondition, Reported
  <2>2. ASSUME DropConditions \/ SeedConditions \/ UNCHANGED isu_condition PROVE Reported'
    BY <1>2, <2>2 DEF DropConditions, SeedConditions, Reported
  <2>. QED  BY <1>2, <2>1, <2>2, Quiet
<1>. QED  BY <1>1, <1>2, PTL DEF Spec

(* A client has seen what it asked for, as far back as its pages reach, but *)
(* for what a full page ended on.                                          *)
Fits(q, x) ==
  /\ x.isu = q.isu /\ x.ts < q.end /\ q.start <= x.ts
  /\ calculateConditionLevel(x.condition) \in q.levels

WalkOK(r) ==
  r.pc \in {"running", "done"} /\ ~r.dropped =>
    /\ r.stored \cup r.got \subseteq isu_condition
    /\ \A x \in r.stored : Fits(r.query, x) /\ (r.pc = "done" \/ r.end <= x.ts) =>
         Seen(r, x) \/ Straddles(r, x)

WalkInv == \A w \in Walk : WalkOK(walk[w])

(* After a page, whatever matches from its last row on has been seen: a    *)
(* row that the page left out is of the second of its last row, which is   *)
(* the same report or another one of that second.                          *)
LEMMA PageExtends ==
  ASSUME KnownLevels, TypeInv, TableInv, StoredIsWellFormed,
         NEW w \in Walk, GetIsuConditions(w), WalkOK(walk[w])
  PROVE  WalkOK(walk[w])'
<1> DEFINE r == walk[w]
           n == walk'[w]
           q == [r.query EXCEPT !.end = r.end]
<1>1. PICK page \in PageFor(w) :
        /\ page \subseteq isu_condition
        /\ n.got = r.got \cup page /\ n.stored = r.stored /\ n.dropped = r.dropped
        /\ n.query = r.query
        /\ n.pc = IF Cardinality(page) < Limit THEN "done" ELSE "running"
        /\ n.end = IF page = {} THEN r.end ELSE Min({x.ts : x \in page})
        /\ n.ends = IF Cardinality(page) < Limit THEN r.ends
                    ELSE r.ends \cup {Min({x.ts : x \in page})}
  BY WalkAfterPage
<1>2. isu_condition' = isu_condition /\ r.pc = "running"
  BY DEF GetIsuConditions, database
<1>3. /\ r.query \in Query /\ r.end \in Nat
      /\ q.isu = r.query.isu /\ q.levels = r.query.levels /\ q.start = r.query.start /\ q.end = r.end
      /\ q.levels \subseteq Levels /\ q.start \in Nat
  <2>1. r.query \in Query /\ r.end \in Nat
    <3>1. IsWalk(r)
      BY DEF TypeInv
    <3> HIDE DEF r
    <3>. QED  BY <1>2, <3>1 DEF IsWalk
  <2>2. r.query \in [isu : Isu, levels : SUBSET STRING, start : Nat, end : Nat]
    BY <2>1, ConditionAssumption
  <2> HIDE DEF r
  <2>. QED  BY <2>1, <2>2 DEF KnownLevels
<1>4. page \in Newest(Matching(q), Limit)
  <2>1. PageFor(w) = Newest(Matching(q), Limit)
    BY <1>3, PageIsNewest DEF PageFor
  <2>. QED  BY <1>1, <2>1
<1>5. /\ IsFiniteSet(page) /\ Cardinality(page) \in Nat
      /\ Cardinality(page) < Limit => page = Matching(q)
      /\ \A x \in page, y \in Matching(q) \ page : x.ts >= y.ts
  <2>1. IsFiniteSet(Matching(q)) /\ Limit \in Nat
    BY FS_Subset, ConditionAssumption DEF Matching, TableInv
  <2>. QED  BY <1>4, <2>1, PageOf
<1> HIDE DEF q
<1>6. ASSUME ~r.dropped, NEW x \in r.stored, Fits(r.query, x), n.pc = "done" \/ n.end <= x.ts
      PROVE  Seen(n, x) \/ Straddles(n, x)
  <2>0. /\ x \in isu_condition /\ x \in RowType /\ x.ts \in Nat
        /\ (r.end <= x.ts => Seen(r, x) \/ Straddles(r, x))
    BY <1>2, <1>6 DEF WalkOK, TypeInv, TypeOK, RowType
  <2>1. CASE r.end <= x.ts
    BY <1>1, <2>0, <2>1 DEF Seen, Straddles
  <2>2. CASE x \in page
    <3>1. [x EXCEPT !.id = x.id] = x
      BY <2>0 DEF RowType
    <3>. QED  BY <1>1, <2>2, <3>1 DEF Seen
  <2>3. CASE ~(r.end <= x.ts) /\ x \notin page
    <3>1. x \in Matching(q)
      BY <1>3, <1>6, <2>0, <2>3 DEF Fits, Matching
    <3>2. ~(Cardinality(page) < Limit) /\ page # {}
      <4>1. ~(Cardinality(page) < Limit)
        BY <1>5, <2>3, <3>1
      <4>2. Cardinality(page) # 0
        BY <1>5, <4>1, ConditionAssumption
      <4>. QED  BY <4>1, <4>2, FS_EmptySet
    <3>3. n.end <= x.ts /\ n.end = Min({y.ts : y \in page}) /\ n.end \in n.ends
      BY <1>1, <1>6, <3>2
    <3>4. ASSUME NEW y \in page PROVE y \in isu_condition /\ y.ts \in Nat /\ y \in RowType
      <4>1. isu_condition \subseteq RowType
        BY DEF TypeInv, TypeOK
      <4>. QED  BY <1>1, <4>1 DEF RowType
    <3>5. PICK y \in page : y.ts = n.end
      BY <3>2, <3>3, <3>4, LeastTime
    <3>6. y.ts = x.ts
      BY <1>5, <2>0, <2>3, <3>1, <3>3, <3>4, <3>5
    <3>7. y.isu = x.isu
      <4>1. y \in Matching(q)
        BY <1>4 DEF Newest, kSubset
      <4>. QED  BY <3>1, <4>1 DEF Matching
    <3>8. CASE y.condition = x.condition
      <4>1. [y EXCEPT !.id = x.id] = x
        BY <2>0, <3>4, <3>6, <3>7, <3>8 DEF RowType
      <4>. QED  BY <1>1, <4>1 DEF Seen
    <3>9. CASE y.condition # x.condition
      BY <1>1, <3>3, <3>5, <3>6, <3>7, <3>9 DEF Straddles
    <3>. QED  BY <3>8, <3>9
  <2>. QED  BY <2>1, <2>2, <2>3
<1>7. ~n.dropped => n.stored \cup n.got \subseteq isu_condition'
  BY <1>1, <1>2 DEF WalkOK
<1>. QED  BY <1>1, <1>6, <1>7 DEF WalkOK

(* Reports are added under the clients; only a reset takes them away.      *)
LEMMA WalkStep ==
  ASSUME KnownLevels, TypeInv, TableInv, StoredIsWellFormed, WalkInv, [Next]_vars
  PROVE  WalkInv'
<1>1. CASE isu_condition \subseteq isu_condition' /\ UNCHANGED walk
  BY <1>1 DEF WalkInv, WalkOK
<1>2. ASSUME NEW w \in Walk, NEW q \in Query, StartWalk(w, q) PROVE WalkInv'
  <2>1. /\ isu_condition' = isu_condition /\ \A v \in Walk : v # w => walk'[v] = walk[v]
        /\ walk'[w] = [pc |-> "running", got |-> {}, ends |-> {}, stored |-> isu_condition,
                       dropped |-> FALSE, query |-> q, end |-> q.end]
    BY <1>2 DEF StartWalk, TypeInv, database
  <2>2. ASSUME NEW x \in isu_condition, Fits(q, x) PROVE ~(q.end <= x.ts)
    <3>1. x.ts \in Nat /\ q.end \in Nat
      BY ConditionAssumption DEF TableInv
    <3>. QED  BY <2>2, <3>1 DEF Fits
  <2>3. WalkOK(walk[w])'
    BY <2>1, <2>2 DEF WalkOK
  <2>. QED  BY <2>1, <2>3 DEF WalkInv, WalkOK
<1>3. ASSUME NEW w \in Walk, GetIsuConditions(w) PROVE WalkInv'
  <2>1. isu_condition' = isu_condition /\ \A v \in Walk : v # w => walk'[v] = walk[v]
    BY <1>3 DEF GetIsuConditions, TypeInv, database
  <2>2. WalkOK(walk[w])'
    BY <1>3, PageExtends DEF WalkInv
  <2>. QED  BY <2>1, <2>2 DEF WalkInv, WalkOK
<1>4. ASSUME NEW w \in Walk, FailWalk(w) PROVE WalkInv'
  <2>1. /\ isu_condition' = isu_condition /\ \A v \in Walk : v # w => walk'[v] = walk[v]
        /\ walk'[w] = [walk[w] EXCEPT !.pc = "failed", !.got = {}] /\ walk[w].pc = "running"
    BY <1>4 DEF FailWalk, Fails, TypeInv, database
  <2>2. walk'[w].pc = "failed"
    <3>1. IsWalk(walk[w])
      BY DEF TypeInv
    <3>. QED  BY <2>1, <3>1, WalkFailed
  <2>. QED  BY <2>1, <2>2 DEF WalkInv, WalkOK
<1>5. CASE DropConditions
  <2>1. ASSUME NEW w \in Walk PROVE walk'[w].dropped \/ walk'[w].pc = "new"
    <3>1. walk'[w] = [walk[w] EXCEPT !.dropped = walk[w].dropped \/ walk[w].pc # "new"]
      BY <1>5 DEF DropConditions
    <3>2. IsWalk(walk[w])
      BY DEF TypeInv
    <3>. QED  BY <3>1, <3>2, WalkDropped
  <2>. QED  BY <2>1 DEF WalkInv, WalkOK
<1>6. CASE SeedConditions
  BY <1>1, <1>6 DEF SeedConditions, readers
<1>7. ASSUME NEW p \in Post, PostIsuCondition(p) PROVE WalkInv'
  BY <1>1, <1>7 DEF PostIsuCondition, readers
<1>. QED
  BY <1>1, <1>2, <1>3, <1>4, <1>5, <1>6, <1>7
     DEF Next, vars, database, readers, Register, SelectCharacters, SelectIsusOf,
         SelectLastCondition, TrendDone, FailTrend, SelectIsuList, GetLastCondition, ListDone,
         FailList, PostInitialize, DropIsu, CreateTables, SeedIsu, ClearCache, LoadCache

LEMMA MatchingFits == \A q : \A x \in Matching(q) : Fits(q, x)
BY DEF Matching, Fits

LEMMA WalkInvariant ==
  ASSUME KnownLevels PROVE Spec => []WalkInv
<1>1. Init => WalkInv
  BY DEF Init, WalkInv, WalkOK
<1>2. TypeInv /\ TableInv /\ StoredIsWellFormed /\ WalkInv /\ [Next]_vars => WalkInv'
  BY WalkStep
<1>. QED
  BY <1>1, <1>2, TypeInvariant, TableInvariant, StoredNeverFails, PTL DEF Spec

(* Paging back by an exclusive end_time (main.go:1186) to a short page,    *)
(* whatever is reported, again or late, between the pages and whatever     *)
(* times the reports have: a client misses a matching report that was      *)
(* stored when it began only if a full page of it ended in that second and *)
(* it got another report of the ISU in it, unless a reset dropped the      *)
(* reports.                                                                *)
THEOREM WalksAreComplete ==
  ASSUME KnownLevels PROVE Spec => []WalkIsComplete
<1>1. Spec => []WalkInv
  BY WalkInvariant
<1>2. ASSUME WalkInv PROVE WalkIsComplete
  BY <1>2, MatchingFits DEF WalkInv, WalkOK, WalkIsComplete
<1>. QED  BY <1>1, <1>2, PTL

(* An ISU that makes at most one report per second: what it sends for the  *)
(* same second, it sends again, and the seeds have reports of other times. *)
(* Neither postIsuCondition (main.go:1365) nor the index on isu_condition  *)
(* (0_Schema.sql:29) asks for it.                                          *)
OneReportPerSecond ==
  /\ \A x, y \in Seed : x.isu = y.isu /\ x.ts = y.ts => x = y
  /\ \A p, q \in Post : \A i \in DOMAIN ReportsOf[p] : \A j \in DOMAIN ReportsOf[q] :
       IsuOf[p] = IsuOf[q] /\ ReportsOf[p][i].ts = ReportsOf[q][j].ts
         => ReportsOf[p][i] = ReportsOf[q][j]
  /\ \A x \in Seed, p \in Post : x.isu = IsuOf[p] =>
       \A i \in DOMAIN ReportsOf[p] : x.ts # ReportsOf[p][i].ts

(* Then two rows of one ISU and one second are copies of one report.       *)
LEMMA CopiesOnly ==
  ASSUME OneReportPerSecond, Reported,
         NEW x \in isu_condition, NEW y \in isu_condition, x.isu = y.isu, x.ts = y.ts
  PROVE  x.condition = y.condition
<1>1. CASE x \in Seed /\ y \in Seed
  BY <1>1 DEF OneReportPerSecond
<1>2. ASSUME NEW p \in Post, NEW i \in DOMAIN ReportsOf[p], Holds(x, p, i)
      PROVE  x.isu = IsuOf[p] /\ x.ts = ReportsOf[p][i].ts /\ x.condition = ReportsOf[p][i].condition
  BY <1>2 DEF Holds
<1>3. ASSUME NEW p \in Post, NEW i \in DOMAIN ReportsOf[p], Holds(y, p, i)
      PROVE  y.isu = IsuOf[p] /\ y.ts = ReportsOf[p][i].ts /\ y.condition = ReportsOf[p][i].condition
  BY <1>3 DEF Holds
<1>4. x \in Seed => y \in Seed
  BY <1>3 DEF Reported, OneReportPerSecond
<1>5. y \in Seed => x \in Seed
  BY <1>2 DEF Reported, OneReportPerSecond
<1>6. ASSUME NEW p \in Post, NEW i \in DOMAIN ReportsOf[p], Holds(x, p, i),
             NEW q \in Post, NEW j \in DOMAIN ReportsOf[q], Holds(y, q, j)
      PROVE  x.condition = y.condition
  <2>1. ReportsOf[p][i] = ReportsOf[q][j]
    BY <1>2, <1>3, <1>6 DEF OneReportPerSecond
  <2>. QED  BY <1>2, <1>3, <1>6, <2>1
<1>. QED  BY <1>1, <1>4, <1>5, <1>6 DEF Reported

(* If the ISUs are such, a client that pages back to a short page has a    *)
(* copy of every matching report that was stored when it began.            *)
NothingIsMissed ==
  \A w \in Walk : walk[w].pc = "done" /\ ~walk[w].dropped =>
    \A x \in Matching(walk[w].query) \cap walk[w].stored : Seen(walk[w], x)

THEOREM WalksMissNothing ==
  ASSUME KnownLevels, OneReportPerSecond PROVE Spec => []NothingIsMissed
<1>1. Spec => []WalkInv
  BY WalkInvariant
<1>2. ASSUME WalkInv, Reported PROVE NothingIsMissed
  <2> SUFFICES ASSUME NEW w \in Walk, walk[w].pc = "done", ~walk[w].dropped,
                      NEW x \in Matching(walk[w].query), x \in walk[w].stored
               PROVE  Seen(walk[w], x)
    BY DEF NothingIsMissed
  <2>1. WalkOK(walk[w])
    BY <1>2 DEF WalkInv
  <2>2. walk[w].got \subseteq isu_condition /\ (Seen(walk[w], x) \/ Straddles(walk[w], x))
    BY <2>1, MatchingFits DEF WalkOK
  <2>3. ~Straddles(walk[w], x)
    BY <1>2, <2>2, CopiesOnly DEF Straddles, Matching
  <2>. QED  BY <2>2, <2>3
<1>. QED  BY <1>1, <1>2, ReportedInvariant, PTL
=============================================================================
