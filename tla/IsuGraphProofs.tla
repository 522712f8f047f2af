------------------------------ MODULE IsuGraphProofs ------------------------------
(***************************************************************************)
(* The graph of a day, for every length of an hour and of a day and every  *)
(* number of reports.  ReadInv says where the first loop cuts the reports  *)
(* (Cuts: at f[1], f[2] ... of them) and so that each data point has the   *)
(* reports of one full hour, all of them; EmitInv says that the index of   *)
(* the third loop is at the first data point that is not yet emitted.      *)
(* Induction over numbers is by a least counterexample (LeastNat).         *)
(***************************************************************************)
EXTENDS IsuGraph, FiniteSetTheorems, SequenceTheorems, WellFoundedInduction, TLAPS

(* Every non-empty set of numbers has a least one. *)
LEMMA LeastNat ==
  ASSUME NEW T \in SUBSET Nat, T # {}
  PROVE  \E n \in T : \A m \in T : n <= m
<1>1. PICK n \in T : \A m \in T : <<m, n>> \notin OpToRel(<, Nat)
  BY NatLessThanWellFounded, WFMin
<1>2. OpToRel(<, Nat) = {ss \in Nat \X Nat : ss[1] < ss[2]}
  BY SMT DEF OpToRel
<1>3. ASSUME NEW m \in T PROVE n <= m
  <2>1. ~(m < n)
    BY <1>1, <1>2
  <2>. QED  BY <2>1
<1>. QED  BY <1>3

-----------------------------------------------------------------------------
(* Whole numbers: division, and the full hours.                            *)
LEMMA Times == ASSUME NEW a \in Int, NEW b \in Int, NEW n \in Nat \ {0}
               PROVE  /\ a <= b <=> a * n <= b * n
                      /\ a < b <=> a * n < b * n
                      /\ (a + 1) * n = a * n + n
OBVIOUS

(* A number is its quotient times the divisor plus the rest.               *)
LEMMA Quotient ==
  ASSUME NEW x \in Nat, NEW n \in Nat \ {0}
  PROVE  /\ x \div n \in Nat /\ x % n \in 0 .. n - 1
         /\ x = (x \div n) * n + (x % n)
OBVIOUS

(* Division rounds down: what it reaches, the dividend reaches.            *)
LEMMA DivBound ==
  ASSUME NEW x \in Nat, NEW n \in Nat \ {0}, NEW k \in Nat
  PROVE  k <= x \div n <=> k * n <= x
<1> DEFINE q == x \div n
           r == x % n
<1>1. q \in Nat /\ r \in 0 .. n - 1 /\ x = q * n + r
  BY Quotient
<1> HIDE DEF q, r
<1>2. k <= q => k * n <= q * n
  BY <1>1, Times
<1>3. ~(k <= q) => (q + 1) * n <= k * n /\ (q + 1) * n = q * n + n
  BY <1>1, Times
<1>4. q * n \in Nat /\ k * n \in Nat
  BY <1>1
<1>. QED  BY <1>1, <1>2, <1>3, <1>4 DEF q

FullHour(t) == \E q \in Nat : t = q * Hour

(* timestamp.Truncate(time.Hour) is the last full hour not after the time. *)
LEMMA TruncateHour ==
  ASSUME NEW t \in Nat
  PROVE  /\ Truncate(t) \in Nat /\ FullHour(Truncate(t))
         /\ Truncate(t) <= t /\ t < Truncate(t) + Hour
<1>1. Hour \in Nat \ {0}
  BY GraphAssumption
<1> DEFINE q == t \div Hour
           r == t % Hour
<1>2. q \in Nat /\ r \in 0 .. Hour - 1 /\ t = q * Hour + r
  BY <1>1, Quotient
<1>3. Truncate(t) = t - r
  BY DEF Truncate
<1> HIDE DEF q, r
<1>4. q * Hour \in Nat
  BY <1>1, <1>2
<1>5. Truncate(t) = q * Hour
  BY <1>1, <1>2, <1>3, <1>4
<1>6. FullHour(Truncate(t))
  BY <1>2, <1>5 DEF FullHour
<1>. QED  BY <1>1, <1>2, <1>4, <1>5, <1>6

(* Full hours are at least an hour apart.                                  *)
LEMMA NextHour ==
  ASSUME NEW s, NEW t, FullHour(s), FullHour(t), s < t
  PROVE  s \in Nat /\ t \in Nat /\ s + Hour <= t
<1>1. Hour \in Nat \ {0}
  BY GraphAssumption
<1>2. PICK p \in Nat : s = p * Hour
  BY DEF FullHour
<1>3. PICK q \in Nat : t = q * Hour
  BY DEF FullHour
<1>4. p < q /\ p * Hour \in Nat /\ q * Hour \in Nat
  BY <1>1, <1>2, <1>3, Times
<1>5. (p + 1) * Hour <= q * Hour /\ (p + 1) * Hour = p * Hour + Hour
  BY <1>1, <1>4, Times
<1>. QED  BY <1>2, <1>3, <1>4, <1>5

(* A time is in the hour that it is truncated to, and in no other.         *)
LEMMA InItsHour ==
  ASSUME NEW t \in Nat, NEW s, FullHour(s)
  PROVE  s \in Nat /\ (Truncate(t) = s <=> s <= t /\ t < s + Hour)
<1>1. Hour \in Nat \ {0}
  BY GraphAssumption
<1>2. s \in Nat
  <2>1. PICK q \in Nat : s = q * Hour
    BY DEF FullHour
  <2>. QED  BY <1>1, <2>1
<1>3. /\ Truncate(t) \in Nat /\ FullHour(Truncate(t))
      /\ Truncate(t) <= t /\ t < Truncate(t) + Hour
  BY TruncateHour
<1>4. Truncate(t) < s => Truncate(t) + Hour <= s
  BY <1>3, NextHour
<1>5. s < Truncate(t) => s + Hour <= Truncate(t)
  BY <1>3, NextHour
<1>. QED  BY <1>1, <1>2, <1>3, <1>4, <1>5

(* A later time is not in an earlier hour.                                 *)
LEMMA TruncateMonotone ==
  ASSUME NEW t \in Nat, NEW u \in Nat, t <= u
  PROVE  Truncate(t) <= Truncate(u)
<1>1. Truncate(u) < Truncate(t) => Truncate(u) + Hour <= Truncate(t)
  BY TruncateHour, NextHour
<1>. QED  BY <1>1, TruncateHour, GraphAssumption

-----------------------------------------------------------------------------
(* Pieces of a sequence, one after the other, are its beginning.           *)
LEMMA FlattenPieces ==
  ASSUME NEW S, NEW c \in Seq(S), NEW n \in Nat, NEW f \in [0 .. n -> 0 .. Len(c)],
         f[0] = 0, \A i \in 1 .. n : f[i - 1] <= f[i]
  PROVE  FlattenSeq([i \in 1 .. n |-> SubSeq(c, f[i - 1] + 1, f[i])]) = SubSeq(c, 1, f[n])
<1> DEFINE ss == [i \in 1 .. n |-> SubSeq(c, f[i - 1] + 1, f[i])]
           Step(h) == [i \in 1 .. Len(ss) |-> IF i = 1 THEN ss[i] ELSE h[i - 1] \o ss[i]]
           g == [i \in 1 .. n |-> SubSeq(c, 1, f[i])]
<1>1. Len(ss) = n /\ DOMAIN ss = 1 .. n
  OBVIOUS
<1>2. ASSUME NEW i \in 1 .. n, i # 1
      PROVE  SubSeq(c, 1, f[i - 1]) \o ss[i] = SubSeq(c, 1, f[i])
  <2>1. i - 1 \in 0 .. n /\ i \in 0 .. n
    BY <1>2
  <2>2. f[i - 1] \in 0 .. Len(c) /\ f[i] \in f[i - 1] .. Len(c) /\ 1 \in 1 .. Len(c) + 1
    BY <2>1
  <2>3. SubSeq(c, 1, f[i - 1]) \o SubSeq(c, f[i - 1] + 1, f[i]) = SubSeq(c, 1, f[i])
    <3>1. Len(c) \in Nat /\ f[i - 1] \in 1 - 1 .. Len(c)
      BY <2>2
    <3>. QED  BY <2>2, <3>1, ConcatAdjacentSubSeq
  <2>. QED  BY <2>3
<1>3. 1 \in 1 .. n => ss[1] = SubSeq(c, 1, f[1])
  OBVIOUS
<1>4. g = Step(g)
  <2>1. ASSUME NEW i \in 1 .. n
        PROVE  g[i] = IF i = 1 THEN ss[i] ELSE g[i - 1] \o ss[i]
    <3>1. CASE i = 1
      BY <1>3, <3>1
    <3>2. CASE i # 1
      <4>1. i - 1 \in 1 .. n
        BY <3>2
      <4> HIDE DEF ss
      <4>. QED  BY <1>2, <3>2, <4>1
    <3>. QED  BY <3>1, <3>2
  <2>2. g = [i \in 1 .. n |-> SubSeq(c, 1, f[i])]
    OBVIOUS
  <2> HIDE DEF ss, g
  <2>3. DOMAIN g = 1 .. n /\ g = [i \in 1 .. n |-> g[i]]
    BY <2>2
  <2>4. [i \in 1 .. n |-> g[i]] = [i \in 1 .. Len(ss) |-> IF i = 1 THEN ss[i] ELSE g[i - 1] \o ss[i]]
    BY <1>1, <2>1
  <2>. QED  BY <2>3, <2>4
<1> DEFINE h == CHOOSE h : h = Step(h)
<1> HIDE DEF g
<1>5. h = Step(h)
  BY <1>4
<1> HIDE DEF h
<1>6. ASSUME NEW i \in 1 .. n, \A j \in 1 .. n : j < i => h[j] = SubSeq(c, 1, f[j])
      PROVE  h[i] = SubSeq(c, 1, f[i])
  <2>1. h[i] = IF i = 1 THEN ss[i] ELSE h[i - 1] \o ss[i]
    <3> HIDE DEF ss
    <3>. QED  BY <1>1, <1>5
  <2>2. CASE i = 1
    BY <1>3, <2>1, <2>2
  <2>3. CASE i # 1
    <3>1. i - 1 \in 1 .. n /\ i - 1 < i
      BY <2>3
    <3>2. h[i - 1] = SubSeq(c, 1, f[i - 1])
      BY <1>6, <3>1
    <3> HIDE DEF ss
    <3>. QED  BY <1>2, <2>1, <2>3, <3>2
  <2>. QED  BY <2>2, <2>3
<1>7. \A i \in 1 .. n : h[i] = SubSeq(c, 1, f[i])
  <2> DEFINE T == {i \in 1 .. n : h[i] # SubSeq(c, 1, f[i])}
  <2>1. T \in SUBSET Nat
    OBVIOUS
  <2>2. ASSUME NEW i \in T, \A j \in T : i <= j PROVE FALSE
    <3>1. \A j \in 1 .. n : j < i => h[j] = SubSeq(c, 1, f[j])
      BY <2>2
    <3>. QED  BY <1>6, <3>1
  <2>3. T = {}
    BY <2>1, <2>2, LeastNat
  <2>. QED  BY <2>3
<1>8. FlattenSeq(ss) = IF n = 0 THEN ss ELSE h[n]
  <2> HIDE DEF ss
  <2>. QED  BY <1>1 DEF FlattenSeq, h
<1>9. CASE n = 0
  <2>1. ss = << >> /\ SubSeq(c, 1, f[n]) = << >>
    BY <1>9
  <2>. QED  BY <1>8, <1>9, <2>1
<1>10. CASE n # 0
  <2>1. n \in 1 .. n
    BY <1>10
  <2>2. h[n] = SubSeq(c, 1, f[n])
    BY <1>7, <2>1
  <2> HIDE DEF ss
  <2>3. FlattenSeq(ss) = SubSeq(c, 1, f[n])
    BY <1>8, <1>10, <2>2
  <2>. QED  BY <2>3 DEF ss
<1>. QED  BY <1>9, <1>10


-----------------------------------------------------------------------------
(* The first loop: reports into data points.                               *)

(* The reports of the database, in order.                                  *)
Sorted ==
  /\ conditions \in Seq(Report)
  /\ \A i, j \in 1 .. Len(conditions) : i <= j => conditions[i].ts <= conditions[j].ts

Data  == {calculateGraphDataPoint(s) : s \in Seq(Report)}
Point == [start : Nat, data : Data, reports : Seq(Report)]

(* d has the data points of the first m reports, which are cut after the   *)
(* report number f[i] for the i-th of them: where the hour changes.        *)
Cuts(d, f, m) ==
  /\ d \in Seq(Point) /\ m \in 0 .. Len(conditions)
  /\ f \in [0 .. Len(d) -> 0 .. Len(conditions)] /\ f[0] = 0 /\ f[Len(d)] = m
  /\ \A i \in 1 .. Len(d) :
       /\ f[i - 1] < f[i] /\ d[i].reports = SubSeq(conditions, f[i - 1] + 1, f[i])
       /\ d[i].data = calculateGraphDataPoint(d[i].reports)
       /\ FullHour(d[i].start)
       /\ \A j \in f[i - 1] + 1 .. f[i] : Truncate(conditions[j].ts) = d[i].start
       /\ \A k \in 1 .. Len(d) : i < k => d[i].start < d[k].start
  /\ \A j \in 1 .. m : \E i \in 1 .. Len(d) : d[i].start = Truncate(conditions[j].ts)

Reading(f, m) ==
  /\ Cuts(dataPoints, f, m)
  /\ next \in 1 .. Len(conditions) + 1 /\ m <= next - 1
  /\ thisHour = SubSeq(conditions, m + 1, next - 1)
  /\ m = next - 1 => next = 1 /\ startTime = NoHour
  /\ \A j \in m + 1 .. next - 1 : Truncate(conditions[j].ts) = startTime
  /\ \A i \in 1 .. Len(dataPoints) : dataPoints[i].start < startTime

ReadInv ==
  /\ Sorted
  /\ pc = "read" => \E f, m : Reading(f, m)
  /\ pc # "read" => \E f : Cuts(dataPoints, f, Len(conditions))

(* Times are whole numbers.                                                *)
LEMMA ReportTime == \A r \in Report : r.ts \in Nat
BY GraphAssumption DEF Report

(* Each row selected is a report.                                          *)
LEMMA ReportAt ==
  ASSUME Sorted, NEW i \in 1 .. Len(conditions)
  PROVE  conditions[i] \in Report /\ conditions[i].ts \in Nat
<1>1. conditions[i] \in Report
  BY DEF Sorted
<1>. QED  BY <1>1, GraphAssumption DEF Report

(* Neighbours in order are all in order. *)
LEMMA InitSorted == Init => Sorted
<1> SUFFICES ASSUME Init PROVE Sorted
  OBVIOUS
<1> DEFINE c == conditions
           L == Len(conditions)
           T == {n \in Nat : \E i \in 1 .. L : i + n \in 1 .. L /\ ~(c[i].ts <= c[i + n].ts)}
<1>1. c \in Seq(Report) /\ \A i \in 1 .. L - 1 : c[i].ts <= c[i + 1].ts
  BY GraphAssumption DEF Init, BoundedSeq, SeqOf
<1>2. \A i \in 1 .. L : c[i].ts \in Nat
  BY <1>1, ReportTime, ElementOfSeq
<1>3. L \in Nat
  BY <1>1
<1> HIDE DEF c, L
<1>4. ASSUME NEW n \in T, \A k \in T : n <= k PROVE FALSE
  <2>1. PICK i \in 1 .. L : i + n \in 1 .. L /\ ~(c[i].ts <= c[i + n].ts)
    OBVIOUS
  <2>2. n # 0
    BY <1>2, <2>1
  <2>3. n - 1 \in Nat /\ n \in Nat
    BY <2>2
  <2>4. n - 1 \notin T
    <3> HIDE DEF T
    <3>. QED  BY <1>4, <2>3
  <2> DEFINE j == i + (n - 1)
  <2>5. j \in 1 .. L - 1 /\ j \in 1 .. L /\ j + 1 = i + n
    BY <1>3, <2>1, <2>3
  <2>6. c[i].ts <= c[j].ts
    BY <2>3, <2>4, <2>5
  <2> HIDE DEF j
  <2>7. c[j].ts <= c[i + n].ts
    BY <1>1, <2>5
  <2>8. c[i].ts \in Nat /\ c[j].ts \in Nat /\ c[i + n].ts \in Nat
    BY <1>2, <2>1, <2>5
  <2>. QED  BY <2>1, <2>6, <2>7, <2>8
<1>5. T = {}
  BY <1>4, LeastNat
<1>6. ASSUME NEW i \in 1 .. L, NEW j \in 1 .. L, i <= j PROVE c[i].ts <= c[j].ts
  <2>1. j - i \in Nat /\ i + (j - i) = j
    BY <1>6
  <2>2. j - i \notin T
    BY <1>5
  <2>. QED  BY <2>1, <2>2
<1>. QED  BY <1>1, <1>6 DEF Sorted, c, L

(* Flushing the current hour gives the data points of all reports read so  *)
(* far, none later than the hour that ends.                                *)
LEMMA FlushedPoints ==
  ASSUME Sorted, NEW f, NEW m, Reading(f, m)
  PROVE  /\ \E g : Cuts(Flushed, g, next - 1)
         /\ \A i \in 1 .. Len(Flushed) :
              Flushed[i].start <= startTime /\ Flushed[i].start \in Nat
         /\ next = 1 => Flushed = << >>
<1> DEFINE d == dataPoints
           L == Len(dataPoints)
           N == Len(conditions)
           p == [start |-> startTime, data |-> calculateGraphDataPoint(thisHour), reports |-> thisHour]
<1>1. /\ d \in Seq(Point) /\ L \in Nat /\ N \in Nat /\ m \in 0 .. N
      /\ f \in [0 .. L -> 0 .. N] /\ f[0] = 0 /\ f[L] = m
      /\ next \in 1 .. N + 1 /\ m <= next - 1
      /\ \A i \in 1 .. L : d[i].start < startTime /\ d[i].start \in Nat
  <2>1. d \in Seq(Point) /\ conditions \in Seq(Report)
    BY DEF Reading, Cuts, Sorted
  <2>2. L \in Nat /\ N \in Nat
    BY <2>1
  <2>3. \A i \in 1 .. L : d[i] \in Point
    BY <2>1, ElementOfSeq
  <2>4. /\ m \in 0 .. N /\ f \in [0 .. L -> 0 .. N] /\ f[0] = 0 /\ f[L] = m
        /\ next \in 1 .. N + 1 /\ m <= next - 1
        /\ \A i \in 1 .. L : d[i].start < startTime
    BY DEF Reading, Cuts
  <2>. QED  BY <2>1, <2>2, <2>3, <2>4 DEF Point
<1>0. L \in Nat /\ N \in Nat
  BY <1>1
<1>2. /\ thisHour \in Seq(Report) /\ Len(thisHour) = (next - 1) - m
      /\ thisHour = SubSeq(conditions, m + 1, next - 1)
  <2>1. thisHour = SubSeq(conditions, m + 1, next - 1)
    BY DEF Reading
  <2>2. m + 1 \in Int /\ next - 1 \in Int /\ \A i \in m + 1 .. next - 1 : i \in 1 .. N
    BY <1>1
  <2>3. \A i \in m + 1 .. next - 1 : conditions[i] \in Report
    BY <2>2, ReportAt
  <2>4. /\ thisHour \in Seq(Report)
        /\ Len(thisHour) = IF m + 1 <= next - 1 THEN (next - 1) - (m + 1) + 1 ELSE 0
    BY <2>1, <2>2, <2>3, SubSeqProperties
  <2>. QED  BY <1>1, <2>1, <2>4
<1>3. CASE thisHour = << >>
  <2>1. m = next - 1 /\ Flushed = d
    <3>1. (next - 1) - m = 0
      BY <1>2, <1>3
    <3>. QED  BY <1>1, <1>3, <3>1 DEF Flushed
  <2>2. next = 1 /\ startTime = -1
    BY <2>1 DEF Reading, NoHour
  <2>3. L = 0
    BY <1>1, <2>2
  <2>. QED  BY <1>1, <2>1, <2>3 DEF Reading
<1>4. CASE thisHour # << >>
  <2>1. m < next - 1 /\ next - 1 \in 1 .. N
    BY <1>1, <1>2, <1>4
  <2>2. /\ conditions[next - 1].ts \in Nat
        /\ Truncate(conditions[next - 1].ts) = startTime
    BY <1>1, <2>1, ReportAt DEF Reading
  <2>3. startTime \in Nat /\ FullHour(startTime)
    BY <2>2, TruncateHour
  <2>4. p \in Point
    BY <1>2, <2>3 DEF Point, Data
  <2>5. Flushed = Append(d, p)
    BY <1>4 DEF Flushed
  <2> DEFINE D == Append(d, p)
             g == [i \in 0 .. L + 1 |-> IF i <= L THEN f[i] ELSE next - 1]
  <2>6. /\ D \in Seq(Point) /\ Len(D) = L + 1 /\ D[L + 1] = p
        /\ \A i \in 1 .. L : D[i] = d[i]
    BY <1>1, <2>4, AppendProperties
  <2>7. /\ g \in [0 .. L + 1 -> 0 .. N] /\ g[L + 1] = next - 1 /\ g[0] = 0
        /\ \A i \in 0 .. L : g[i] = f[i]
    BY <1>1, <2>1
  <2>8. p.start = startTime /\ p.reports = thisHour /\ p.data = calculateGraphDataPoint(thisHour)
    OBVIOUS
  <2> HIDE DEF D, g, p
  <2>9. ASSUME NEW i \in 1 .. L + 1
        PROVE  /\ g[i - 1] < g[i] /\ D[i].reports = SubSeq(conditions, g[i - 1] + 1, g[i])
               /\ D[i].data = calculateGraphDataPoint(D[i].reports)
               /\ FullHour(D[i].start)
               /\ \A j \in g[i - 1] + 1 .. g[i] : Truncate(conditions[j].ts) = D[i].start
               /\ \A k \in 1 .. L + 1 : i < k => D[i].start < D[k].start
    <3>1. CASE i = L + 1
      <4>1. g[i - 1] = m /\ g[i] = next - 1 /\ D[i] = p
        BY <1>1, <2>6, <2>7, <3>1
      <4>2. \A k \in 1 .. L + 1 : ~(i < k)
        BY <1>1, <3>1
      <4>. QED  BY <1>2, <2>1, <2>3, <2>8, <4>1, <4>2 DEF Reading
    <3>2. CASE i \in 1 .. L
      <4>1. i - 1 \in 0 .. L /\ g[i - 1] = f[i - 1] /\ g[i] = f[i] /\ D[i] = d[i]
        BY <1>1, <2>6, <2>7, <3>2
      <4>2. \A k \in 1 .. L + 1 : i < k => D[i].start < D[k].start
        <5> SUFFICES ASSUME NEW k \in 1 .. L + 1, i < k PROVE D[i].start < D[k].start
          OBVIOUS
        <5>1. CASE k = L + 1
          BY <1>1, <2>6, <2>8, <3>2, <4>1, <5>1
        <5>2. CASE k \in 1 .. L
          BY <2>6, <3>2, <4>1, <5>2 DEF Reading, Cuts
        <5>. QED  BY <1>0, <5>1, <5>2
      <4>. QED  BY <3>2, <4>1, <4>2 DEF Reading, Cuts
    <3>. QED  BY <1>1, <3>1, <3>2
  <2>10. ASSUME NEW j \in 1 .. next - 1
         PROVE  \E i \in 1 .. L + 1 : D[i].start = Truncate(conditions[j].ts)
    <3>1. CASE j \in 1 .. m
      <4>1. PICK i \in 1 .. L : d[i].start = Truncate(conditions[j].ts)
        BY <3>1 DEF Reading, Cuts
      <4>. QED  BY <1>1, <2>6, <4>1
    <3>2. CASE j \in m + 1 .. next - 1
      <4>1. Truncate(conditions[j].ts) = startTime
        BY <3>2 DEF Reading
      <4>2. L + 1 \in 1 .. L + 1
        BY <1>1
      <4>. QED  BY <2>6, <2>8, <4>1, <4>2
    <3>. QED  BY <1>1, <2>1, <3>1, <3>2
  <2>11. Cuts(D, g, next - 1)
    <3>1. next - 1 \in 0 .. N
      BY <1>1
    <3>. QED  BY <2>6, <2>7, <2>9, <2>10, <3>1 DEF Cuts
  <2>12. \A i \in 1 .. Len(D) : D[i].start <= startTime /\ D[i].start \in Nat
    BY <1>1, <2>3, <2>6, <2>8
  <2>13. Flushed = D /\ next # 1
    BY <1>1, <2>1, <2>5 DEF D
  <2>. QED  BY <2>11, <2>12, <2>13
<1>. QED  BY <1>3, <1>4

(* A report of the current hour joins it; one of a later hour ends it.     *)
LEMMA ReadConditionInv ==
  ASSUME ReadInv, ReadCondition
  PROVE  ReadInv'
<1> DEFINE c == conditions[next]
           N == Len(conditions)
<1>1. PICK f, m : Reading(f, m)
  BY DEF ReadInv, ReadCondition
<1>2. /\ Sorted /\ pc = "read" /\ next <= N /\ next' = next + 1
      /\ UNCHANGED <<pc, conditions>>
  BY DEF ReadInv, ReadCondition
<1>3. N \in Nat /\ next \in 1 .. N /\ m \in 0 .. next - 1 /\ conditions \in Seq(Report)
  <2>1. conditions \in Seq(Report) /\ N \in Nat
    BY <1>2 DEF Sorted
  <2>2. next \in 1 .. N + 1 /\ m \in 0 .. N /\ m <= next - 1
    BY <1>1 DEF Reading, Cuts
  <2>. QED  BY <1>2, <2>1, <2>2
<1>4. c.ts \in Nat /\ c \in Report /\ Truncate(c.ts) \in Nat /\ FullHour(Truncate(c.ts))
  BY <1>2, <1>3, ReportAt, TruncateHour
<1>5. Sorted'
  BY <1>2 DEF Sorted
<1> SUFFICES \E f2, m2 : Reading(f2, m2)'
  BY <1>2, <1>5 DEF ReadInv
<1>6. CASE Truncate(c.ts) # startTime
  <2>1. /\ dataPoints' = Flushed /\ startTime' = Truncate(c.ts) /\ thisHour' = <<c>>
    BY <1>6 DEF ReadCondition
  <2>2. PICK g : Cuts(Flushed, g, next - 1)
    BY <1>1, <1>2, FlushedPoints
  <2>3. ASSUME NEW i \in 1 .. Len(Flushed) PROVE Flushed[i].start < Truncate(c.ts)
    <3>1. /\ Flushed[i].start <= startTime /\ Flushed[i].start \in Nat
      BY <1>1, <1>2, FlushedPoints
    <3>2. next # 1
      <4>1. next = 1 => Flushed = << >>
        BY <1>1, <1>2, FlushedPoints
      <4>2. Flushed # << >>
        OBVIOUS
      <4>. QED  BY <4>1, <4>2
    <3>3. next - 1 \in 1 .. N /\ next - 1 <= next
      BY <1>3, <3>2
    <3>4. m # next - 1
      BY <1>1, <3>2 DEF Reading
    <3>5. Truncate(conditions[next - 1].ts) = startTime
      <4>1. next - 1 \in m + 1 .. next - 1
        BY <1>3, <3>4
      <4>. QED  BY <1>1, <4>1 DEF Reading
    <3>6. conditions[next - 1].ts \in Nat /\ conditions[next - 1].ts <= c.ts
      BY <1>2, <1>3, <3>3, ReportAt DEF Sorted
    <3>7. startTime <= Truncate(c.ts) /\ startTime \in Nat
      BY <1>4, <3>5, <3>6, TruncateMonotone, TruncateHour
    <3>. QED  BY <1>4, <1>6, <3>1, <3>7
  <2>4. <<c>> = SubSeq(conditions, next, next)
    BY <1>3
  <2> HIDE DEF c
  <2>5. PICK k : k = next - 1
    OBVIOUS
  <2>6. Reading(g, k)'
    <3>1. Cuts(dataPoints, g, k)'
      BY <1>2, <2>1, <2>2, <2>5 DEF Cuts
    <3>2. /\ next' \in 1 .. Len(conditions') + 1 /\ k <= next' - 1
          /\ thisHour' = SubSeq(conditions', k + 1, next' - 1) /\ k # next' - 1
      BY <1>2, <1>3, <2>1, <2>4, <2>5
    <3>3. \A j \in k + 1 .. next' - 1 : Truncate(conditions'[j].ts) = startTime'
      BY <1>2, <1>3, <2>1, <2>5 DEF c
    <3>4. \A i \in 1 .. Len(dataPoints') : dataPoints'[i].start < startTime'
      BY <2>1, <2>3
    <3>. QED  BY <3>1, <3>2, <3>3, <3>4 DEF Reading, Truncate
  <2>. QED  BY <2>6
<1>7. CASE Truncate(c.ts) = startTime
  <2>1. thisHour' = Append(thisHour, c) /\ UNCHANGED <<dataPoints, startTime>>
    BY <1>7 DEF ReadCondition
  <2>2. startTime # NoHour
    BY <1>4, <1>7 DEF NoHour
  <2>3. m # next - 1
    BY <1>1, <2>2 DEF Reading
  <2>4. thisHour = SubSeq(conditions, m + 1, next - 1)
    BY <1>1 DEF Reading
  <2>5. SubSeq(conditions, m + 1, next) = Append(SubSeq(conditions, m + 1, next - 1), c)
    <3>1. m + 1 \in 1 .. N /\ next \in m + 1 .. N
      BY <1>3, <2>3
    <3>2. SubSeq(conditions, m + 1, next) = SubSeq(conditions, m + 1, next - 1) \o <<c>>
      BY <1>3, <3>1, SubSeqRecursiveSecond
    <3>3. \A i \in m + 1 .. next - 1 : i \in 1 .. N
      BY <1>3
    <3>4. SubSeq(conditions, m + 1, next - 1) \in Seq(Report)
      BY <1>2, <1>3, <3>3, ReportAt, SubSeqProperties
    <3>. QED  BY <1>4, <3>2, <3>4, AppendIsConcat
  <2> HIDE DEF c
  <2>6. Reading(f, m)'
    <3>1. Cuts(dataPoints, f, m)'
      BY <1>1, <1>2, <2>1 DEF Cuts, Reading
    <3>2. next' \in 1 .. Len(conditions') + 1 /\ m <= next' - 1
      BY <1>2, <1>3
    <3>5. thisHour' = SubSeq(conditions', m + 1, next' - 1) /\ m # next' - 1
      BY <1>2, <1>3, <2>1, <2>4, <2>5
    <3>3. \A j \in m + 1 .. next' - 1 : Truncate(conditions'[j].ts) = startTime'
      <4> SUFFICES ASSUME NEW j \in m + 1 .. next PROVE Truncate(conditions[j].ts) = startTime
        BY <1>2, <1>3, <2>1
      <4>1. CASE j = next
        BY <1>7, <4>1 DEF c
      <4>2. CASE j \in m + 1 .. next - 1
        BY <1>1, <4>2 DEF Reading
      <4>. QED  BY <1>3, <4>1, <4>2
    <3>4. \A i \in 1 .. Len(dataPoints') : dataPoints'[i].start < startTime'
      BY <1>1, <2>1 DEF Reading
    <3>. QED  BY <3>1, <3>2, <3>3, <3>4, <3>5 DEF Reading, Truncate
  <2>. QED  BY <2>6
<1>. QED  BY <1>6, <1>7

(* Every step keeps ReadInv; after the first loop only pc matters to it.   *)
LEMMA ReadStep ==
  ASSUME ReadInv, [Next]_vars
  PROVE  ReadInv'
<1>1. CASE ReadDone
  <2>1. PICK f, m : Reading(f, m)
    BY <1>1 DEF ReadInv, ReadDone
  <2>2. Sorted /\ conditions \in Seq(Report)
    BY DEF ReadInv, Sorted
  <2>3. PICK g : Cuts(Flushed, g, next - 1)
    BY <2>1, <2>2, FlushedPoints
  <2>4. next - 1 = Len(conditions)
    <3>1. next \in 1 .. Len(conditions) + 1 /\ Len(conditions) \in Nat
      BY <2>1, <2>2 DEF Reading
    <3>. QED  BY <1>1, <3>1 DEF ReadDone
  <2>5. dataPoints' = Flushed /\ pc' = "filter" /\ conditions' = conditions
    BY <1>1 DEF ReadDone
  <2>6. Sorted' /\ Cuts(dataPoints, g, Len(conditions))'
    BY <2>2, <2>3, <2>4, <2>5 DEF Sorted, Cuts
  <2>. QED  BY <2>5, <2>6 DEF ReadInv
<1>2. CASE Filter \/ Emit \/ EmitDone
  <2>1. UNCHANGED <<conditions, dataPoints>> /\ pc # "read" /\ pc' # "read"
    BY <1>2 DEF Filter, Emit, EmitDone
  <2>2. PICK f : Cuts(dataPoints, f, Len(conditions))
    BY <2>1 DEF ReadInv
  <2>3. Sorted' /\ Cuts(dataPoints, f, Len(conditions))'
    BY <2>1, <2>2 DEF ReadInv, Sorted, Cuts
  <2>. QED  BY <2>1, <2>3 DEF ReadInv
<1>3. CASE UNCHANGED vars
  <2>1. UNCHANGED <<pc, conditions, next, thisHour, startTime, dataPoints>>
    BY <1>3 DEF vars
  <2>2. Sorted'
    BY <2>1 DEF ReadInv, Sorted
  <2>3. ASSUME NEW f, NEW m, Reading(f, m) PROVE Reading(f, m)'
    BY <2>1, <2>3 DEF Reading, Cuts
  <2>4. ASSUME NEW f, Cuts(dataPoints, f, Len(conditions))
        PROVE  Cuts(dataPoints, f, Len(conditions))'
    BY <2>1, <2>4 DEF Cuts
  <2>. QED  BY <2>1, <2>2, <2>3, <2>4 DEF ReadInv
<1>. QED  BY <1>1, <1>2, <1>3, ReadConditionInv DEF Next

(* The data points are always the reports read so far, cut by full hours.  *)
LEMMA ReadInvariant == Spec => []ReadInv
<1>1. Init => ReadInv
  <2> SUFFICES ASSUME Init PROVE ReadInv
    OBVIOUS
  <2>1. Sorted /\ pc = "read" /\ conditions \in Seq(Report) /\ Len(conditions) \in Nat
    BY InitSorted DEF Init, Sorted
  <2> DEFINE f == [i \in 0 .. 0 |-> 0]
  <2>2. dataPoints = << >> /\ next = 1 /\ thisHour = << >> /\ startTime = NoHour
    BY DEF Init
  <2>3. Cuts(dataPoints, f, 0)
    BY <2>1, <2>2 DEF Cuts
  <2>4. SubSeq(conditions, 0 + 1, 1 - 1) = << >>
    BY SubSeqEmpty
  <2>5. Reading(f, 0)
    BY <2>1, <2>2, <2>3, <2>4 DEF Reading
  <2>. QED  BY <2>1, <2>5 DEF ReadInv
<1>. QED  BY <1>1, ReadStep, PTL DEF Spec

(* Nothing is lost, repeated or put into a wrong hour, whatever the length  *)
(* of an hour and however many reports there are.                          *)
LEMMA CutsFlatten ==
  ASSUME Sorted, NEW f, NEW m, Cuts(dataPoints, f, m)
  PROVE  FlattenSeq(HoursOf) = SubSeq(conditions, 1, m)
<1> DEFINE L == Len(dataPoints)
<1>1. /\ L \in Nat /\ DOMAIN dataPoints = 1 .. L
      /\ f \in [0 .. L -> 0 .. Len(conditions)] /\ f[0] = 0 /\ f[L] = m
      /\ conditions \in Seq(Report)
  BY DEF Cuts, Sorted
<1>2. \A i \in 1 .. L : /\ f[i - 1] < f[i]
                        /\ dataPoints[i].reports = SubSeq(conditions, f[i - 1] + 1, f[i])
  BY DEF Cuts
<1>3. HoursOf = [i \in 1 .. L |-> SubSeq(conditions, f[i - 1] + 1, f[i])]
  BY <1>1, <1>2 DEF HoursOf
<1>4. \A i \in 1 .. L : f[i - 1] <= f[i]
  <2> SUFFICES ASSUME NEW i \in 1 .. L PROVE f[i - 1] <= f[i]
    OBVIOUS
  <2>1. i - 1 \in 0 .. L /\ i \in 0 .. L
    BY <1>1
  <2>2. f[i - 1] \in Nat /\ f[i] \in Nat
    BY <1>1, <2>1
  <2>. QED  BY <1>2, <2>2
<1>. QED  BY <1>1, <1>3, <1>4, FlattenPieces

(* The reports of a data point are of its hour, and hours go up.           *)
LEMMA CutsPartition ==
  ASSUME Sorted, NEW f, NEW m, Cuts(dataPoints, f, m), NEW i \in DOMAIN dataPoints
  PROVE  /\ \A j \in DOMAIN dataPoints[i].reports :
              Truncate(dataPoints[i].reports[j].ts) = dataPoints[i].start
         /\ i > 1 => dataPoints[i - 1].start < dataPoints[i].start
<1> DEFINE L == Len(dataPoints)
           N == Len(conditions)
<1>1. /\ L \in Nat /\ N \in Nat /\ DOMAIN dataPoints = 1 .. L /\ i \in 1 .. L
      /\ f \in [0 .. L -> 0 .. N]
  BY DEF Cuts, Sorted
<1>2. i - 1 \in 0 .. L /\ i \in 0 .. L
  BY <1>1
<1>3. f[i - 1] \in 0 .. N /\ f[i] \in 0 .. N
  BY <1>1, <1>2
<1>4. dataPoints[i].reports = SubSeq(conditions, f[i - 1] + 1, f[i])
  BY <1>1 DEF Cuts
<1>5. \A k \in f[i - 1] + 1 .. f[i] : conditions[k] \in Report
  BY <1>1, <1>3, ReportAt
<1>6. ASSUME NEW j \in DOMAIN dataPoints[i].reports
      PROVE  Truncate(dataPoints[i].reports[j].ts) = dataPoints[i].start
  <2>1. /\ j \in 1 .. f[i] - (f[i - 1] + 1) + 1
        /\ dataPoints[i].reports[j] = conditions[(f[i - 1] + 1) + j - 1]
    BY <1>3, <1>4, <1>5, SubSeqProperties
  <2>2. (f[i - 1] + 1) + j - 1 \in f[i - 1] + 1 .. f[i]
    BY <1>3, <2>1
  <2>. QED  BY <1>1, <2>1, <2>2 DEF Cuts
<1>7. i > 1 => dataPoints[i - 1].start < dataPoints[i].start
  <2>1. i > 1 => i - 1 \in 1 .. L /\ i - 1 < i
    BY <1>1
  <2>. QED  BY <1>1, <2>1 DEF Cuts
<1>. QED  BY <1>6, <1>7

(* While the first loop of generateIsuGraphResponse reads, nothing is lost, *)
(* repeated or put into a wrong hour, and after it (the last hour is       *)
(* flushed) the data points are all the reports in order.                  *)
THEOREM PointsPartition == Spec => []PointsPartitionReports
<1>1. ASSUME ReadInv PROVE PointsPartitionReports
  <2>1. Sorted /\ conditions \in Seq(Report)
    BY <1>1 DEF ReadInv, Sorted
  <2>2. CASE pc = "read"
    <3>1. PICK f, m : Reading(f, m)
      BY <1>1, <2>2 DEF ReadInv
    <3>2. /\ Cuts(dataPoints, f, m) /\ thisHour = SubSeq(conditions, m + 1, next - 1)
          /\ next \in 1 .. Len(conditions) + 1 /\ m <= next - 1 /\ m \in 0 .. Len(conditions)
      BY <3>1 DEF Reading, Cuts
    <3>3. FlattenSeq(HoursOf) = SubSeq(conditions, 1, m)
      BY <2>1, <3>2, CutsFlatten
    <3>4. SubSeq(conditions, 1, m) \o SubSeq(conditions, m + 1, next - 1)
            = SubSeq(conditions, 1, next - 1)
      <4>1. /\ 1 \in 1 .. Len(conditions) + 1 /\ m \in 1 - 1 .. Len(conditions)
            /\ next - 1 \in m .. Len(conditions)
        BY <2>1, <3>2
      <4>. QED  BY <2>1, <4>1, ConcatAdjacentSubSeq
    <3>. QED  BY <2>1, <2>2, <3>2, <3>3, <3>4, CutsPartition DEF PointsPartitionReports
  <2>3. CASE pc # "read"
    <3>1. PICK f : Cuts(dataPoints, f, Len(conditions))
      BY <1>1, <2>3 DEF ReadInv
    <3>2. FlattenSeq(HoursOf) = conditions
      BY <2>1, <3>1, CutsFlatten, SubSeqFull
    <3>. QED  BY <2>1, <2>3, <3>1, <3>2, CutsPartition DEF PointsPartitionReports
  <2>. QED  BY <2>2, <2>3
<1>. QED  BY <1>1, ReadInvariant, PTL


-----------------------------------------------------------------------------
(* The data of a data point: percentages.                                  *)

(* The number of a subset of 1 .. n; all and none are its extremes.        *)
LEMMA SubsetCount ==
  ASSUME NEW n \in Nat, NEW S \in SUBSET (1 .. n)
  PROVE  /\ IsFiniteSet(S) /\ Cardinality(S) \in 0 .. n
         /\ Cardinality(S) = n <=> S = 1 .. n
         /\ Cardinality(S) = 0 <=> S = {}
<1>1. IsFiniteSet(1 .. n) /\ Cardinality(1 .. n) = n
  BY FS_Interval
<1>2. IsFiniteSet(S) /\ Cardinality(S) <= n /\ (Cardinality(S) = n <=> S = 1 .. n)
  BY <1>1, FS_Subset
<1>3. Cardinality(S) \in Nat /\ (Cardinality(S) = 0 <=> S = {})
  BY <1>2, FS_CardinalityType, FS_EmptySet
<1>. QED  BY <1>2, <1>3

(* k of n in per cent, rounded down, is 100 only when k is n.              *)
LEMMA PercentOf ==
  ASSUME NEW n \in Nat \ {0}, NEW k \in 0 .. n
  PROVE  /\ (k * 100) \div n \in 0 .. 100
         /\ (k * 100) \div n = 100 <=> k = n
<1>1. k * 100 \in Nat /\ k * 100 <= n * 100 /\ (100 * n <= k * 100 <=> k = n)
  OBVIOUS
<1>2. ~(101 * n <= k * 100)
  BY <1>1
<1>3. (k * 100) \div n \in Nat
  BY <1>1, Quotient
<1>4. 100 <= (k * 100) \div n <=> 100 * n <= k * 100
  BY <1>1, DivBound
<1>5. 101 <= (k * 100) \div n <=> 101 * n <= k * 100
  BY <1>1, DivBound
<1> DEFINE q == (k * 100) \div n
<1> HIDE DEF q
<1>6. q \in Nat /\ ~(101 <= q) /\ (100 <= q <=> k = n)
  BY <1>1, <1>2, <1>3, <1>4, <1>5 DEF q
<1>7. q \in 0 .. 100 /\ (q = 100 <=> k = n)
  BY <1>6
<1>. QED  BY <1>7 DEF q

(* The score of n reports of which x, y, z are critical, warning and info. *)
LEMMA ScoreOf ==
  ASSUME NEW x \in Nat, NEW y \in Nat, NEW z \in Nat, NEW n \in Nat \ {0}, x + y + z = n
  PROVE  LET d == (((1 * x + 2 * y + 3 * z) * 100) \div 3) \div n
         IN  d \in 33 .. 100 /\ (d = 100 <=> z = n)
<1> DEFINE raw == 1 * x + 2 * y + 3 * z
           u == (raw * 100) \div 3
           d == u \div n
<1>1. raw \in Nat /\ n <= raw /\ raw <= 3 * n /\ (raw = 3 * n <=> z = n)
  OBVIOUS
<1> HIDE DEF raw
<1>2. /\ u \in Nat /\ \A k \in Nat : k <= u <=> 3 * k <= raw * 100
  BY <1>1, Quotient, DivBound
<1> HIDE DEF u
<1>3. /\ 33 * n \in Nat /\ 100 * n \in Nat /\ 101 * n \in Nat
  OBVIOUS
<1>4. 33 * n <= u
  BY <1>1, <1>2, <1>3
<1>5. 100 * n <= u <=> z = n
  BY <1>1, <1>2, <1>3
<1>6. ~(101 * n <= u)
  BY <1>1, <1>2, <1>3
<1>7. d \in Nat /\ \A k \in Nat : k <= d <=> k * n <= u
  BY <1>2, Quotient, DivBound
<1> HIDE DEF d
<1>8. 33 <= d /\ ~(101 <= d) /\ (100 <= d <=> z = n)
  BY <1>4, <1>5, <1>6, <1>7
<1>9. d \in 33 .. 100 /\ (d = 100 <=> z = n)
  BY <1>7, <1>8
<1>. QED  BY <1>9 DEF d, u, raw

(* A report is of exactly one of the three levels.                         *)
LEMMA BadCount ==
  ASSUME NEW r \in Report
  PROVE  /\ Bad(r) \in 0 .. 3
         /\ Bad(r) = 0 <=> \A k \in 1 .. 3 : ~r.flags[k]
<1> DEFINE S == {k \in 1 .. 3 : r.flags[k]}
<1>1. Cardinality(S) \in 0 .. 3 /\ (Cardinality(S) = 0 <=> S = {})
  BY SubsetCount
<1>. QED  BY <1>1 DEF Bad

(* What a report says.                                                     *)
LEMMA Flags == \A r \in Report : r.flags \in Condition /\ r.sitting \in BOOLEAN
BY GraphAssumption DEF Report

(* No flag is set where no "=true" is written. *)
LEMMA InfoIsClean ==
  ASSUME NEW c \in Condition
  PROVE  calculateConditionLevel(Rendered(c)) = "info" <=> \A k \in 1 .. 3 : ~c[k]
<1> DEFINE R == Rendered(c)
           W == {i \in 2 .. Len(R) : R[i - 1] \in Key /\ R[i] = "true"}
<1>1. /\ Len(R) = 8
      /\ R[1] = Keys[1] /\ R[3] = Comma /\ R[4] = Keys[2] /\ R[6] = Comma /\ R[7] = Keys[3]
      /\ R[2] = IF c[1] THEN "true" ELSE "false"
      /\ R[5] = IF c[2] THEN "true" ELSE "false"
      /\ R[8] = IF c[3] THEN "true" ELSE "false"
  BY DEF Rendered, Value
<1>2. /\ Keys[1] \in Key /\ Keys[2] \in Key /\ Keys[3] \in Key
      /\ Keys[1] # "true" /\ Keys[2] # "true" /\ Keys[3] # "true" /\ Comma # "true"
  BY DEF Key, Keys, Comma
<1> HIDE DEF R
<1>4. W = {} <=> \A k \in 1 .. 3 : ~c[k]
  <2>1. ASSUME NEW i \in W PROVE i \in {2, 5, 8} /\ R[i] = "true"
    <3>1. i \in 2 .. 8 /\ R[i] = "true"
      BY <1>1
    <3>. QED  BY <1>1, <1>2, <3>1
  <2>3. c[1] => 2 \in W
    BY <1>1, <1>2
  <2>4. c[2] => 5 \in W
    BY <1>1, <1>2
  <2>5. c[3] => 8 \in W
    BY <1>1, <1>2
  <2>6. ~c[1] /\ ~c[2] /\ ~c[3] => W = {}
    <3>1. ~c[1] /\ ~c[2] /\ ~c[3] => R[2] # "true" /\ R[5] # "true" /\ R[8] # "true"
      BY <1>1
    <3>. QED  BY <2>1, <3>1
  <2> HIDE DEF W
  <2>7. (\A k \in 1 .. 3 : ~c[k]) <=> ~c[1] /\ ~c[2] /\ ~c[3]
    OBVIOUS
  <2>. QED  BY <2>3, <2>4, <2>5, <2>6, <2>7
<1>5. WarnCount(Rendered(c)) = Cardinality(W)
  BY DEF WarnCount, R
<1>6. Cardinality(W) = 0 <=> W = {}
  <2>1. W \in SUBSET (1 .. 8)
    BY <1>1
  <2> HIDE DEF W
  <2>. QED  BY <2>1, SubsetCount
<1> HIDE DEF W
<1>7. calculateConditionLevel(Rendered(c)) = "info" <=> WarnCount(Rendered(c)) = 0
  BY DEF calculateConditionLevel
<1>. QED  BY <1>4, <1>5, <1>6, <1>7

Sound(d, s) ==
  /\ d.score \in 33 .. 100
  /\ d.score = 100 <=> \A j \in DOMAIN s : calculateConditionLevel(Rendered(s[j].flags)) = "info"
  /\ d.sitting \in 0 .. 100 /\ d.is_broken \in 0 .. 100
  /\ d.sitting = 100 <=> \A j \in DOMAIN s : s[j].sitting
  /\ d.is_broken = 100 <=> \A j \in DOMAIN s : s[j].flags[3]

LEMMA DataPointSound ==
  ASSUME NEW s \in Seq(Report), s # << >>
  PROVE  Sound(calculateGraphDataPoint(s), s)
<1> DEFINE n == Len(s)
           C == {i \in 1 .. n : Bad(s[i]) >= 3}
           W == {i \in 1 .. n : Bad(s[i]) \in 1 .. 2}
           I == {i \in 1 .. n : Bad(s[i]) = 0}
           T == {i \in 1 .. n : s[i].sitting}
           B == {i \in 1 .. n : s[i].flags[3]}
           d == calculateGraphDataPoint(s)
<1>1. n \in Nat \ {0} /\ DOMAIN s = 1 .. n /\ \A i \in 1 .. n : s[i] \in Report
  BY ElementOfSeq
<1>2. /\ Cardinality(C) \in 0 .. n /\ Cardinality(W) \in 0 .. n
      /\ IsFiniteSet(C) /\ IsFiniteSet(W) /\ IsFiniteSet(I)
      /\ Cardinality(I) \in 0 .. n /\ (Cardinality(I) = n <=> I = 1 .. n)
      /\ Cardinality(T) \in 0 .. n /\ (Cardinality(T) = n <=> T = 1 .. n)
      /\ Cardinality(B) \in 0 .. n /\ (Cardinality(B) = n <=> B = 1 .. n)
  <2>1. /\ C \in SUBSET (1 .. n) /\ W \in SUBSET (1 .. n) /\ I \in SUBSET (1 .. n)
        /\ T \in SUBSET (1 .. n) /\ B \in SUBSET (1 .. n)
    OBVIOUS
  <2> HIDE DEF C, W, I, T, B, n
  <2>. QED  BY <1>1, <2>1, SubsetCount
<1>3. Cardinality(C) + Cardinality(W) + Cardinality(I) = n
  <2>1. ASSUME NEW i \in 1 .. n
        PROVE  \/ i \in C /\ i \notin W /\ i \notin I
               \/ i \notin C /\ i \in W /\ i \notin I
               \/ i \notin C /\ i \notin W /\ i \in I
    BY <1>1, BadCount
  <2>2. C \cap W = {} /\ (C \cup W) \cap I = {} /\ (C \cup W) \cup I = 1 .. n
    BY <2>1
  <2> HIDE DEF C, W, I, n
  <2>0. /\ Cardinality(C) \in Nat /\ Cardinality(W) \in Nat /\ Cardinality(I) \in Nat
        /\ Cardinality({}) = 0
    BY <1>1, <1>2, FS_EmptySet
  <2>3. IsFiniteSet(C \cup W) /\ Cardinality(C \cup W) = Cardinality(C) + Cardinality(W)
    <3>1. /\ IsFiniteSet(C \cup W)
          /\ Cardinality(C \cup W) = Cardinality(C) + Cardinality(W) - Cardinality(C \cap W)
      BY <1>2, FS_Union
    <3>2. Cardinality(C \cap W) = 0
      BY <2>0, <2>2
    <3>. QED  BY <2>0, <3>1, <3>2
  <2>4. Cardinality((C \cup W) \cup I) = (Cardinality(C) + Cardinality(W)) + Cardinality(I)
    <3>1. Cardinality((C \cup W) \cup I)
            = Cardinality(C \cup W) + Cardinality(I) - Cardinality((C \cup W) \cap I)
      BY <1>2, <2>3, FS_Union
    <3>2. Cardinality((C \cup W) \cap I) = 0
      BY <2>0, <2>2
    <3>. QED  BY <2>0, <2>3, <3>1, <3>2
  <2>5. Cardinality(1 .. n) = n
    BY <1>1, FS_Interval
  <2>. QED  BY <2>2, <2>4, <2>5
<1>4. RawScore(s) = 1 * Cardinality(C) + 2 * Cardinality(W) + 3 * Cardinality(I)
  BY <1>1 DEF RawScore, Count
<1>5. /\ d.score = (((1 * Cardinality(C) + 2 * Cardinality(W) + 3 * Cardinality(I)) * 100) \div 3) \div n
  BY <1>4 DEF calculateGraphDataPoint, Score
<1>6. d.sitting = (Cardinality(T) * 100) \div n /\ d.is_broken = (Cardinality(B) * 100) \div n
  BY <1>1 DEF calculateGraphDataPoint, Percentage, Count
<1>7. /\ I = 1 .. n <=> \A j \in 1 .. n : calculateConditionLevel(Rendered(s[j].flags)) = "info"
  <2>1. ASSUME NEW j \in 1 .. n
        PROVE  j \in I <=> calculateConditionLevel(Rendered(s[j].flags)) = "info"
    <3>1. s[j] \in Report /\ s[j].flags \in Condition
      BY <1>1, Flags
    <3>. QED  BY <3>1, BadCount, InfoIsClean
  <2>2. I \subseteq 1 .. n
    OBVIOUS
  <2> HIDE DEF I
  <2>. QED  BY <2>1, <2>2
<1>8. (T = 1 .. n <=> \A j \in 1 .. n : s[j].sitting)
      /\ (B = 1 .. n <=> \A j \in 1 .. n : s[j].flags[3])
  OBVIOUS
<1> HIDE DEF C, W, I, T, B, d, n
<1>9. d.score \in 33 .. 100 /\ (d.score = 100 <=> I = 1 .. n)
  <2>1. PICK x, y, z : x = Cardinality(C) /\ y = Cardinality(W) /\ z = Cardinality(I)
    OBVIOUS
  <2>2. x \in Nat /\ y \in Nat /\ z \in Nat /\ x + y + z = n /\ n \in Nat \ {0}
    BY <1>1, <1>2, <1>3, <2>1
  <2>3. d.score = (((1 * x + 2 * y + 3 * z) * 100) \div 3) \div n
    BY <1>5, <2>1
  <2>4. z = n <=> I = 1 .. n
    BY <1>2, <2>1
  <2>5. d.score \in 33 .. 100 /\ (d.score = 100 <=> z = n)
    BY <2>2, <2>3, ScoreOf
  <2>. QED  BY <2>4, <2>5
<1>10. /\ d.sitting \in 0 .. 100 /\ (d.sitting = 100 <=> T = 1 .. n)
       /\ d.is_broken \in 0 .. 100 /\ (d.is_broken = 100 <=> B = 1 .. n)
  <2>1. PICK x, y : x = Cardinality(T) /\ y = Cardinality(B)
    OBVIOUS
  <2>2. x \in 0 .. n /\ y \in 0 .. n /\ (x = n <=> T = 1 .. n) /\ (y = n <=> B = 1 .. n)
    BY <1>2, <2>1
  <2>3. d.sitting = (x * 100) \div n /\ d.is_broken = (y * 100) \div n
    BY <1>6, <2>1
  <2>4. /\ (x * 100) \div n \in 0 .. 100 /\ ((x * 100) \div n = 100 <=> x = n)
        /\ (y * 100) \div n \in 0 .. 100 /\ ((y * 100) \div n = 100 <=> y = n)
    BY <1>1, <2>2, PercentOf
  <2>. QED  BY <2>2, <2>3, <2>4
<1>. QED  BY <1>1, <1>7, <1>8, <1>9, <1>10 DEF Sound, d

(* Rounding in calculateGraphDataPoint never makes some look like all: 100 *)
(* means every report of the hour, and an hour with reports scores 33 or   *)
(* more.                                                                   *)
THEOREM HundredPercentIsAll == Spec => []HundredMeansAll
<1>1. ASSUME Sorted, NEW f, NEW m, Cuts(dataPoints, f, m), NEW i \in DOMAIN dataPoints
      PROVE  Sound(dataPoints[i].data, dataPoints[i].reports)
  <2> DEFINE L == Len(dataPoints)
             N == Len(conditions)
  <2>1. /\ L \in Nat /\ N \in Nat /\ i \in 1 .. L /\ f \in [0 .. L -> 0 .. N]
        /\ dataPoints[i] \in Point
    BY <1>1, ElementOfSeq DEF Cuts, Sorted
  <2>2. /\ f[i - 1] < f[i] /\ dataPoints[i].reports = SubSeq(conditions, f[i - 1] + 1, f[i])
        /\ dataPoints[i].data = calculateGraphDataPoint(dataPoints[i].reports)
    BY <1>1, <2>1 DEF Cuts
  <2>3. f[i - 1] \in 0 .. N /\ f[i] \in 0 .. N
    BY <2>1
  <2>4. dataPoints[i].reports \in Seq(Report)
    BY <2>1 DEF Point
  <2>5. dataPoints[i].reports # << >>
    <3>1. \A k \in f[i - 1] + 1 .. f[i] : conditions[k] \in Report
      BY <1>1, <2>3, ReportAt
    <3>2. Len(SubSeq(conditions, f[i - 1] + 1, f[i])) = f[i] - (f[i - 1] + 1) + 1
      BY <2>2, <2>3, <3>1, SubSeqProperties
    <3>3. f[i] - (f[i - 1] + 1) + 1 # 0
      BY <2>2, <2>3
    <3>4. Len(dataPoints[i].reports) # 0
      BY <2>2, <3>2, <3>3, Zenon
    <3>5. Len(<< >>) = 0
      OBVIOUS
    <3>. QED  BY <3>4, <3>5, Zenon
  <2>. QED  BY <2>2, <2>4, <2>5, DataPointSound
<1>2. ASSUME ReadInv PROVE HundredMeansAll
  <2>1. \E f, m : Cuts(dataPoints, f, m)
    BY <1>2 DEF ReadInv, Reading
  <2>2. \A i \in DOMAIN dataPoints : Sound(dataPoints[i].data, dataPoints[i].reports)
    BY <1>1, <1>2, <2>1 DEF ReadInv
  <2>. QED  BY <2>2 DEF HundredMeansAll, Sound
<1>. QED  BY <1>2, ReadInvariant, PTL


-----------------------------------------------------------------------------
(* The second loop: the data points of the day.                            *)

(* The reports before a time are the first n, when they are the ones.      *)
LEMMA BeforeIs ==
  ASSUME Sorted, NEW t, NEW n \in 0 .. Len(conditions),
         \A j \in 1 .. Len(conditions) : conditions[j].ts < t <=> j <= n
  PROVE  Before(t) = n
<1>1. Len(conditions) \in Nat /\ DOMAIN conditions = 1 .. Len(conditions)
  BY DEF Sorted
<1>2. {i \in DOMAIN conditions : conditions[i].ts < t} = 1 .. n
  BY <1>1
<1>3. Cardinality(1 .. n) = n
  BY <1>1, FS_Interval
<1>. QED  BY <1>2, <1>3 DEF Before

(* The reports of a data point are those of its hour. *)
LEMMA PointHasHour ==
  ASSUME Sorted, NEW f, Cuts(dataPoints, f, Len(conditions)), NEW i \in 1 .. Len(dataPoints)
  PROVE  /\ dataPoints[i].reports = InHour(dataPoints[i].start)
         /\ InHour(dataPoints[i].start) # << >>
<1> DEFINE d == dataPoints
           L == Len(dataPoints)
           N == Len(conditions)
           t == d[i].start
           a == f[i - 1]
           b == f[i]
<1>1. /\ L \in Nat /\ N \in Nat /\ f \in [0 .. L -> 0 .. N] /\ f[L] = N /\ f[0] = 0
      /\ i - 1 \in 0 .. L /\ i \in 0 .. L /\ i \in 1 .. L /\ Hour \in Nat \ {0}
  BY GraphAssumption DEF Cuts, Sorted
<1>0. Hour \in Nat
  BY GraphAssumption
<1>2. /\ a < b /\ d[i].reports = SubSeq(conditions, a + 1, b) /\ FullHour(t)
      /\ \A j \in a + 1 .. b : Truncate(conditions[j].ts) = t
  BY DEF Cuts
<1>3. a \in 0 .. N /\ b \in 0 .. N
  BY <1>1
<1>4. t \in Nat
  <2>1. 0 \in Nat
    OBVIOUS
  <2>. QED  BY <1>2, <2>1, InItsHour
<1>5. \A j \in 1 .. N : conditions[j].ts \in Nat
  BY ReportAt
<1>6. \A j, k \in 1 .. N : j <= k => conditions[j].ts <= conditions[k].ts
  BY DEF Sorted
<1>7. /\ t <= conditions[a + 1].ts /\ conditions[b].ts < t + Hour
  <2>1. a + 1 \in 1 .. N /\ b \in 1 .. N /\ a + 1 \in a + 1 .. b /\ b \in a + 1 .. b
    BY <1>2, <1>3
  <2>2. Truncate(conditions[a + 1].ts) = t /\ Truncate(conditions[b].ts) = t
    BY <1>2, <2>1
  <2>. QED  BY <1>2, <1>5, <2>1, <2>2, InItsHour
<1>8. ASSUME a # 0 PROVE conditions[a].ts < t
  <2>1. i # 1 /\ i - 1 \in 1 .. L
    BY <1>1, <1>8
  <2>2. /\ f[(i - 1) - 1] < f[i - 1] /\ FullHour(d[i - 1].start) /\ d[i - 1].start < t
        /\ \A j \in f[(i - 1) - 1] + 1 .. f[i - 1] : Truncate(conditions[j].ts) = d[i - 1].start
    <3>1. i - 1 < i
      BY <1>1
    <3>. QED  BY <1>1, <2>1, <3>1 DEF Cuts
  <2>3. (i - 1) - 1 \in 0 .. L
    BY <1>1, <2>1
  <2>4. f[(i - 1) - 1] \in 0 .. N
    BY <1>1, <2>3
  <2>5. a \in f[(i - 1) - 1] + 1 .. f[i - 1] /\ a \in 1 .. N
    BY <1>3, <1>8, <2>2, <2>4
  <2>6. Truncate(conditions[a].ts) = d[i - 1].start /\ conditions[a].ts \in Nat
    BY <1>5, <2>2, <2>5
  <2>7. conditions[a].ts < d[i - 1].start + Hour /\ d[i - 1].start \in Nat
    BY <2>2, <2>6, InItsHour
  <2>8. d[i - 1].start + Hour <= t
    BY <1>2, <2>2, NextHour
  <2>. QED  BY <1>1, <1>4, <2>6, <2>7, <2>8
<1>9. ASSUME b # N PROVE t + Hour <= conditions[b + 1].ts
  <2>1. i + 1 \in 1 .. L /\ (i + 1) - 1 = i /\ i < i + 1
    <3>1. i # L
      BY <1>1, <1>9
    <3>. QED  BY <1>1, <3>1
  <2>2. /\ f[i] < f[i + 1] /\ FullHour(d[i + 1].start) /\ t < d[i + 1].start
        /\ \A j \in f[i] + 1 .. f[i + 1] : Truncate(conditions[j].ts) = d[i + 1].start
    BY <1>1, <2>1 DEF Cuts
  <2>3. f[i + 1] \in 0 .. N
    <3>1. i + 1 \in 0 .. L
      BY <1>1, <2>1
    <3>. QED  BY <1>1, <3>1
  <2>4. b + 1 \in f[i] + 1 .. f[i + 1] /\ b + 1 \in 1 .. N
    BY <1>3, <2>2, <2>3
  <2>5. Truncate(conditions[b + 1].ts) = d[i + 1].start /\ conditions[b + 1].ts \in Nat
    BY <1>5, <2>2, <2>4
  <2>6. d[i + 1].start <= conditions[b + 1].ts /\ d[i + 1].start \in Nat
    BY <2>2, <2>5, InItsHour
  <2>7. t + Hour <= d[i + 1].start
    BY <1>2, <2>2, NextHour
  <2>8. conditions[b + 1].ts \in Nat
    BY <2>5
  <2>. QED  BY <1>0, <1>4, <2>6, <2>7, <2>8
<1> HIDE DEF d, L, N, t, a, b
<1>10. ASSUME NEW j \in 1 .. N PROVE conditions[j].ts < t <=> j <= a
  <2>1. CASE j <= a
    <3>1. a # 0 /\ a \in 1 .. N
      BY <1>1, <1>3, <2>1
    <3>. QED  BY <1>4, <1>5, <1>6, <1>8, <2>1, <3>1
  <2>2. CASE ~(j <= a)
    <3>1. a + 1 \in 1 .. N /\ a + 1 <= j
      BY <1>1, <1>3, <2>2
    <3>. QED  BY <1>4, <1>5, <1>6, <1>7, <2>2, <3>1
  <2>. QED  BY <2>1, <2>2
<1>11. ASSUME NEW j \in 1 .. N PROVE conditions[j].ts < t + Hour <=> j <= b
  <2>1. CASE j <= b
    <3>1. b \in 1 .. N
      BY <1>1, <1>3, <2>1
    <3>2. conditions[j].ts <= conditions[b].ts /\ conditions[j].ts \in Nat /\ conditions[b].ts \in Nat
      BY <1>5, <1>6, <2>1, <3>1
    <3>3. conditions[b].ts < t + Hour
      BY <1>7
    <3>. QED  BY <1>0, <1>4, <2>1, <3>2, <3>3
  <2>2. CASE ~(j <= b)
    <3>1. b # N /\ b + 1 \in 1 .. N /\ b + 1 <= j
      BY <1>1, <1>3, <2>2
    <3>. QED  BY <1>1, <1>4, <1>5, <1>6, <1>9, <2>2, <3>1
  <2>. QED  BY <2>1, <2>2
<1>12. Before(t) = a /\ Before(t + Hour) = b
  BY <1>3, <1>10, <1>11, BeforeIs DEF N
<1>13. SubSeq(conditions, a + 1, b) # << >>
  <2>1. \A j \in a + 1 .. b : j \in 1 .. N
    BY <1>1, <1>3
  <2>2. \A j \in a + 1 .. b : conditions[j] \in Report
    BY <2>1, ReportAt DEF N
  <2>3. Len(SubSeq(conditions, a + 1, b)) = b - (a + 1) + 1
    BY <1>2, <1>3, <2>2, SubSeqProperties
  <2>4. Len(SubSeq(conditions, a + 1, b)) # 0
    BY <1>2, <1>3, <2>3
  <2>5. Len(<< >>) = 0
    OBVIOUS
  <2>. QED  BY <2>4, <2>5, Zenon
<1>14. d[i].reports = InHour(t) /\ InHour(t) # << >>
  BY <1>2, <1>12, <1>13 DEF InHour
<1>. QED  BY <1>14 DEF d, t

(* An hour that no data point is for has no reports. *)
LEMMA EmptyHour ==
  ASSUME Sorted, NEW f, Cuts(dataPoints, f, Len(conditions)), NEW t, FullHour(t),
         \A i \in 1 .. Len(dataPoints) : dataPoints[i].start # t
  PROVE  InHour(t) = << >>
<1> DEFINE N == Len(conditions)
<1>1. N \in Nat /\ DOMAIN conditions = 1 .. N /\ Hour \in Nat \ {0}
  BY GraphAssumption DEF Sorted
<1>2. ASSUME NEW j \in 1 .. N PROVE conditions[j].ts < t + Hour <=> conditions[j].ts < t
  <2>1. conditions[j].ts \in Nat
    BY ReportAt
  <2>2. Truncate(conditions[j].ts) # t
    BY DEF Cuts
  <2>. QED  BY <1>1, <2>1, <2>2, InItsHour
<1>3. Before(t + Hour) = Before(t)
  BY <1>1, <1>2 DEF Before
<1>4. Before(t) \in Nat
  <2> DEFINE S == {i \in DOMAIN conditions : conditions[i].ts < t}
  <2>1. S \in SUBSET (1 .. N)
    BY <1>1
  <2> HIDE DEF S
  <2>2. Cardinality(S) \in 0 .. N
    BY <1>1, <2>1, SubsetCount
  <2>. QED  BY <1>1, <2>2 DEF Before, S
<1>. QED  BY <1>3, <1>4, SubSeqEmpty DEF InHour

-----------------------------------------------------------------------------
(* Min finds the least.                                                    *)
LEMMA FirstOf ==
  ASSUME NEW I \in SUBSET Nat, I # {}
  PROVE  Min(I) \in I /\ \A k \in I : Min(I) <= k
<1>1. \E n \in I : \A m \in I : n <= m
  BY LeastNat
<1>. QED  BY <1>1 DEF Min

Day(t) == GraphDate <= t /\ t < GraphDate + Hours * Hour

(* startIndex is at the first data point not before the day.               *)
LEMMA StartIndexIs ==
  ASSUME dataPoints \in Seq(Point)
  PROVE  LET L == Len(dataPoints)
         IN  \/ StartIndex = 0 /\ \A k \in 1 .. L : ~(dataPoints[k].start >= GraphDate)
             \/ /\ StartIndex \in 1 .. L /\ dataPoints[StartIndex].start >= GraphDate
                /\ \A k \in 1 .. L : dataPoints[k].start >= GraphDate => StartIndex <= k
<1> DEFINE I == {k \in 1 .. Len(dataPoints) : dataPoints[k].start >= GraphDate}
<1>1. StartIndex = IF I # {} THEN Min(I) ELSE 0
  BY DEF StartIndex, SelectInSeq
<1>2. I \in SUBSET Nat
  OBVIOUS
<1>3. I # {} => Min(I) \in I /\ \A k \in I : Min(I) <= k
  BY <1>2, FirstOf
<1>. QED  BY <1>1, <1>3

(* endNextIndex is at a data point after the end of the day, if there is   *)
(* one.                                                                    *)
LEMMA EndNextIndexIs ==
  ASSUME dataPoints \in Seq(Point)
  PROVE  LET L == Len(dataPoints)
             e == GraphDate + Hours * Hour
         IN  \/ EndNextIndex = 0 /\ \A k \in 1 .. L : ~(dataPoints[k].start > e)
             \/ EndNextIndex \in 1 .. L /\ dataPoints[EndNextIndex].start > e
<1> DEFINE I == {k \in 1 .. Len(dataPoints) : dataPoints[k].start > GraphDate + Hours * Hour}
<1>1. EndNextIndex = IF I # {} THEN Min(I) ELSE 0
  BY DEF EndNextIndex, SelectInSeq
<1>2. I \in SUBSET Nat
  OBVIOUS
<1>3. I # {} => Min(I) \in I /\ \A k \in I : Min(I) <= k
  BY <1>2, FirstOf
<1>. QED  BY <1>1, <1>3

(* The data points of the day, and no earlier one, in order. *)
OfTheDay(s) ==
  /\ s \in Seq(Point)
  /\ \A i \in 1 .. Len(s) : \E k \in 1 .. Len(dataPoints) : s[i] = dataPoints[k]
  /\ \A i, j \in 1 .. Len(s) : i < j => s[i].start < s[j].start
  /\ \A i \in 1 .. Len(s) : GraphDate <= s[i].start
  /\ \A k \in 1 .. Len(dataPoints) : Day(dataPoints[k].start) =>
       \E i \in 1 .. Len(s) : s[i] = dataPoints[k]

(* The slice that the second loop takes has every data point of the day,   *)
(* none before it, and keeps the order.                                    *)
LEMMA FilterSelects ==
  ASSUME NEW f, NEW m, Cuts(dataPoints, f, m), Filter
  PROVE  OfTheDay(filtered')
<1> DEFINE d == dataPoints
           L == Len(dataPoints)
           e == GraphDate + Hours * Hour
           a == StartIndex
           b == IF EndNextIndex = 0 THEN L ELSE EndNextIndex - 1
           s == SubSeq(d, a, b)
<1>1. d \in Seq(Point) /\ L \in Nat /\ GraphDate \in Nat /\ e \in Nat
  <2>1. d \in Seq(Point)
    BY DEF Cuts
  <2>2. Hour \in Nat /\ Hours \in Nat /\ GraphDate \in Nat
    BY GraphAssumption
  <2>3. Hours * Hour \in Nat
    BY <2>2
  <2>. QED  BY <2>1, <2>2, <2>3
<1>2. \A k \in 1 .. L : d[k] \in Point /\ d[k].start \in Nat
  <2>1. \A k \in 1 .. L : d[k] \in Point
    BY <1>1, ElementOfSeq
  <2>2. \A p \in Point : p.start \in Nat
    BY DEF Point
  <2>. QED  BY <2>1, <2>2
<1>3. \A i, k \in 1 .. L : i < k => d[i].start < d[k].start
  BY DEF Cuts
<1>4. CASE StartIndex = 0
  <2>1. filtered' = << >>
    BY <1>4 DEF Filter
  <2>2. \A k \in 1 .. L : ~Day(d[k].start)
    BY <1>1, <1>2, <1>4, StartIndexIs DEF Day
  <2>. QED  BY <2>1, <2>2 DEF OfTheDay
<1>5. CASE StartIndex # 0
  <2>1. filtered' = s
    BY <1>5 DEF Filter
  <2>2. /\ a \in 1 .. L /\ d[a].start >= GraphDate
        /\ \A k \in 1 .. L : d[k].start >= GraphDate => a <= k
    BY <1>1, <1>5, StartIndexIs
  <2>3. b \in 0 .. L /\ \A k \in 1 .. L : d[k].start < e => k <= b
    <3>1. CASE EndNextIndex = 0
      BY <1>1, <3>1
    <3>2. CASE EndNextIndex # 0
      <4>1. EndNextIndex \in 1 .. L /\ d[EndNextIndex].start > e
        BY <1>1, <3>2, EndNextIndexIs
      <4>2. b = EndNextIndex - 1 /\ b \in 0 .. L
        BY <1>1, <3>2, <4>1
      <4> HIDE DEF b
      <4>3. ASSUME NEW k \in 1 .. L, d[k].start < e PROVE k < EndNextIndex
        <5>1. d[k].start < d[EndNextIndex].start /\ d[k].start \in Nat /\ d[EndNextIndex].start \in Nat
          BY <1>1, <1>2, <4>1, <4>3
        <5>. QED  BY <1>3, <4>1, <5>1
      <4>. QED  BY <1>1, <4>1, <4>2, <4>3
    <3>. QED  BY <3>1, <3>2
  <2> HIDE DEF a, b
  <2>4. \A k \in a .. b : k \in 1 .. L /\ d[k] \in Point
    BY <1>1, <1>2, <2>2, <2>3
  <2>5. /\ s \in Seq(Point) /\ Len(s) = IF a <= b THEN b - a + 1 ELSE 0
        /\ \A i \in 1 .. b - a + 1 : s[i] = d[a + i - 1]
    BY <2>2, <2>3, <2>4, SubSeqProperties
  <2> HIDE DEF s, d, e
  <2>6. ASSUME NEW i \in 1 .. Len(s)
        PROVE  a + i - 1 \in 1 .. L /\ a <= a + i - 1 /\ s[i] = d[a + i - 1]
    BY <1>1, <2>2, <2>3, <2>5
  <2>7. ASSUME NEW i \in 1 .. Len(s), NEW j \in 1 .. Len(s), i < j
        PROVE  s[i].start < s[j].start
    <3>1. a + i - 1 < a + j - 1
      BY <2>2, <2>7
    <3>. QED  BY <1>3, <2>6, <3>1
  <2>8. ASSUME NEW i \in 1 .. Len(s) PROVE GraphDate <= s[i].start
    <3>1. a = a + i - 1 \/ a < a + i - 1
      BY <2>2, <2>6
    <3>2. PICK k : k = a + i - 1
      OBVIOUS
    <3>3. k \in 1 .. L /\ s[i] = d[k] /\ a \in 1 .. L /\ (a = k \/ a < k)
      BY <2>2, <2>6, <3>1, <3>2
    <3>4. d[a].start \in Nat /\ d[k].start \in Nat
      BY <1>2, <3>3
    <3>5. a = k \/ d[a].start < d[k].start
      BY <1>3, <3>3
    <3>6. d[a].start <= d[k].start
      BY <3>4, <3>5
    <3>. QED  BY <1>1, <2>2, <3>3, <3>4, <3>6
  <2>9. ASSUME NEW k \in 1 .. L, Day(d[k].start)
        PROVE  \E i \in 1 .. Len(s) : s[i] = d[k]
    <3>1. a <= k /\ k <= b
      BY <1>1, <1>2, <2>2, <2>3, <2>9 DEF Day, e
    <3>2. (k - a) + 1 \in 1 .. b - a + 1 /\ a + ((k - a) + 1) - 1 = k /\ a <= b
      BY <2>2, <2>3, <3>1
    <3>. QED  BY <2>5, <3>2
  <2>. QED  BY <2>1, <2>5, <2>6, <2>7, <2>8, <2>9 DEF OfTheDay, d
<1>. QED  BY <1>4, <1>5


-----------------------------------------------------------------------------
(* The third loop: an entry for each hour.                                 *)

(* The entry that the answer should have for the k-th hour of the day.     *)
HourEntry(k) ==
  LET t == GraphDate + (k - 1) * Hour
  IN  [start |-> t, end |-> t + Hour,
       data |-> IF InHour(t) = << >> THEN NoData ELSE calculateGraphDataPoint(InHour(t)),
       timestamps |-> [i \in DOMAIN InHour(t) |-> InHour(t)[i].ts]]

(* n hours are emitted, and index is at the first data point after them.   *)
Emitted(n) ==
  /\ responseList = [k \in 1 .. n |-> HourEntry(k)]
  /\ thisTime = GraphDate + n * Hour
  /\ index \in 1 .. Len(filtered) + 1
  /\ \A i \in 1 .. Len(filtered) : i < index => filtered[i].start < thisTime
  /\ \A i \in 1 .. Len(filtered) : i >= index => filtered[i].start >= thisTime

EmitInv ==
  /\ pc \in {"read", "filter"} => index = 1 /\ thisTime = GraphDate /\ responseList = << >>
  /\ pc \in {"emit", "done"} => OfTheDay(filtered)
  /\ pc = "emit" => \E n \in 0 .. Hours : Emitted(n)
  /\ pc = "done" => Emitted(Hours)

(* The hours of the day are full hours, and n < Hours is what the test of  *)
(* the third loop decides.                                                 *)
LEMMA HourOfTheDay ==
  ASSUME NEW n \in Nat
  PROVE  /\ FullHour(GraphDate + n * Hour) /\ GraphDate + n * Hour \in Nat
         /\ GraphDate <= GraphDate + n * Hour
         /\ GraphDate + (n + 1) * Hour = (GraphDate + n * Hour) + Hour
         /\ n < Hours <=> GraphDate + n * Hour < GraphDate + Hours * Hour
<1>1. /\ Hour \in Nat \ {0} /\ Hours \in Nat /\ GraphDate \in Nat /\ GraphDate % Hour = 0
  BY GraphAssumption
<1>2. /\ n * Hour \in Nat /\ Hours * Hour \in Nat /\ (n + 1) * Hour = n * Hour + Hour
      /\ n < Hours <=> n * Hour < Hours * Hour
  BY <1>1, Times
<1>3. PICK g \in Nat : GraphDate = g * Hour
  <2>1. GraphDate \div Hour \in Nat /\ GraphDate = (GraphDate \div Hour) * Hour + (GraphDate % Hour)
    BY <1>1, Quotient
  <2> DEFINE q == GraphDate \div Hour
  <2>2. q \in Nat /\ GraphDate = q * Hour + 0
    BY <1>1, <2>1
  <2> HIDE DEF q
  <2>3. GraphDate = q * Hour
    BY <1>1, <2>2
  <2>. QED  BY <2>2, <2>3
<1>4. GraphDate + n * Hour = (g + n) * Hour /\ g + n \in Nat
  BY <1>1, <1>3
<1>5. FullHour(GraphDate + n * Hour)
  BY <1>4 DEF FullHour
<1>. QED  BY <1>1, <1>2, <1>5

(* n entries and the next one are n + 1 entries.                           *)
LEMMA AppendNext ==
  ASSUME NEW n \in Nat
  PROVE  Append([k \in 1 .. n |-> HourEntry(k)], HourEntry(n + 1)) = [k \in 1 .. n + 1 |-> HourEntry(k)]
<1> DEFINE S == {HourEntry(k) : k \in Nat}
           s == [k \in 1 .. n |-> HourEntry(k)]
           u == [k \in 1 .. n + 1 |-> HourEntry(k)]
<1>1. \A k \in 1 .. n + 1 : HourEntry(k) \in S
  OBVIOUS
<1> HIDE DEF S
<1>2. s \in Seq(S) /\ Len(s) = n /\ u \in Seq(S) /\ Len(u) = n + 1
  BY <1>1
<1>3. HourEntry(n + 1) \in S
  BY <1>1
<1>4. \A k \in 1 .. n : s[k] = u[k]
  OBVIOUS
<1>5. u[n + 1] = HourEntry(n + 1)
  OBVIOUS
<1> DEFINE v == Append(s, HourEntry(n + 1))
<1> HIDE DEF s, u
<1>6. v \in Seq(S) /\ Len(v) = n + 1 /\ \A k \in 1 .. n + 1 : v[k] = u[k]
  BY <1>2, <1>3, <1>4, <1>5
<1>7. v = u
  <2> HIDE DEF v
  <2>. QED  BY <1>2, <1>6, SeqEqual
<1>. QED  BY <1>7 DEF s, u

(* A point of the day is one of dataPoints, which starts at a full hour.   *)
LEMMA PointOfTheDay ==
  ASSUME NEW f, NEW m, Cuts(dataPoints, f, m), OfTheDay(filtered), NEW i \in 1 .. Len(filtered)
  PROVE  /\ FullHour(filtered[i].start) /\ filtered[i].start \in Nat
         /\ \E q \in 1 .. Len(dataPoints) :
              /\ filtered[i] = dataPoints[q]
              /\ dataPoints[q].data = calculateGraphDataPoint(dataPoints[q].reports)
<1>1. PICK q \in 1 .. Len(dataPoints) : filtered[i] = dataPoints[q]
  BY DEF OfTheDay
<1>2. FullHour(dataPoints[q].start)
      /\ dataPoints[q].data = calculateGraphDataPoint(dataPoints[q].reports)
  BY DEF Cuts
<1>3. dataPoints[q].start \in Nat
  <2>1. 0 \in Nat
    OBVIOUS
  <2>. QED  BY <1>2, <2>1, InItsHour
<1>. QED  BY <1>1, <1>2, <1>3

(* One turn of the third loop emits the entry of its hour: the data point  *)
(* at index, if it starts there, has the reports of the hour (PointHasHour); *)
(* otherwise no data point is for it and the hour is empty (EmptyHour).    *)
LEMMA EmitStep ==
  ASSUME Sorted, NEW f, Cuts(dataPoints, f, Len(conditions)), OfTheDay(filtered),
         NEW n \in 0 .. Hours, Emitted(n), Emit
  PROVE  n + 1 \in 0 .. Hours /\ Emitted(n + 1)'
<1> DEFINE t == GraphDate + n * Hour
           L == Len(filtered)
           hit == index <= L /\ filtered[index].start = t
           Advanced == /\ responseList' = Append(responseList, HourEntry(n + 1))
                       /\ index' \in 1 .. L + 1
                       /\ \A i \in 1 .. L : i < index' => filtered[i].start < t + Hour
                       /\ \A i \in 1 .. L : i >= index' => filtered[i].start >= t + Hour
<1>1. /\ Hours \in Nat /\ Hour \in Nat \ {0} /\ n \in Nat /\ L \in Nat /\ thisTime = t
      /\ index \in 1 .. L + 1
  BY GraphAssumption DEF Emitted, OfTheDay
<1>2. /\ FullHour(t) /\ t \in Nat /\ GraphDate <= t /\ n < Hours
      /\ t < GraphDate + Hours * Hour /\ GraphDate + (n + 1) * Hour = t + Hour
  BY <1>1, HourOfTheDay DEF Emit
<1>3. \A i \in 1 .. L : FullHour(filtered[i].start) /\ filtered[i].start \in Nat
  BY PointOfTheDay
<1>4. /\ \A i \in 1 .. L : i < index => filtered[i].start < t
      /\ \A i \in 1 .. L : i >= index => filtered[i].start >= t
  BY <1>1 DEF Emitted
<1>5. \A i, j \in 1 .. L : i < j => filtered[i].start < filtered[j].start
  BY DEF OfTheDay
<1>6. HourEntry(n + 1) = Entry(IF InHour(t) = << >> THEN NoData ELSE calculateGraphDataPoint(InHour(t)),
                               InHour(t))
  <2>1. (n + 1) - 1 = n
    BY <1>1
  <2>. QED  BY <1>1, <2>1 DEF HourEntry, Entry
<1> HIDE DEF t, L
<1>7. ASSUME hit PROVE Advanced
  <2>1. index \in 1 .. L /\ filtered[index].start = t
    BY <1>1, <1>7
  <2>2. PICK q \in 1 .. Len(dataPoints) :
          /\ filtered[index] = dataPoints[q]
          /\ dataPoints[q].data = calculateGraphDataPoint(dataPoints[q].reports)
    BY <2>1, PointOfTheDay DEF L
  <2>3. dataPoints[q].reports = InHour(t) /\ InHour(t) # << >>
    BY <2>1, <2>2, PointHasHour
  <2>4. HourEntry(n + 1) = Entry(filtered[index].data, filtered[index].reports)
    BY <1>6, <2>2, <2>3
  <2>5. responseList' = Append(responseList, HourEntry(n + 1)) /\ index' = index + 1
    BY <1>1, <1>7, <2>4 DEF Emit, L
  <2>6. \A i \in 1 .. L : i < index + 1 => filtered[i].start < t + Hour
    <3> SUFFICES ASSUME NEW i \in 1 .. L, i < index + 1 PROVE filtered[i].start < t + Hour
      OBVIOUS
    <3>1. i < index \/ i = index
      BY <1>1
    <3>2. filtered[i].start <= t /\ filtered[i].start \in Nat
      BY <1>2, <1>3, <1>4, <2>1, <3>1
    <3>. QED  BY <1>1, <1>2, <3>2
  <2>7. \A i \in 1 .. L : i >= index + 1 => filtered[i].start >= t + Hour
    <3> SUFFICES ASSUME NEW i \in 1 .. L, i >= index + 1 PROVE filtered[i].start >= t + Hour
      OBVIOUS
    <3>1. index < i
      BY <1>1
    <3>2. t < filtered[i].start
      BY <1>5, <2>1, <3>1
    <3>3. FullHour(filtered[i].start)
      BY <1>3
    <3>4. t + Hour <= filtered[i].start /\ filtered[i].start \in Nat
      BY <1>2, <3>2, <3>3, NextHour
    <3>. QED  BY <1>1, <1>2, <3>4
  <2>8. index + 1 \in 1 .. L + 1
    BY <1>1, <2>1
  <2>. QED  BY <2>5, <2>6, <2>7, <2>8
<1>8. ASSUME ~hit PROVE Advanced
  <2>1. ASSUME NEW i \in 1 .. L, filtered[i].start = t PROVE FALSE
    <3>1. ~(i < index)
      BY <1>1, <1>2, <1>4, <2>1
    <3>2. i # index
      BY <1>8, <2>1, <1>1
    <3>3. index \in 1 .. L /\ index < i
      BY <1>1, <3>1, <3>2
    <3>4. filtered[index].start >= t /\ filtered[index].start < t /\ filtered[index].start \in Nat
      BY <1>1, <1>3, <1>4, <1>5, <2>1, <3>3
    <3>. QED  BY <1>2, <3>4
  <2>2. ASSUME NEW k \in 1 .. Len(dataPoints), dataPoints[k].start = t PROVE FALSE
    <3>1. Day(dataPoints[k].start)
      BY <1>2, <2>2 DEF Day
    <3>2. PICK i \in 1 .. L : filtered[i] = dataPoints[k]
      BY <3>1 DEF OfTheDay, L
    <3>. QED  BY <2>1, <2>2, <3>2
  <2>3. InHour(t) = << >>
    BY <1>2, <2>2, EmptyHour
  <2>4. responseList' = Append(responseList, HourEntry(n + 1)) /\ index' = index
    BY <1>1, <1>6, <1>8, <2>3 DEF Emit, L
  <2>5. \A i \in 1 .. L : i < index => filtered[i].start < t + Hour
    <3> SUFFICES ASSUME NEW i \in 1 .. L, i < index PROVE filtered[i].start < t + Hour
      OBVIOUS
    <3>1. filtered[i].start < t /\ filtered[i].start \in Nat
      BY <1>3, <1>4
    <3>. QED  BY <1>1, <1>2, <3>1
  <2>6. \A i \in 1 .. L : i >= index => filtered[i].start >= t + Hour
    <3> SUFFICES ASSUME NEW i \in 1 .. L, i >= index PROVE filtered[i].start >= t + Hour
      OBVIOUS
    <3>1. filtered[i].start >= t /\ filtered[i].start # t /\ filtered[i].start \in Nat
          /\ FullHour(filtered[i].start)
      BY <1>3, <1>4, <2>1
    <3>2. t < filtered[i].start
      BY <1>2, <3>1
    <3>3. t + Hour <= filtered[i].start
      BY <1>2, <3>1, <3>2, NextHour
    <3>. QED  BY <1>1, <1>2, <3>1, <3>3
  <2>. QED  BY <1>1, <2>4, <2>5, <2>6
<1>9. Advanced
  BY <1>7, <1>8
<1>10. responseList' = [k \in 1 .. n + 1 |-> HourEntry(k)]
  <2>1. responseList = [k \in 1 .. n |-> HourEntry(k)]
    BY DEF Emitted
  <2>. QED  BY <1>1, <1>9, <2>1, AppendNext
<1>11. \A k : HourEntry(k)' = HourEntry(k)
  BY DEF Emit, HourEntry, InHour, Before
<1>12. thisTime' = GraphDate + (n + 1) * Hour /\ thisTime' = t + Hour /\ filtered' = filtered
  BY <1>1, <1>2 DEF Emit
<1>13. n + 1 \in 0 .. Hours
  BY <1>1, <1>2
<1> HIDE DEF hit
<1>14. responseList' = [k \in 1 .. n + 1 |-> HourEntry(k)']
  BY <1>10, <1>11
<1>. QED  BY <1>9, <1>12, <1>13, <1>14 DEF Emitted, L

(* Every step keeps EmitInv, given what ReadInv says of the data points.   *)
LEMMA EmitInvStep ==
  ASSUME ReadInv, EmitInv, [Next]_vars
  PROVE  EmitInv'
<1>1. CASE ReadCondition \/ ReadDone
  BY <1>1 DEF EmitInv, ReadCondition, ReadDone
<1>2. CASE Filter
  <2>1. PICK f : Cuts(dataPoints, f, Len(conditions))
    BY <1>2 DEF ReadInv, Filter
  <2>2. OfTheDay(filtered')
    BY <1>2, <2>1, FilterSelects
  <2>3. dataPoints' = dataPoints /\ pc' = "emit"
    BY <1>2 DEF Filter
  <2>4. OfTheDay(filtered)'
    BY <2>2, <2>3 DEF OfTheDay
  <2>5. index' = 1 /\ thisTime' = GraphDate /\ responseList' = << >>
    BY <1>2 DEF EmitInv, Filter
  <2>6. GraphDate \in Nat /\ Hour \in Nat /\ Hours \in Nat
    BY GraphAssumption
  <2>7. Emitted(0)'
    <3>1. responseList' = [k \in 1 .. 0 |-> HourEntry(k)']
      BY <2>5
    <3>2. thisTime' = GraphDate + 0 * Hour
      BY <2>5, <2>6
    <3>3. Len(filtered') \in Nat
      BY <2>2 DEF OfTheDay
    <3>4. index' \in 1 .. Len(filtered') + 1
      BY <2>5, <3>3
    <3>5. \A i \in 1 .. Len(filtered') : ~(i < index')
      BY <2>5, <3>3
    <3>6. \A i \in 1 .. Len(filtered') : filtered'[i].start >= thisTime'
      <4>1. \A i \in 1 .. Len(filtered') : GraphDate <= filtered'[i].start /\ filtered'[i] \in Point
        BY <2>2 DEF OfTheDay
      <4>2. \A p \in Point : p.start \in Nat
        BY DEF Point
      <4>. QED  BY <2>5, <2>6, <4>1, <4>2
    <3>. QED  BY <3>1, <3>2, <3>4, <3>5, <3>6 DEF Emitted
  <2>8. 0 \in 0 .. Hours
    BY <2>6
  <2>. QED  BY <2>3, <2>4, <2>7, <2>8 DEF EmitInv
<1>3. CASE Emit
  <2>1. PICK f : Cuts(dataPoints, f, Len(conditions))
    BY <1>3 DEF ReadInv, Emit
  <2>2. PICK n \in 0 .. Hours : Emitted(n)
    BY <1>3 DEF EmitInv, Emit
  <2>3. OfTheDay(filtered) /\ Sorted
    BY <1>3 DEF EmitInv, ReadInv, Emit
  <2>4. n + 1 \in 0 .. Hours /\ Emitted(n + 1)'
    BY <1>3, <2>1, <2>2, <2>3, EmitStep
  <2>5. pc' = "emit" /\ filtered' = filtered /\ dataPoints' = dataPoints
    BY <1>3 DEF Emit
  <2>6. OfTheDay(filtered)'
    BY <2>3, <2>5 DEF OfTheDay
  <2>. QED  BY <2>4, <2>5, <2>6 DEF EmitInv
<1>4. CASE EmitDone \/ UNCHANGED vars
  <2>1. UNCHANGED <<conditions, dataPoints, filtered, index, thisTime, responseList>>
    BY <1>4 DEF EmitDone, vars
  <2>2. OfTheDay(filtered)' <=> OfTheDay(filtered)
    BY <2>1 DEF OfTheDay
  <2>3. \A n : Emitted(n)' <=> Emitted(n)
    BY <2>1 DEF Emitted, HourEntry, InHour, Before
  <2>4. CASE EmitDone
    <3>1. PICK n \in 0 .. Hours : Emitted(n)
      BY <2>4 DEF EmitInv, EmitDone
    <3>2. Hours \in Nat /\ n \in Nat /\ GraphDate + n * Hour >= GraphDate + Hours * Hour
      BY <2>4, <3>1, GraphAssumption DEF EmitDone, Emitted
    <3>3. ~(n < Hours)
      <4>1. /\ GraphDate + n * Hour \in Nat /\ GraphDate + Hours * Hour \in Nat
            /\ n < Hours <=> GraphDate + n * Hour < GraphDate + Hours * Hour
        BY <3>2, HourOfTheDay
      <4>2. PICK x \in Nat, y \in Nat : x = GraphDate + n * Hour /\ y = GraphDate + Hours * Hour
        BY <4>1
      <4>3. x >= y /\ (n < Hours <=> x < y)
        BY <3>2, <4>1, <4>2
      <4>. QED  BY <4>3
    <3>4. n = Hours
      BY <3>1, <3>2, <3>3
    <3>5. Emitted(Hours)
      BY <3>1, <3>4
    <3>6. pc' = "done" /\ pc = "emit"
      BY <2>4 DEF EmitDone
    <3>7. OfTheDay(filtered)
      BY <3>6 DEF EmitInv
    <3>. QED  BY <2>2, <2>3, <3>5, <3>6, <3>7 DEF EmitInv
  <2>5. CASE UNCHANGED vars
    <3>1. pc' = pc
      BY <2>5 DEF vars
    <3>. QED  BY <2>1, <2>2, <2>3, <3>1 DEF EmitInv
  <2>. QED  BY <1>4, <2>4, <2>5
<1>. QED  BY <1>1, <1>2, <1>3, <1>4 DEF Next

(* The answer has every hour of the day, in order, with exactly the times  *)
(* of the reports of that hour, and has data just where there are reports: *)
(* the loop of generateIsuGraphResponse that walks over the data points    *)
(* neither skips one nor stops at one of another day.                      *)
THEOREM GraphHourByHour == Spec => []GraphIsByHour
<1>1. Init => EmitInv
  BY DEF Init, EmitInv
<1>2. ReadInv /\ EmitInv /\ [Next]_vars => EmitInv'
  BY EmitInvStep
<1>3. ASSUME EmitInv PROVE GraphIsByHour
  <2> SUFFICES ASSUME pc = "done" PROVE GraphIsByHour
    BY DEF GraphIsByHour
  <2>1. Hours \in Nat /\ responseList = [k \in 1 .. Hours |-> HourEntry(k)]
    BY <1>3, GraphAssumption DEF EmitInv, Emitted
  <2>2. Len(responseList) = Hours
    BY <2>1
  <2>3. ASSUME NEW k \in 1 .. Hours PROVE responseList[k] = HourEntry(k)
    BY <2>1
  <2>. QED  BY <2>2, <2>3 DEF GraphIsByHour, HourEntry
<1>. QED  BY <1>1, <1>2, <1>3, ReadInvariant, PTL DEF Spec
=============================================================================
