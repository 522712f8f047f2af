-------------------------------- MODULE IsuGraph --------------------------------
(***************************************************************************)
(* generateIsuGraphResponse of go/main.go: one day of an ISU's reports,    *)
(* hour by hour.  The reports come sorted by time; the first loop gathers  *)
(* those of an hour and computes a data point when the hour changes, the   *)
(* second cuts the data points to the day, and the third emits one entry   *)
(* per hour, with a data point or without.                                 *)
(***************************************************************************)
EXTENDS ConditionFormat, Integers, SequencesExt

CONSTANTS
  Hour,      (* seconds of an hour: 3600                                    *)
  Hours,     (* hours of a day: 24                                          *)
  Time,      (* times of reports                                            *)
  Kind,      (* what reports say: [flags, sitting]                          *)
  GraphDate, (* the start of the day, a full hour                           *)
  MaxReports (* bound: reports selected                                     *)

ASSUME GraphAssumption ==
  /\ Hour \in Nat \ {0} /\ Hours \in Nat /\ Time \subseteq Nat
  /\ Kind \subseteq [flags : Condition, sitting : BOOLEAN] /\ MaxReports \in Nat
  /\ GraphDate \in Nat /\ GraphDate % Hour = 0

VARIABLES
  pc,          (* "read", "filter", "emit" or "done"                        *)
  conditions,  (* the rows selected, in ascending order of time             *)
  next,        (* the condition the first loop is at                        *)
  thisHour,    (* conditionsInThisHour                                      *)
  startTime,   (* startTimeInThisHour                                       *)
  dataPoints,
  filtered,    (* filteredDataPoints                                        *)
  index, thisTime, responseList

vars == <<pc, conditions, next, thisHour, startTime, dataPoints, filtered, index,
          thisTime, responseList>>

Report   == {[ts |-> t, flags |-> k.flags, sitting |-> k.sitting] : t \in Time, k \in Kind}
NoData   == [score |-> 0, sitting |-> 0, is_dirty |-> 0, is_overweight |-> 0, is_broken |-> 0]
NoHour   == -1      (* time.Time{} *)
Truncate(t) == t - (t % Hour)

(* WHERE timestamp >= graphDate: the day is passed as a number of seconds, *)
(* which the database does not compare as a time, so older rows may come   *)
(* too.                                                                    *)
Init ==
  /\ conditions \in {s \in BoundedSeq(Report, MaxReports) :
       \A i \in 1 .. Len(s) - 1 : s[i].ts <= s[i + 1].ts}
  /\ pc = "read" /\ next = 1
  /\ thisHour = << >> /\ startTime = NoHour
  /\ dataPoints = << >> /\ filtered = << >>
  /\ index = 1 /\ thisTime = GraphDate /\ responseList = << >>

-----------------------------------------------------------------------------
(* calculateGraphDataPoint.  The rows were validated when they were stored. *)
Bad(r)       == Cardinality({k \in 1 .. 3 : r.flags[k]})
Count(s, P(_)) == Cardinality({i \in DOMAIN s : P(s[i])})

RawScore(s) ==
  LET Critical(r) == Bad(r) >= 3
      Warning(r)  == Bad(r) \in 1 .. 2
      Info(r)     == Bad(r) = 0
  IN  1 * Count(s, Critical) + 2 * Count(s, Warning) + 3 * Count(s, Info)

Percentage(s, P(_)) == (Count(s, P) * 100) \div Len(s)

(* a plausible mistake: the division comes first                           *)
Score_DividedFirst(s) == ((RawScore(s) \div 3) * 100) \div Len(s)

Score(s) == ((RawScore(s) * 100) \div 3) \div Len(s)

calculateGraphDataPoint(s) ==
  LET Sitting(r)    == r.sitting
      Dirty(r)      == r.flags[1]
      Overweight(r) == r.flags[2]
      Broken(r)     == r.flags[3]
  IN  [score |-> Score(s), sitting |-> Percentage(s, Sitting),
       is_dirty |-> Percentage(s, Dirty), is_overweight |-> Percentage(s, Overweight),
       is_broken |-> Percentage(s, Broken)]

-----------------------------------------------------------------------------
(* The data point of the hour that ends, if it had reports. *)
Flushed ==
  IF thisHour = << >> THEN dataPoints
  ELSE Append(dataPoints, [start |-> startTime, data |-> calculateGraphDataPoint(thisHour),
                           reports |-> thisHour])

ReadCondition ==
  /\ pc = "read" /\ next <= Len(conditions)
  /\ LET c == conditions[next]
     IN  IF Truncate(c.ts) # startTime
         THEN /\ dataPoints' = Flushed
              /\ startTime' = Truncate(c.ts) /\ thisHour' = <<c>>
         ELSE /\ thisHour' = Append(thisHour, c)
              /\ UNCHANGED <<dataPoints, startTime>>
  /\ next' = next + 1
  /\ UNCHANGED <<pc, conditions, filtered, index, thisTime, responseList>>

(* a plausible mistake: the last hour is not flushed                       *)
ReadDone_Unflushed ==
  /\ pc = "read" /\ next > Len(conditions)
  /\ pc' = "filter"
  /\ UNCHANGED <<conditions, next, thisHour, startTime, dataPoints, filtered, index,
                 thisTime, responseList>>

ReadDone ==
  /\ pc = "read" /\ next > Len(conditions)
  /\ dataPoints' = Flushed /\ pc' = "filter"
  /\ UNCHANGED <<conditions, next, thisHour, startTime, filtered, index, thisTime, responseList>>

(* a plausible mistake: the query has selected the day, the first data     *)
(* point is that of the day                                                *)
StartIndex_First == IF dataPoints = << >> THEN 0 ELSE 1

(* From the first data point not before the day to the one before the      *)
(* first that starts after its end, which includes the first hour of the   *)
(* next day.                                                               *)
StartIndex   == SelectInSeq(dataPoints, LAMBDA g : g.start >= GraphDate)
EndNextIndex == SelectInSeq(dataPoints, LAMBDA g : g.start > GraphDate + Hours * Hour)

Filter ==
  /\ pc = "filter"
  /\ filtered' = IF StartIndex = 0 THEN << >>
                 ELSE SubSeq(dataPoints, StartIndex,
                             IF EndNextIndex = 0 THEN Len(dataPoints) ELSE EndNextIndex - 1)
  /\ pc' = "emit"
  /\ UNCHANGED <<conditions, next, thisHour, startTime, dataPoints, index, thisTime, responseList>>

Entry(data, reports) ==
  [start |-> thisTime, end |-> thisTime + Hour, data |-> data,
   timestamps |-> [i \in DOMAIN reports |-> reports[i].ts]]

Emit ==
  /\ pc = "emit" /\ thisTime < GraphDate + Hours * Hour
  /\ IF index <= Len(filtered) /\ filtered[index].start = thisTime
     THEN /\ responseList' = Append(responseList,
                                    Entry(filtered[index].data, filtered[index].reports))
          /\ index' = index + 1
     ELSE /\ responseList' = Append(responseList, Entry(NoData, << >>))
          /\ UNCHANGED index
  /\ thisTime' = thisTime + Hour
  /\ UNCHANGED <<pc, conditions, next, thisHour, startTime, dataPoints, filtered>>

EmitDone ==
  /\ pc = "emit" /\ thisTime >= GraphDate + Hours * Hour
  /\ pc' = "done"
  /\ UNCHANGED <<conditions, next, thisHour, startTime, dataPoints, filtered, index,
                 thisTime, responseList>>

Next == ReadCondition \/ ReadDone \/ Filter \/ Emit \/ EmitDone

Spec == Init /\ [][Next]_vars

-----------------------------------------------------------------------------
(* While it reads, nothing is lost, repeated or put into a wrong hour: the *)
(* data points and the current hour, one after the other, are the reports  *)
(* read so far, and hours only go up.                                      *)
HoursOf   == [i \in DOMAIN dataPoints |-> dataPoints[i].reports]
PointsPartitionReports ==
  /\ pc = "read" => FlattenSeq(HoursOf) \o thisHour = SubSeq(conditions, 1, next - 1)
  /\ pc # "read" => FlattenSeq(HoursOf) = conditions
  /\ \A i \in DOMAIN dataPoints :
       /\ \A j \in DOMAIN dataPoints[i].reports :
            Truncate(dataPoints[i].reports[j].ts) = dataPoints[i].start
       /\ i > 1 => dataPoints[i - 1].start < dataPoints[i].start

(* The rows are in order: those of the hour at t follow those before t.    *)
Before(t) == Cardinality({i \in DOMAIN conditions : conditions[i].ts < t})
InHour(t) == SubSeq(conditions, Before(t) + 1, Before(t + Hour))

(* The answer has every hour of the day, in order, with exactly the times  *)
(* of the reports of that hour, and has data just where there are reports. *)
GraphIsByHour ==
  pc = "done" =>
    /\ Len(responseList) = Hours
    /\ \A k \in 1 .. Hours :
         LET e == responseList[k]
             s == InHour(GraphDate + (k - 1) * Hour)
         IN  /\ e.start = GraphDate + (k - 1) * Hour
             /\ e.timestamps = [i \in DOMAIN s |-> s[i].ts]
             /\ e.data = IF s = << >> THEN NoData ELSE calculateGraphDataPoint(s)

(* Whole numbers lie: the divisions round down, yet an hour with reports   *)
(* never scores under 33, and 100 means all of them.                       *)
HundredMeansAll ==
  \A i \in DOMAIN dataPoints :
    LET d == dataPoints[i].data
        s == dataPoints[i].reports
    IN  /\ d.score \in 33 .. 100
        /\ d.score = 100 <=> \A j \in DOMAIN s : calculateConditionLevel(Rendered(s[j].flags)) = "info"
        /\ d.sitting \in 0 .. 100 /\ d.is_broken \in 0 .. 100
        /\ d.sitting = 100 <=> \A j \in DOMAIN s : s[j].sitting
        /\ d.is_broken = 100 <=> \A j \in DOMAIN s : s[j].flags[3]
=============================================================================
