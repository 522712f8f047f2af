---------------------------- MODULE MCConditionLog ----------------------------
(* Two ISUs.  u1 sends the batch p1, late, the older p2, which has another *)
(* report of a second of p1, and two batches with a bad report: that of p4 *)
(* ends before its first comma, that of p5 has text after the last value.  *)
(* u2 sends p3.                                                            *)
EXTENDS ConditionLog

CONSTANTS u1, u2, c1, c2, p1, p2, p3, p4, p5, w1, t1, l1

Info     == Rendered(<<FALSE, FALSE, FALSE>>)
Warning  == Rendered(<<TRUE, FALSE, TRUE>>)
Critical == Rendered(<<TRUE, TRUE, TRUE>>)
Cut      == SubSeq(Info, 1, 2)
Long     == Append(Warning, Other)

MCSeed == {[id |-> 1, isu |-> u1, ts |-> 0, condition |-> Warning]}

Report(ts, s) == [ts |-> ts, condition |-> s]

MCCharacterOf == [u \in Isu |-> IF u = u1 THEN c1 ELSE c2]
MCIsuOf       == [p \in Post |-> IF p = p3 THEN u2 ELSE u1]
MCReportsOf   == [p \in Post |->
  CASE p = p1 -> <<Report(2, Info), Report(3, Critical)>>
    [] p = p2 -> <<Report(1, Info), Report(2, Warning)>>
    [] p = p3 -> <<Report(4, Warning)>>
    [] p = p4 -> <<Report(4, Warning), Report(5, Cut)>>
    [] p = p5 -> <<Report(6, Info), Report(7, Long)>>]

AllLevels == {"info", "warning", "critical"}
MCQuery   == [isu : {u1}, levels : {{"info"}, AllLevels}, start : {NoTime}, end : {4}]
  \cup [isu : {u1}, levels : {{"info"}, AllLevels}, start : {2}, end : {3}]

(* condition_level=info,warning,warn: three levels, one of them unknown.   *)
UnknownQuery == [isu : {u1}, levels : {{"info", "warning", "warn"}},
                 start : {NoTime}, end : {4}]
=============================================================================
