---------------------------- MODULE MCConnectionPool ----------------------------
(* One ISU is registered twice on a process with two connections, which     *)
(* also serves a list and a page of reports, while another process resets.  *)
EXTENDS ConnectionPool

CONSTANTS app1, app2, r1, r2, g1, p1, i1, d1, d2, u1

MCHandlerOf == [q \in Request |->
  CASE q \in {r1, r2} -> "postIsu" [] q = g1 -> "getIsuList" [] q = p1 -> "getIsuConditions"
    [] q = i1 -> "postInitialize"]
MCHostOf  == [q \in Task |-> IF q \in {i1, d2} THEN app2 ELSE app1]
MCResetOf == [l \in Load |-> i1]
MCUuidOf  == [q \in Request |-> u1]
=============================================================================
