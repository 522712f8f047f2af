------------------------------ MODULE MCLogViewer ------------------------------
(* Two requests for one profile, one for another, and one for a file;    *)
(* two ports, so that a port can be given twice and none may be free.      *)
EXTENDS LogViewer

CONSTANTS cpu, trace, dstat, r1, r2, r3, r4

MCPathOf == [r \in Request |-> CASE r = r3 -> trace [] r = r4 -> dstat [] OTHER -> cpu]
=============================================================================
