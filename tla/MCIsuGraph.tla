------------------------------- MODULE MCIsuGraph -------------------------------
(* A day of three hours of two seconds; reports come from the hour before  *)
(* to the second hour after.                                               *)
EXTENDS IsuGraph

MCTime  == 0 .. 10
MCKind  == {[flags |-> <<FALSE, FALSE, FALSE>>, sitting |-> TRUE],
            [flags |-> <<FALSE, TRUE, FALSE>>,  sitting |-> TRUE],
            [flags |-> <<TRUE, TRUE, TRUE>>,    sitting |-> FALSE]}
=============================================================================
