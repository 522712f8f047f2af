------------------------------ MODULE MCRpcGroup ------------------------------
(* Two processes that call each other. *)
EXTENDS RpcGroup

CONSTANTS app1, app2, c1, c2, c3

MCCallerOf == [c \in Call |-> IF c = c3 THEN app2 ELSE app1]
=============================================================================
