----------------------------- MODULE RpcReconnect -----------------------------
(***************************************************************************)
(* What client.go promises of a connection that breaks, said with a        *)
(* history variable beside the variables of RpcGroup: no action reads it.  *)
(***************************************************************************)
EXTENDS RpcGroup

VARIABLE
  late   (* requests, with their member, that serve took from its channel   *)
         (* when the connection to the member was broken already, the       *)
         (* member had been restarted and no call of the process had failed; *)
         (* the member has not died again before they were sent             *)

TakenLate == {p \in Call \X Host : LET s == CallerOf[p[1]]  d == p[2] IN
  /\ taken[s][d] = None /\ taken'[s][d] = p[1]
  /\ conn[s][d] = "broken" /\ proc[d] # "down"
  /\ \A c \in Call, h \in Host : CallerOf[c] = s => ~Failed(c, h)}

DiesUnsent == {p \in Call \X Host : leg[p[1]][p[2]] = "queued" /\ proc'[p[2]] = "down"}

HistorySpec ==
  /\ Init /\ late = {}
  /\ [][Next /\ late' = (late \cup TakenLate) \ DiesUnsent]_<<vars, late>>

-----------------------------------------------------------------------------
(* client.go, on RetryCount: a Client reconnects, for ever if it is        *)
(* negative (as NewClient makes it).  Then a request that serve takes after *)
(* its member died and was restarted is sent on a connection to the new    *)
(* process, which is not broken unless that one dies too before it is sent. *)
Reconnects == \A p \in late : leg[p[1]][p[2]] # "refused"
=============================================================================
