------------------------------- MODULE Broadcast -------------------------------
(***************************************************************************)
(* What Group.Call of go/rpcgroup promises to its caller: the function     *)
(* starts at most once on every member of the group, and Call returns only *)
(* when it has ended on all of them.  The process of the caller may die    *)
(* with its calls; what it had sent may still run on the others.           *)
(***************************************************************************)
CONSTANTS Host, Call

VARIABLES
  call,      (* state of a call of Group.Call                               *)
  started,   (* members on which the function of a call was started         *)
  finished   (* members on which it has ended                               *)

vars == <<call, started, finished>>

Init == /\ call = [c \in Call |-> "new"]
        /\ started = [c \in Call |-> {}]
        /\ finished = [c \in Call |-> {}]

Begin(c) == /\ call[c] = "new"
            /\ call' = [call EXCEPT ![c] = "open"]
            /\ UNCHANGED <<started, finished>>

Start(c, d) == /\ call[c] \in {"open", "dead"} /\ d \notin started[c]
               /\ started' = [started EXCEPT ![c] = @ \cup {d}]
               /\ UNCHANGED <<call, finished>>

Finish(c, d) == /\ d \in started[c] \ finished[c]
                /\ finished' = [finished EXCEPT ![c] = @ \cup {d}]
                /\ UNCHANGED <<call, started>>

Return(c) == /\ call[c] = "open" /\ finished[c] = Host
             /\ call' = [call EXCEPT ![c] = "returned"]
             /\ UNCHANGED <<started, finished>>

(* The process that made the calls in C dies. *)
Die(C) == /\ \A c \in C : call[c] = "open"
          /\ call' = [c \in Call |-> IF c \in C THEN "dead" ELSE call[c]]
          /\ UNCHANGED <<started, finished>>

Next == \/ \E c \in Call : Begin(c) \/ Return(c)
        \/ \E c \in Call, d \in Host : Start(c, d) \/ Finish(c, d)
        \/ \E C \in SUBSET Call : Die(C)

Spec == Init /\ [][Next]_vars
=============================================================================
