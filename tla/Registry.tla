-------------------------------- MODULE Registry --------------------------------
(***************************************************************************)
(* What POST /api/isu promises to the users of the table `isu`: however    *)
(* many statements and messages it takes, a registration takes effect at   *)
(* one moment, before its request is answered, once, and only for an ISU   *)
(* that JIA accepted and that nobody has registered.  A request that was   *)
(* refused, or whose process died, registers nothing later.  A reset       *)
(* empties the table and fills it again.                                   *)
(***************************************************************************)
CONSTANTS Request, Seed, UuidOf

VARIABLES
  request,   (* "open", "made" (registered), "created" (answered 201),      *)
             (* "refused" (answered otherwise) or "lost"                    *)
  rows,      (* the registered ISUs: requests and seeds                     *)
  active     (* ISUs that JIA has accepted                                  *)

vars == <<request, rows, active>>

Init == /\ request = [r \in Request |-> "open"]
        /\ rows = Seed
        /\ active = {UuidOf[x] : x \in Seed}

Unregistered(u) == \A x \in rows : UuidOf[x] # u

Accept(r) == /\ request[r] = "open"
             /\ active' = active \cup {UuidOf[r]}
             /\ UNCHANGED <<request, rows>>

(* JIA may have accepted an ISU whose registration is refused.             *)
Refuse(r) == /\ request[r] = "open"
             /\ request' = [request EXCEPT ![r] = "refused"]
             /\ active' \in {active, active \cup {UuidOf[r]}}
             /\ UNCHANGED rows

(* The answer is a refusal if the database's answer to COMMIT is lost.     *)
Register(r) == /\ request[r] = "open" /\ UuidOf[r] \in active /\ Unregistered(UuidOf[r])
               /\ \E a \in {"made", "refused"} : request' = [request EXCEPT ![r] = a]
               /\ rows' = rows \cup {r}
               /\ UNCHANGED active

Answer(r) == /\ request[r] = "made"
             /\ request' = [request EXCEPT ![r] = "created"]
             /\ UNCHANGED <<rows, active>>

(* The process of the requests in R dies. *)
Die(R) == /\ \A r \in R : request[r] \in {"open", "made"}
          /\ request' = [r \in Request |-> IF r \in R THEN "lost" ELSE request[r]]
          /\ UNCHANGED <<rows, active>>

Drop   == rows' = {} /\ UNCHANGED <<request, active>>
Reload == rows = {} /\ rows' = Seed /\ UNCHANGED <<request, active>>

Next == \/ \E r \in Request : Accept(r) \/ Refuse(r) \/ Register(r) \/ Answer(r)
        \/ \E R \in SUBSET Request : Die(R)
        \/ Drop \/ Reload

Spec == Init /\ [][Next]_vars
=============================================================================
