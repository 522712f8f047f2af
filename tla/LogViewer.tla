------------------------------- MODULE LogViewer -------------------------------
(***************************************************************************)
(* The web server for the log directories (logviewer/main.go).  A request  *)
(* for a profile is passed on to `go tool pprof` or `go tool trace`, which *)
(* the first request for the profile starts on a port that has just been   *)
(* free.  The table of ports is under a mutex, from looking a profile up   *)
(* to entering its port; a panic in between leaves the mutex locked, since *)
(* net/http goes on after it.                                              *)
(***************************************************************************)
EXTENDS Naturals

CONSTANTS
  Path,     (* profiles                                                     *)
  File,     (* other files, which are sent as they are                      *)
  Request,
  PathOf,   (* what a request asks for                                      *)
  Port,
  None,
  MaxExits  (* bound: ends of the process                                   *)

ASSUME ViewerAssumption ==
  /\ PathOf \in [Request -> Path \cup File] /\ Path \cap File = {}
  /\ None \notin Request \cup Port /\ MaxExits \in Nat

VARIABLES
  pc,         (* progress of a request                                      *)
  mutex,      (* the request that has locked listeners, or None             *)
  path2port,  (* function from the profiles that have a port                *)
  port,       (* the port of a request                                      *)
  viewer,     (* the process that a request has started                     *)
  exits       (* how often the process ended                                *)

vars == <<pc, mutex, path2port, port, viewer, exits>>

Init ==
  /\ pc = [r \in Request |-> "new"] /\ mutex = None
  /\ path2port = [p \in {} |-> None]
  /\ port = [r \in Request |-> None] /\ viewer = [r \in Request |-> "none"]
  /\ exits = 0

Step(r, from, to) == pc[r] = from /\ pc' = [pc EXCEPT ![r] = to]

-----------------------------------------------------------------------------
(* Plausible mistakes in the code, each to stand in for the definition of  *)
(* the same name without its suffix.                                       *)

(* the mutex is locked for the look-up and for the entry, not between them *)
Lock_LookUpOnly(r) ==
  /\ Step(r, "arrived", "listen") /\ PathOf[r] \in Path
  /\ mutex = None /\ PathOf[r] \notin DOMAIN path2port
  /\ UNCHANGED <<mutex, path2port, port, viewer, exits>>
(* no Unlock in the else branch                                            *)
LookUp_Locked(r) ==
  /\ Step(r, "arrived", "proxy")
  /\ mutex = None /\ PathOf[r] \in DOMAIN path2port /\ mutex' = r
  /\ port' = [port EXCEPT ![r] = path2port[PathOf[r]]]
  /\ UNCHANGED <<path2port, viewer, exits>>
(* `port := GetAvailablePort()` in a block of its own: the variable of the *)
(* handler, still unset, is what is entered                                *)
Enter_Shadowed(r) ==
  /\ Step(r, "enter", "proxy") /\ mutex' = None
  /\ path2port' = [p \in DOMAIN path2port \cup {PathOf[r]} |->
                     IF p = PathOf[r] THEN None ELSE path2port[p]]
  /\ UNCHANGED <<port, viewer, exits>>

-----------------------------------------------------------------------------
Arrive(r) ==
  /\ Step(r, "new", "arrived")
  /\ UNCHANGED <<mutex, path2port, port, viewer, exits>>

(* dstat.log and everything else touch nothing that requests share. *)
ServeFile(r) ==
  /\ Step(r, "arrived", "over") /\ PathOf[r] \in File
  /\ UNCHANGED <<mutex, path2port, port, viewer, exits>>

LookUp(r) ==
  /\ Step(r, "arrived", "proxy")
  /\ mutex = None /\ PathOf[r] \in DOMAIN path2port
  /\ port' = [port EXCEPT ![r] = path2port[PathOf[r]]]
  /\ UNCHANGED <<mutex, path2port, viewer, exits>>

(* The first request for a profile keeps the mutex. *)
Lock(r) ==
  /\ Step(r, "arrived", "listen") /\ PathOf[r] \in Path
  /\ mutex = None /\ PathOf[r] \notin DOMAIN path2port /\ mutex' = r
  /\ UNCHANGED <<path2port, port, viewer, exits>>

(* GetAvailablePort: the port is free again before the viewer takes it.    *)
Taken(n) == \E r \in Request : /\ port[r] = n
                               /\ pc[r] = "close" \/ viewer[r] = "listening"

Listen(r) ==
  /\ Step(r, "listen", "close")
  /\ \E n \in {m \in Port : ~Taken(m)} : port' = [port EXCEPT ![r] = n]
  /\ UNCHANGED <<mutex, path2port, viewer, exits>>

Close(r) ==
  /\ Step(r, "close", "exec")
  /\ UNCHANGED <<mutex, path2port, port, viewer, exits>>

(* Listen fails, always when no port is free, or Close does. *)
Panic(r) ==
  /\ Step(r, "listen", "died") \/ Step(r, "close", "died")
  /\ UNCHANGED <<mutex, path2port, port, viewer, exits>>

Exec(r) ==
  /\ Step(r, "exec", "enter")
  /\ viewer' = [viewer EXCEPT ![r] = "starting"]
  /\ UNCHANGED <<mutex, path2port, port, exits>>

Enter(r) ==
  /\ Step(r, "enter", "proxy") /\ mutex' = None
  /\ path2port' = [p \in DOMAIN path2port \cup {PathOf[r]} |->
                     IF p = PathOf[r] THEN port[r] ELSE path2port[p]]
  /\ UNCHANGED <<port, viewer, exits>>

(* The answer of what listens on the port, or 502 if nothing does: the one *)
(* second that the first request sleeps promises nothing.                  *)
Proxy(r) ==
  /\ Step(r, "proxy", "over")
  /\ UNCHANGED <<mutex, path2port, port, viewer, exits>>

(* A viewer begins to listen, unless its port is taken, or ends, at once   *)
(* when its profile is not there; nobody waits for it.                     *)
Bind(r) ==
  /\ viewer[r] = "starting" /\ ~Taken(port[r])
  /\ viewer' = [viewer EXCEPT ![r] = "listening"]
  /\ UNCHANGED <<pc, mutex, path2port, port, exits>>
Quit(r) ==
  /\ viewer[r] \in {"starting", "listening"}
  /\ viewer' = [viewer EXCEPT ![r] = "dead"]
  /\ UNCHANGED <<pc, mutex, path2port, port, exits>>

(* log.Fatal, where a viewer or aha cannot be started or read, ends the    *)
(* process and all requests; systemd ends the viewers and starts it again. *)
Exit ==
  /\ exits < MaxExits /\ exits' = exits + 1
  /\ pc' = [r \in Request |-> IF pc[r] = "new" THEN "new" ELSE "over"]
  /\ mutex' = None /\ path2port' = [p \in {} |-> None]
  /\ port' = [r \in Request |-> None] /\ viewer' = [r \in Request |-> "none"]

Serve(r) ==
  \/ ServeFile(r) \/ LookUp(r) \/ Lock(r)
  \/ Listen(r) \/ Close(r) \/ Panic(r) \/ Exec(r) \/ Enter(r) \/ Proxy(r)

Next ==
  \/ \E r \in Request : Arrive(r) \/ Serve(r) \/ Bind(r) \/ Quit(r)
  \/ Exit

Spec == Init /\ [][Next]_vars

(* Handlers run; requests, viewers and ends of the process come as they do. *)
FairSpec == Spec /\ \A r \in Request : WF_vars(Serve(r))

-----------------------------------------------------------------------------
TypeOK ==
  /\ pc \in [Request -> {"new", "arrived", "listen", "close", "exec", "enter", "proxy",
                         "died", "over"}]
  /\ mutex \in Request \cup {None}
  /\ DOMAIN path2port \subseteq Path /\ \A p \in DOMAIN path2port : path2port[p] \in Port
  /\ port \in [Request -> Port \cup {None}]
  /\ viewer \in [Request -> {"none", "starting", "listening", "dead"}]
  /\ exits \in 0 .. MaxExits

(* However many requests ask for a profile at once, one viewer of it is    *)
(* started, and the port of the table is the one it was given: from the    *)
(* look-up to the entry no other handler gets in between.                  *)
Started(p) == {r \in Request : PathOf[r] = p /\ viewer[r] # "none"}

OneViewerPerPath ==
  \A p \in Path :
    /\ \A r, q \in Started(p) : r = q
    /\ \A r \in Started(p) : pc[r] # "enter" =>
         p \in DOMAIN path2port /\ path2port[p] = port[r]
    /\ p \in DOMAIN path2port => Started(p) # {}

(* A request is answered, whatever the others do.  Only a handler that     *)
(* panicked with the mutex locked can stop the requests for profiles, for  *)
(* good; files are sent all the same.                                      *)
Stuck(r) == PathOf[r] \in Path /\ \E q \in Request : pc[q] = "died" /\ mutex = q

RequestsEnd == \A r \in Request : pc[r] = "arrived" ~> (pc[r] \in {"over", "died"} \/ Stuck(r))
=============================================================================
