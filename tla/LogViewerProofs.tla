---------------------------- MODULE LogViewerProofs ----------------------------
(***************************************************************************)
(* One viewer per profile, for any requests, profiles and ports.  Whoever  *)
(* is between the look-up and the entry of the port has the mutex (Held),  *)
(* and its profile is not in the table: a viewer of the profile that has   *)
(* been started would be in the table, or its handler would have the mutex.*)
(***************************************************************************)
EXTENDS LogViewer, TLAPS

Held ==
  \A r \in Request :
    /\ pc[r] \in {"listen", "close", "exec", "enter"} =>
         mutex = r /\ PathOf[r] \in Path /\ PathOf[r] \notin DOMAIN path2port
    /\ pc[r] \in {"exec", "close", "enter"} => port[r] \in Port
    /\ viewer[r] # "none" => pc[r] \in {"enter", "proxy", "over"}
    /\ pc[r] = "enter" => viewer[r] # "none"

Inv == TypeOK /\ Held /\ OneViewerPerPath

LEMMA InitInv == Init => Inv
BY ViewerAssumption DEF Init, Inv, TypeOK, Held, OneViewerPerPath, Started

(* The steps before the table is touched. *)
LEMMA LookInv ==
  ASSUME Inv, NEW r \in Request, Arrive(r) \/ ServeFile(r) \/ LookUp(r) \/ Lock(r)
  PROVE  Inv'
<1>1. viewer[r] = "none"
  BY DEF Inv, Held, Arrive, ServeFile, LookUp, Lock, Step
<1>2. CASE Arrive(r)
  BY <1>1, <1>2 DEF Arrive, Step, Inv, TypeOK, Held, OneViewerPerPath, Started
<1>3. CASE ServeFile(r)
  BY <1>1, <1>3 DEF ServeFile, Step, Inv, TypeOK, Held, OneViewerPerPath, Started
<1>4. CASE LookUp(r)
  BY <1>1, <1>4 DEF LookUp, Step, Inv, TypeOK, Held, OneViewerPerPath, Started
<1>5. CASE Lock(r)
  BY <1>1, <1>5, ViewerAssumption DEF Lock, Step, Inv, TypeOK, Held, OneViewerPerPath, Started
<1> QED
  BY <1>2, <1>3, <1>4, <1>5

LEMMA PortInv ==
  ASSUME Inv, NEW r \in Request, Listen(r) \/ Close(r) \/ Panic(r) \/ Proxy(r)
  PROVE  Inv'
<1>1. CASE Listen(r)
  BY <1>1 DEF Listen, Step, Inv, TypeOK, Held, OneViewerPerPath, Started
<1>2. CASE Close(r)
  BY <1>2 DEF Close, Step, Inv, TypeOK, Held, OneViewerPerPath, Started
<1>3. CASE Panic(r)
  BY <1>3 DEF Panic, Step, Inv, TypeOK, Held, OneViewerPerPath, Started
<1>4. CASE Proxy(r)
  BY <1>4 DEF Proxy, Step, Inv, TypeOK, Held, OneViewerPerPath, Started
<1> QED
  BY <1>1, <1>2, <1>3, <1>4

LEMMA ExecInv ==
  ASSUME Inv, NEW r \in Request, Exec(r)
  PROVE  Inv'
<1>1. \A q \in Started(PathOf[r]) : FALSE
  BY DEF Exec, Step, Inv, TypeOK, Held, OneViewerPerPath, Started
<1>2. TypeOK' /\ Held'
  BY DEF Exec, Step, Inv, TypeOK, Held
<1>3. \A p \in Path : p # PathOf[r] => Started(p)' = Started(p)
  BY DEF Exec, Inv, TypeOK, Started
<1>4. Started(PathOf[r])' = {r}
  BY <1>1 DEF Exec, Inv, TypeOK, Started
<1>5. ASSUME NEW p \in Path
      PROVE  /\ \A a, b \in Started(p)' : a = b
             /\ \A q \in Started(p)' : pc'[q] # "enter" =>
                  p \in DOMAIN path2port' /\ path2port'[p] = port'[q]
             /\ p \in DOMAIN path2port' => Started(p)' # {}
  <2>1. CASE p = PathOf[r]
    BY <1>4, <2>1 DEF Exec, Step, Inv, TypeOK, Held
  <2>2. CASE p # PathOf[r]
    BY <1>3, <2>2 DEF Exec, Step, Inv, TypeOK, OneViewerPerPath, Started
  <2> QED
    BY <2>1, <2>2
<1> QED
  BY <1>2, <1>5 DEF Inv, OneViewerPerPath

LEMMA EnterInv ==
  ASSUME Inv, NEW r \in Request, Enter(r)
  PROVE  Inv'
<1>1. /\ mutex = r /\ PathOf[r] \in Path /\ port[r] \in Port /\ r \in Started(PathOf[r])
      /\ \A q \in Request : pc'[q] \notin {"listen", "close", "exec", "enter"}
  BY DEF Enter, Step, Inv, TypeOK, Held, Started
<1>2. /\ DOMAIN path2port' = DOMAIN path2port \cup {PathOf[r]}
      /\ path2port'[PathOf[r]] = port[r]
      /\ \A p \in DOMAIN path2port : p # PathOf[r] => path2port'[p] = path2port[p]
  BY DEF Enter
<1>3. TypeOK'
  BY <1>1, <1>2 DEF Enter, Step, Inv, TypeOK
<1>4. Held'
  BY <1>1 DEF Enter, Step, Inv, TypeOK, Held
<1>5. \A p : Started(p)' = Started(p)
  BY DEF Enter, Started
<1>6. OneViewerPerPath'
  <2> SUFFICES ASSUME NEW p \in Path
               PROVE  /\ \A a, b \in Started(p) : a = b
                      /\ \A q \in Started(p) : pc'[q] # "enter" =>
                           p \in DOMAIN path2port' /\ path2port'[p] = port[q]
                      /\ p \in DOMAIN path2port' => Started(p) # {}
    BY <1>5 DEF OneViewerPerPath, Enter
  <2>1. CASE p = PathOf[r]
    BY <1>1, <1>2, <2>1 DEF Inv, OneViewerPerPath
  <2>2. CASE p # PathOf[r]
    <3>1. \A q \in Started(p) : pc'[q] = pc[q]
      BY <2>2 DEF Started, Enter, Step, Inv, TypeOK
    <3> QED
      BY <1>2, <2>2, <3>1 DEF Inv, OneViewerPerPath
  <2> QED
    BY <2>1, <2>2
<1> QED
  BY <1>3, <1>4, <1>6 DEF Inv

LEMMA ViewerInv ==
  ASSUME Inv, NEW r \in Request, Bind(r) \/ Quit(r)
  PROVE  Inv'
<1>1. \A q \in Request : viewer'[q] = "none" <=> viewer[q] = "none"
  BY DEF Bind, Quit, Inv, TypeOK
<1>2. \A p : Started(p)' = Started(p)
  BY <1>1 DEF Started
<1>3. TypeOK' /\ Held'
  BY <1>1 DEF Bind, Quit, Inv, TypeOK, Held
<1> QED
  BY <1>2, <1>3 DEF Bind, Quit, Inv, OneViewerPerPath

LEMMA ExitInv ==
  ASSUME Inv, Exit
  PROVE  Inv'
<1>1. TypeOK'
  BY ViewerAssumption DEF Exit, Inv, TypeOK
<1>2. Held' /\ OneViewerPerPath'
  BY DEF Exit, Held, OneViewerPerPath, Started
<1> QED
  BY <1>1, <1>2 DEF Inv

LEMMA Invariant == Spec => []Inv
<1>1. Inv /\ [Next]_vars => Inv'
  <2> SUFFICES ASSUME Inv, [Next]_vars PROVE Inv'
    OBVIOUS
  <2>1. CASE UNCHANGED vars
    BY <2>1 DEF vars, Inv, TypeOK, Held, OneViewerPerPath, Started
  <2> QED
    BY <2>1, LookInv, PortInv, ExecInv, EnterInv, ViewerInv, ExitInv DEF Next, Serve
<1> QED
  BY <1>1, InitInv, PTL DEF Spec

(* The variables keep their types, and only profiles have ports.           *)
THEOREM TypeCorrect == Spec => []TypeOK
<1>1. Inv => TypeOK
  BY DEF Inv
<1> QED
  BY <1>1, Invariant, PTL

(* One viewer per profile, and the table has its port, although handlers   *)
(* run side by side, panic and end with the process.                       *)
THEOREM ViewersAreUnique == Spec => []OneViewerPerPath
<1>1. Inv => OneViewerPerPath
  BY DEF Inv
<1> QED
  BY <1>1, Invariant, PTL
=============================================================================
