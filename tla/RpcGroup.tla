-------------------------------- MODULE RpcGroup --------------------------------
(***************************************************************************)
(* Group.Call of go/rpcgroup.  Every process holds one Client per other    *)
(* member: a bounded channel of requests and one goroutine that takes the  *)
(* oldest, dials the member if it has no connection yet, and sends it.     *)
(* The member runs each request in a goroutine of its own.  Processes die  *)
(* and are restarted; a restarted process listens before it has registered *)
(* its functions.                                                          *)
(***************************************************************************)
EXTENDS Naturals, Sequences

CONSTANTS
  Host,
  Call,       (* calls of Group.Call                                        *)
  CallerOf,   (* the process that makes a call                              *)
  Cap,        (* capacity of callChannel: 1000 in the code                  *)
  None,
  MaxCrash    (* bound: crashes                                             *)

ASSUME RpcAssumption ==
  /\ CallerOf \in [Call -> Host] /\ None \notin Call
  /\ Cap \in Nat \ {0} /\ MaxCrash \in Nat

VARIABLES
  proc,     (* a process: "down", "listening" or, once registered, "up"     *)
  call,     (* progress of a call: "new", "open", "returned" or "dead"      *)
  leg,      (* the goroutine of a call for one member                       *)
  channel,  (* callChannel of the client of one process for another         *)
  taken,    (* the request its serve goroutine is dealing with              *)
  conn,     (* its rpc_client: "nil", "open", or "broken" for good          *)
  crashes

vars == <<proc, call, leg, channel, taken, conn, crashes>>

LegState == {"none", "spawned", "queued", "sent", "running", "done",
             "refused",   (* written to a connection that was broken before *)
             "lost",      (* sent, but the peer died before it started it   *)
             "aborted",   (* the peer died while it ran                     *)
             "forgotten"} (* the caller died before it was sent             *)

Init ==
  /\ proc = [h \in Host |-> "up"]
  /\ call = [c \in Call |-> "new"]
  /\ leg = [c \in Call |-> [d \in Host |-> "none"]]
  /\ channel = [s \in Host |-> [d \in Host |-> << >>]]
  /\ taken = [s \in Host |-> [d \in Host |-> None]]
  /\ conn = [s \in Host |-> [d \in Host |-> "nil"]]
  /\ crashes = 0

Leg(c, d, from, to) == /\ leg[c][d] = from
                       /\ leg' = [leg EXCEPT ![c][d] = to]

-----------------------------------------------------------------------------
(* Plausible mistakes in the code, each to stand in for the definition of  *)
(* the same name without its suffix.                                       *)

(* wg.Wait does not wait for the call of the own process                   *)
Return_OthersOnly(c) ==
  /\ call[c] = "open" /\ \A d \in Host \ {CallerOf[c]} : leg[c][d] = "done"
  /\ call' = [call EXCEPT ![c] = "returned"]
  /\ UNCHANGED <<proc, leg, channel, taken, conn, crashes>>
(* the request stays in the queue until it has been sent                   *)
Take_Peeked(s, d) ==
  /\ taken[s][d] = None /\ channel[s][d] # << >>
  /\ taken' = [taken EXCEPT ![s][d] = Head(channel[s][d])]
  /\ UNCHANGED <<proc, call, leg, channel, conn, crashes>>
(* serve does not wait for a request and goes on with nil                  *)
Take_Polled(s, d) ==
  /\ taken[s][d] = None
  /\ taken' = [taken EXCEPT ![s][d] = IF channel[s][d] = << >> THEN "nil" ELSE Head(channel[s][d])]
  /\ channel' = [channel EXCEPT ![s][d] = IF @ = << >> THEN @ ELSE Tail(@)]
  /\ UNCHANGED <<proc, call, leg, conn, crashes>>
(* the error of a call is logged and the response awaited                  *)
Failed_Ignored(c, d) == FALSE

-----------------------------------------------------------------------------
(* Group.Call: one goroutine per member. *)
Begin(c) ==
  /\ call[c] = "new" /\ proc[CallerOf[c]] = "up"
  /\ call' = [call EXCEPT ![c] = "open"]
  /\ leg' = [leg EXCEPT ![c] = [d \in Host |-> "spawned"]]
  /\ UNCHANGED <<proc, channel, taken, conn, crashes>>

(* The member that is the caller itself is called without a client. *)
RunLocal(c) ==
  /\ Leg(c, CallerOf[c], "spawned", "running")
  /\ UNCHANGED <<proc, call, channel, taken, conn, crashes>>

(* Client.Call blocks while the channel is full. *)
Enqueue(c, d) ==
  LET s == CallerOf[c] IN
  /\ d # s /\ Leg(c, d, "spawned", "queued")
  /\ Len(channel[s][d]) < Cap
  /\ channel' = [channel EXCEPT ![s][d] = Append(@, c)]
  /\ UNCHANGED <<proc, call, taken, conn, crashes>>

(* Client.serve takes a request, connects if there is no connection yet,   *)
(* retrying while the member is down, and sends.                           *)
Take(s, d) ==
  /\ taken[s][d] = None /\ channel[s][d] # << >>
  /\ taken' = [taken EXCEPT ![s][d] = Head(channel[s][d])]
  /\ channel' = [channel EXCEPT ![s][d] = Tail(@)]
  /\ UNCHANGED <<proc, call, leg, conn, crashes>>

Connect(s, d) ==
  /\ taken[s][d] # None /\ conn[s][d] = "nil" /\ proc[d] # "down"
  /\ conn' = [conn EXCEPT ![s][d] = "open"]
  /\ UNCHANGED <<proc, call, leg, channel, taken, crashes>>

Send(s, d) ==
  /\ taken[s][d] # None /\ conn[s][d] # "nil"
  /\ Leg(taken[s][d], d, "queued", IF conn[s][d] = "open" THEN "sent" ELSE "refused")
  /\ taken' = [taken EXCEPT ![s][d] = None]
  /\ UNCHANGED <<proc, call, channel, conn, crashes>>

(* Dummy.Call at the member, in a goroutine per request. *)
Run(c, d) ==
  /\ proc[d] = "up" /\ Leg(c, d, "sent", "running")
  /\ UNCHANGED <<proc, call, channel, taken, conn, crashes>>

(* The function ends and its reply reaches the caller. *)
Finish(c, d) ==
  /\ Leg(c, d, "running", "done")
  /\ UNCHANGED <<proc, call, channel, taken, conn, crashes>>

Return(c) ==
  /\ call[c] = "open" /\ \A d \in Host : leg[c][d] = "done"
  /\ call' = [call EXCEPT ![c] = "returned"]
  /\ UNCHANGED <<proc, leg, channel, taken, conn, crashes>>

-----------------------------------------------------------------------------
(* Death of process h: its channels and connections go with it; the calls  *)
(* it was executing fail; its own calls die, and those it has not sent are *)
(* forgotten.                                                              *)
LegAfter(c, d, h) ==
  IF d = h /\ leg[c][d] = "running" THEN "aborted"
  ELSE IF d = h /\ leg[c][d] = "sent" THEN "lost"
  ELSE IF CallerOf[c] = h /\ leg[c][d] \in {"spawned", "queued"} THEN "forgotten"
  ELSE leg[c][d]

Dies(h) ==
  /\ proc' = [proc EXCEPT ![h] = "down"]
  /\ call' = [c \in Call |-> IF CallerOf[c] = h /\ call[c] = "open" THEN "dead" ELSE call[c]]
  /\ leg' = [c \in Call |-> [d \in Host |-> LegAfter(c, d, h)]]
  /\ channel' = [channel EXCEPT ![h] = [d \in Host |-> << >>]]
  /\ taken' = [taken EXCEPT ![h] = [d \in Host |-> None]]
  /\ conn' = [s \in Host |-> [d \in Host |->
       IF s = h THEN "nil" ELSE IF d = h /\ conn[s][d] = "open" THEN "broken" ELSE conn[s][d]]]

Crash(h) == /\ proc[h] # "down" /\ crashes < MaxCrash /\ crashes' = crashes + 1
            /\ Dies(h)

(* A function that is called before it is registered: log.Panicf. *)
Panic(c, d) == /\ proc[d] = "listening" /\ leg[c][d] = "sent"
               /\ Dies(d) /\ UNCHANGED crashes

(* An RPC error is log.Fatal in the caller. *)
Failed(c, d) == call[c] = "open" /\ leg[c][d] \in {"refused", "lost", "aborted"}
Fatal(c, d)  == /\ Failed(c, d) /\ CallerOf[c] # d
                /\ Dies(CallerOf[c]) /\ UNCHANGED crashes

Listen(h)   == /\ proc[h] = "down" /\ proc' = [proc EXCEPT ![h] = "listening"]
               /\ UNCHANGED <<call, leg, channel, taken, conn, crashes>>
Register(h) == /\ proc[h] = "listening" /\ proc' = [proc EXCEPT ![h] = "up"]
               /\ UNCHANGED <<call, leg, channel, taken, conn, crashes>>

-----------------------------------------------------------------------------
(* The goroutines of process h. *)
CallerStep(h) == \E c \in Call : /\ CallerOf[c] = h
                               /\ \/ RunLocal(c) \/ Return(c)
                                  \/ \E d \in Host : Enqueue(c, d) \/ Fatal(c, d)
ServeStep(h)  == \E d \in Host : Take(h, d) \/ Connect(h, d) \/ Send(h, d)
ServerStep(h) == \E c \in Call : Run(c, h) \/ Finish(c, h) \/ Panic(c, h)
ProcessStep(h) ==
  CallerStep(h) \/ ServeStep(h) \/ ServerStep(h) \/ Listen(h) \/ Register(h)

Next == \/ \E c \in Call : Begin(c)
        \/ \E h \in Host : ProcessStep(h) \/ Crash(h)

(* A process with something to do does something, and systemd restarts it; *)
(* nobody has to call.                                                     *)
Fairness == \A h \in Host : WF_vars(ProcessStep(h))

Spec == Init /\ [][Next]_vars
FairSpec == Spec /\ Fairness

-----------------------------------------------------------------------------
TypeOK ==
  /\ proc \in [Host -> {"down", "listening", "up"}]
  /\ call \in [Call -> {"new", "open", "returned", "dead"}]
  /\ leg \in [Call -> [Host -> LegState]]
  /\ channel \in [Host -> [Host -> Seq(Call)]]
  /\ taken \in [Host -> [Host -> Call \cup {None}]]
  /\ conn \in [Host -> [Host -> {"nil", "open", "broken"}]]
  /\ crashes \in 0 .. MaxCrash

(* A request that waits to be sent is in its client exactly once: nothing  *)
(* is dropped or sent twice between Client.Call and rpc_client.Go, and the *)
(* channel is never over its capacity.                                     *)
Places(c, d) == LET s == CallerOf[c] IN
  {i \in 1 .. Len(channel[s][d]) : channel[s][d][i] = c}
    \cup (IF taken[s][d] = c THEN {0} ELSE {})

QueuedOnce ==
  /\ \A c \in Call, d \in Host :
       IF leg[c][d] = "queued" THEN \E i \in Places(c, d) : Places(c, d) = {i}
                               ELSE Places(c, d) = {}
  /\ \A s, d \in Host : Len(channel[s][d]) <= Cap

(* Group.Call does what Broadcast says.                                    *)
B == INSTANCE Broadcast WITH
  started  <- [c \in Call |-> {d \in Host : leg[c][d] \in {"running", "done", "aborted"}}],
  finished <- [c \in Call |-> {d \in Host : leg[c][d] = "done"}]

BroadcastSpec == B!Spec

(* A call ends, or its process dies: whatever connections break and        *)
(* whoever restarts, nobody waits for ever.                                *)
CallEnds == \A c \in Call : call[c] = "open" ~> call[c] # "open"
=============================================================================
