----------------------------- MODULE RpcGroupProofs -----------------------------
(***************************************************************************)
(* Group.Call implements Broadcast, for any number of processes, calls and *)
(* crashes.  A step of the detailed specification that starts or ends the  *)
(* function on a member is such a step of Broadcast only if the call has   *)
(* begun and not returned, which the invariant CallPhase gives: the legs   *)
(* of a call that has not begun do not exist, and those of a call that     *)
(* returned have ended.  The second part proves that the queues are exact. *)
(***************************************************************************)
EXTENDS RpcGroup, TLAPS

CallPhase ==
  \A c \in Call : /\ call[c] = "new" => \A d \in Host : leg[c][d] = "none"
                  /\ call[c] = "returned" => \A d \in Host : leg[c][d] = "done"

Inv == TypeOK /\ CallPhase

USE RpcAssumption

-----------------------------------------------------------------------------
(* A leg moves and no other leg does. *)
LEMMA LegMoves ==
  ASSUME TypeOK, NEW c, NEW d, NEW from, NEW to \in LegState, Leg(c, d, from, to)
  PROVE  /\ leg' \in [Call -> [Host -> LegState]]
         /\ \A x \in Call, y \in Host :
              leg'[x][y] = IF x = c /\ y = d THEN to ELSE leg[x][y]
BY DEF TypeOK, Leg

(* What one step of each process does to the types. *)
LEMMA DiesKeepsTypes ==
  ASSUME TypeOK, NEW h \in Host, Dies(h), crashes' \in 0 .. MaxCrash
  PROVE  TypeOK'
<1>1. proc' \in [Host -> {"down", "listening", "up"}]
  BY DEF TypeOK, Dies
<1>2. call' \in [Call -> {"new", "open", "returned", "dead"}]
  BY DEF TypeOK, Dies
<1>3. leg' \in [Call -> [Host -> LegState]]
  BY DEF TypeOK, Dies, LegAfter, LegState
<1>4. channel' \in [Host -> [Host -> Seq(Call)]]
  BY DEF TypeOK, Dies
<1>5. taken' \in [Host -> [Host -> Call \cup {None}]]
  BY DEF TypeOK, Dies
<1>6. conn' \in [Host -> [Host -> {"nil", "open", "broken"}]]
  BY DEF TypeOK, Dies
<1> QED
  BY <1>1, <1>2, <1>3, <1>4, <1>5, <1>6 DEF TypeOK

LEMMA TypeStep == TypeOK /\ [Next]_vars => TypeOK'
<1> SUFFICES ASSUME TypeOK, [Next]_vars PROVE TypeOK'
  OBVIOUS
<1>1. ASSUME NEW c \in Call, Begin(c) \/ Return(c) \/ RunLocal(c) PROVE TypeOK'
  <2>1. CASE Begin(c)
    <3>1. leg' \in [Call -> [Host -> LegState]]
      BY <2>1 DEF TypeOK, Begin, LegState
    <3> QED
      BY <2>1, <3>1 DEF TypeOK, Begin
  <2>2. CASE Return(c)
    BY <2>2 DEF TypeOK, Return
  <2>3. CASE RunLocal(c)
    <3>1. leg' \in [Call -> [Host -> LegState]]
      BY <2>3, LegMoves DEF RunLocal, LegState
    <3> QED
      BY <2>3, <3>1 DEF TypeOK, RunLocal
  <2> QED
    BY <1>1, <2>1, <2>2, <2>3
<1>2. ASSUME NEW c \in Call, NEW d \in Host, Enqueue(c, d) PROVE TypeOK'
  BY <1>2 DEF TypeOK, Enqueue, Leg, LegState
<1>3. ASSUME NEW c \in Call, NEW d \in Host, Run(c, d) \/ Finish(c, d) PROVE TypeOK'
  <2>1. leg' \in [Call -> [Host -> LegState]]
    BY <1>3, LegMoves DEF Run, Finish, LegState
  <2> QED
    BY <1>3, <2>1 DEF TypeOK, Run, Finish
<1>4. ASSUME NEW s \in Host, NEW d \in Host, Take(s, d) PROVE TypeOK'
  <2>1. Head(channel[s][d]) \in Call /\ Tail(channel[s][d]) \in Seq(Call)
    BY <1>4 DEF TypeOK, Take
  <2> QED
    BY <1>4, <2>1 DEF TypeOK, Take
<1>5. ASSUME NEW s \in Host, NEW d \in Host, Connect(s, d) \/ Send(s, d) PROVE TypeOK'
  <2>1. CASE Connect(s, d)
    BY <2>1 DEF TypeOK, Connect
  <2>2. CASE Send(s, d)
    <3>1. leg' \in [Call -> [Host -> LegState]]
      BY <2>2, LegMoves DEF Send, LegState
    <3> QED
      BY <2>2, <3>1 DEF TypeOK, Send
  <2> QED
    BY <1>5, <2>1, <2>2
<1>6. ASSUME NEW h \in Host, Crash(h) PROVE TypeOK'
  <2>1. crashes' \in 0 .. MaxCrash
    BY <1>6 DEF TypeOK, Crash
  <2> QED
    BY <1>6, <2>1, DiesKeepsTypes DEF Crash
<1>7. ASSUME NEW c \in Call, NEW d \in Host, Panic(c, d) \/ Fatal(c, d) PROVE TypeOK'
  <2>1. crashes' \in 0 .. MaxCrash
    BY <1>7 DEF TypeOK, Panic, Fatal
  <2> QED
    BY <1>7, <2>1, DiesKeepsTypes DEF Panic, Fatal
<1>8. ASSUME NEW h \in Host, Listen(h) \/ Register(h) PROVE TypeOK'
  BY <1>8 DEF TypeOK, Listen, Register
<1>9. CASE UNCHANGED vars
  BY <1>9 DEF TypeOK, vars
<1> QED
  BY <1>1, <1>2, <1>3, <1>4, <1>5, <1>6, <1>7, <1>8, <1>9
     DEF Next, ProcessStep, CallerStep, ServeStep, ServerStep

(* Every variable keeps its type: nothing but requests is in a channel,    *)
(* and serve never goes on without one.                                    *)
THEOREM TypeCorrect == Spec => []TypeOK
<1>1. Init => TypeOK
  BY DEF Init, TypeOK, LegState
<1> QED
  BY <1>1, TypeStep, PTL DEF Spec

-----------------------------------------------------------------------------
LEMMA DiesKeepsPhase ==
  ASSUME Inv, NEW h \in Host, Dies(h)
  PROVE  CallPhase'
BY DEF Inv, TypeOK, CallPhase, Dies, LegAfter

LEMMA PhaseStep == Inv /\ [Next]_vars => CallPhase'
<1> SUFFICES ASSUME Inv, [Next]_vars PROVE CallPhase'
  OBVIOUS
<1>1. ASSUME NEW c \in Call, Begin(c) \/ Return(c) \/ RunLocal(c) PROVE CallPhase'
  <2>1. CASE Begin(c)
    BY <2>1 DEF Inv, TypeOK, CallPhase, Begin
  <2>2. CASE Return(c)
    BY <2>2 DEF Inv, TypeOK, CallPhase, Return
  <2>3. CASE RunLocal(c)
    <3>1. leg[c][CallerOf[c]] = "spawned"
      BY <2>3 DEF RunLocal, Leg
    <3>2. \A x \in Call, y \in Host :
            leg'[x][y] = IF x = c /\ y = CallerOf[c] THEN "running" ELSE leg[x][y]
      BY <2>3, LegMoves DEF RunLocal, LegState, Inv
    <3> QED
      BY <2>3, <3>1, <3>2 DEF Inv, CallPhase, RunLocal
  <2> QED
    BY <1>1, <2>1, <2>2, <2>3
<1>2. ASSUME NEW c \in Call, NEW d \in Host, Enqueue(c, d) \/ Run(c, d) \/ Finish(c, d)
      PROVE  CallPhase'
  <2>1. \A x \in Call, y \in Host :
          leg[x][y] \in {"none", "done"} => leg'[x][y] = leg[x][y]
    BY <1>2, LegMoves DEF Enqueue, Run, Finish, LegState, Inv, Leg
  <2> QED
    BY <1>2, <2>1 DEF Inv, CallPhase, Enqueue, Run, Finish
<1>3. ASSUME NEW s \in Host, NEW d \in Host, Take(s, d) \/ Connect(s, d) PROVE CallPhase'
  BY <1>3 DEF CallPhase, Inv, Take, Connect
<1>4. ASSUME NEW s \in Host, NEW d \in Host, Send(s, d) PROVE CallPhase'
  BY <1>4 DEF Inv, TypeOK, CallPhase, Send, Leg
<1>5. ASSUME NEW h \in Host, Crash(h) PROVE CallPhase'
  BY <1>5, DiesKeepsPhase DEF Crash
<1>6. ASSUME NEW c \in Call, NEW d \in Host, Panic(c, d) \/ Fatal(c, d) PROVE CallPhase'
  BY <1>6, DiesKeepsPhase DEF Panic, Fatal
<1>7. ASSUME NEW h \in Host, Listen(h) \/ Register(h) PROVE CallPhase'
  BY <1>7 DEF Inv, CallPhase, Listen, Register
<1>8. CASE UNCHANGED vars
  BY <1>8 DEF Inv, CallPhase, vars
<1> QED
  BY <1>1, <1>2, <1>3, <1>4, <1>5, <1>6, <1>7, <1>8
     DEF Next, ProcessStep, CallerStep, ServeStep, ServerStep

LEMMA Invariant == Spec => []Inv
<1>1. Init => Inv
  BY DEF Init, Inv, TypeOK, LegState, CallPhase
<1>2. Inv /\ [Next]_vars => Inv'
  BY TypeStep, PhaseStep DEF Inv
<1> QED
  BY <1>1, <1>2, PTL DEF Spec

-----------------------------------------------------------------------------
(* The refinement. *)
Started(c)  == {d \in Host : leg[c][d] \in {"running", "done", "aborted"}}
Finished(c) == {d \in Host : leg[c][d] = "done"}

(* Only legs that start or end the function change what Broadcast sees.    *)
LEMMA SameView ==
  ASSUME Inv, call' = call,
         \A c \in Call, d \in Host :
           /\ leg'[c][d] \in {"running", "done", "aborted"} <=> leg[c][d] \in {"running", "done", "aborted"}
           /\ leg'[c][d] = "done" <=> leg[c][d] = "done"
  PROVE  UNCHANGED B!vars
BY DEF B!vars

LEMMA RunRefines ==
  ASSUME Inv, NEW c \in Call, NEW d \in Host, NEW from \in {"spawned", "sent"},
         Leg(c, d, from, "running"), call' = call
  PROVE  B!Start(c, d)
<1>1. call[c] \in {"open", "dead"}
  BY DEF Inv, TypeOK, CallPhase, Leg
<1>2. \A x \in Call, y \in Host :
        leg'[x][y] = IF x = c /\ y = d THEN "running" ELSE leg[x][y]
  BY LegMoves DEF Inv, LegState
<1>3. leg[c][d] = from
  BY DEF Leg
<1> DEFINE S == [x \in Call |-> Started(x)]
           F == [x \in Call |-> Finished(x)]
<1>4. S' = [S EXCEPT ![c] = @ \cup {d}]
  <2>1. Started(c)' = Started(c) \cup {d}
    BY <1>2, <1>3 DEF Started
  <2>2. \A x \in Call : x # c => Started(x)' = Started(x)
    BY <1>2 DEF Started
  <2> QED
    BY <2>1, <2>2
<1>5. F' = F
  <2>1. \A x \in Call : Finished(x)' = Finished(x)
    BY <1>2, <1>3 DEF Finished
  <2> QED
    BY <2>1
<1>6. d \notin S[c]
  BY <1>3 DEF Started
<1> QED
  BY <1>1, <1>4, <1>5, <1>6 DEF B!Start, Started, Finished

LEMMA FinishRefines ==
  ASSUME Inv, NEW c \in Call, NEW d \in Host, Finish(c, d)
  PROVE  B!Finish(c, d)
<1>1. \A x \in Call, y \in Host :
        leg'[x][y] = IF x = c /\ y = d THEN "done" ELSE leg[x][y]
  BY LegMoves DEF Inv, LegState, Finish
<1>2. leg[c][d] = "running" /\ call' = call
  BY DEF Finish, Leg
<1> DEFINE S == [x \in Call |-> Started(x)]
           F == [x \in Call |-> Finished(x)]
<1>3. S' = S
  <2>1. \A x \in Call : Started(x)' = Started(x)
    BY <1>1, <1>2 DEF Started
  <2> QED
    BY <2>1
<1>4. F' = [F EXCEPT ![c] = @ \cup {d}]
  <2>1. Finished(c)' = Finished(c) \cup {d}
    BY <1>1 DEF Finished
  <2>2. \A x \in Call : x # c => Finished(x)' = Finished(x)
    BY <1>1 DEF Finished
  <2> QED
    BY <2>1, <2>2
<1>5. d \in S[c] \ F[c]
  BY <1>2 DEF Started, Finished
<1> QED
  BY <1>2, <1>3, <1>4, <1>5 DEF B!Finish, Started, Finished

LEMMA DiesRefines ==
  ASSUME Inv, NEW h \in Host, Dies(h)
  PROVE  \E C \in SUBSET Call : B!Die(C)
<1> DEFINE C == {c \in Call : CallerOf[c] = h /\ call[c] = "open"}
<1>1. call' = [c \in Call |-> IF c \in C THEN "dead" ELSE call[c]]
  BY DEF Dies
<1>2. \A c \in Call : Started(c)' = Started(c) /\ Finished(c)' = Finished(c)
  BY DEF Dies, LegAfter, Started, Finished
<1>3. B!Die(C)
  BY <1>1, <1>2 DEF B!Die, Started, Finished
<1> QED
  BY <1>3

LEMMA StepRefines == Inv /\ [Next]_vars => [B!Next]_B!vars
<1> SUFFICES ASSUME Inv, [Next]_vars PROVE [B!Next]_B!vars
  OBVIOUS
<1>1. ASSUME NEW c \in Call, Begin(c) PROVE B!Begin(c)
  <2>1. \A x \in Call : Started(x)' = Started(x) /\ Finished(x)' = Finished(x)
    BY <1>1 DEF Begin, Started, Finished, Inv, TypeOK, CallPhase
  <2> QED
    BY <1>1, <2>1 DEF B!Begin, Begin, Started, Finished
<1>2. ASSUME NEW c \in Call, Return(c) PROVE B!Return(c)
  <2>1. Finished(c) = Host
    BY <1>2 DEF Return, Finished
  <2> QED
    BY <1>2, <2>1 DEF B!Return, Return, Finished
<1>3. ASSUME NEW c \in Call, RunLocal(c) PROVE B!Start(c, CallerOf[c])
  BY <1>3, RunRefines DEF RunLocal
<1>4. ASSUME NEW c \in Call, NEW d \in Host, Run(c, d) PROVE B!Start(c, d)
  BY <1>4, RunRefines DEF Run
<1>5. ASSUME NEW c \in Call, NEW d \in Host, Enqueue(c, d) PROVE UNCHANGED B!vars
  <2>1. \A x \in Call, y \in Host :
          leg'[x][y] = IF x = c /\ y = d THEN "queued" ELSE leg[x][y]
    BY <1>5, LegMoves DEF Enqueue, Inv, LegState
  <2> QED
    BY <1>5, <2>1, SameView DEF Enqueue, Leg
<1>6. ASSUME NEW s \in Host, NEW d \in Host, Send(s, d) PROVE UNCHANGED B!vars
  <2>1. PICK to \in {"sent", "refused"} : Leg(taken[s][d], d, "queued", to)
    BY <1>6 DEF Send
  <2>2. \A x \in Call, y \in Host :
          leg'[x][y] = IF x = taken[s][d] /\ y = d THEN to ELSE leg[x][y]
    BY <2>1, LegMoves DEF Inv, LegState
  <2> QED
    BY <1>6, <2>1, <2>2, SameView DEF Send, Leg
<1>7. ASSUME NEW s \in Host, NEW d \in Host, Take(s, d) \/ Connect(s, d)
      PROVE  UNCHANGED B!vars
  BY <1>7, SameView DEF Take, Connect
<1>8. ASSUME NEW h \in Host, Listen(h) \/ Register(h) PROVE UNCHANGED B!vars
  BY <1>8, SameView DEF Listen, Register
<1>9. ASSUME NEW h \in Host, Crash(h) PROVE B!Next
  BY <1>9, DiesRefines DEF Crash, B!Next
<1>10. ASSUME NEW c \in Call, NEW d \in Host, Panic(c, d) \/ Fatal(c, d) PROVE B!Next
  BY <1>10, DiesRefines DEF Panic, Fatal, B!Next
<1>11. ASSUME NEW c \in Call, NEW d \in Host, Finish(c, d) PROVE B!Finish(c, d)
  BY <1>11, FinishRefines
<1>12. CASE UNCHANGED vars
  BY <1>12, SameView DEF vars
<1> QED
  BY <1>1, <1>2, <1>3, <1>4, <1>5, <1>6, <1>7, <1>8, <1>9, <1>10, <1>11, <1>12
     DEF Next, ProcessStep, CallerStep, ServeStep, ServerStep, B!Next

(* Group.Call keeps the promise of Broadcast whatever processes die and    *)
(* however full the channels are: a member runs the function at most once, *)
(* and a call that returns has run it to its end on every member.          *)
THEOREM CallIsBroadcast == Spec => BroadcastSpec
<1>1. Init => B!Init
  BY DEF Init, B!Init
<1> QED
  BY <1>1, StepRefines, Invariant, PTL DEF Spec, BroadcastSpec, B!Spec
-----------------------------------------------------------------------------
(* The queues.  What makes QueuedOnce inductive: a client holds only calls *)
(* of its own process, each in one place, and exactly those that wait.     *)
Holds(s, d, c) == \/ taken[s][d] = c
                  \/ \E i \in 1 .. Len(channel[s][d]) : channel[s][d][i] = c

Owned == \A s, d \in Host, c \in Call : Holds(s, d, c) => CallerOf[c] = s

Distinct ==
  \A s, d \in Host : \A i \in 1 .. Len(channel[s][d]) :
    /\ channel[s][d][i] # taken[s][d]
    /\ \A j \in 1 .. Len(channel[s][d]) : channel[s][d][i] = channel[s][d][j] => i = j

Waiting == \A c \in Call, d \in Host : leg[c][d] = "queued" <=> Holds(CallerOf[c], d, c)

Bounded == \A s, d \in Host : Len(channel[s][d]) <= Cap

QueueInv == Owned /\ Distinct /\ Waiting /\ Bounded

(* A step that leaves the queues and the legs that wait in them alone. *)
LEMMA QueuesKept ==
  ASSUME TypeOK, QueueInv, UNCHANGED <<channel, taken>>,
         \A c \in Call, d \in Host : leg'[c][d] = "queued" <=> leg[c][d] = "queued"
  PROVE  QueueInv'
BY DEF QueueInv, Owned, Distinct, Waiting, Bounded, Holds

LEMMA EnqueueKeepsQueues ==
  ASSUME TypeOK, QueueInv, NEW c \in Call, NEW d \in Host, Enqueue(c, d)
  PROVE  QueueInv'
<1> DEFINE s == CallerOf[c]
           q == channel[s][d]
<1>0. s \in Host /\ q \in Seq(Call)
  BY DEF TypeOK
<1>1. /\ channel'[s][d] = Append(q, c)
      /\ \A x, y \in Host : x # s \/ y # d => channel'[x][y] = channel[x][y]
      /\ taken' = taken /\ leg[c][d] = "spawned" /\ Len(q) < Cap
  BY <1>0 DEF TypeOK, Enqueue, Leg
<1>2. \A x \in Call, y \in Host :
        leg'[x][y] = IF x = c /\ y = d THEN "queued" ELSE leg[x][y]
  BY LegMoves DEF Enqueue, LegState
<1>3. /\ Len(channel'[s][d]) = Len(q) + 1 /\ channel'[s][d][Len(q) + 1] = c
      /\ \A i \in 1 .. Len(q) : channel'[s][d][i] = q[i]
  BY <1>0, <1>1
<1>4. ~Holds(s, d, c)
  BY <1>0, <1>1 DEF QueueInv, Waiting
<1>5. \A x, y \in Host, k \in Call :
        Holds(x, y, k)' <=> Holds(x, y, k) \/ (x = s /\ y = d /\ k = c)
  <2> SUFFICES ASSUME NEW x \in Host, NEW y \in Host, NEW k \in Call
               PROVE  Holds(x, y, k)' <=> Holds(x, y, k) \/ (x = s /\ y = d /\ k = c)
    OBVIOUS
  <2>1. CASE x = s /\ y = d
    <3>1. \A i \in 1 .. Len(q) + 1 : i \in 1 .. Len(q) \/ i = Len(q) + 1
      BY <1>0
    <3>2. (\E i \in 1 .. Len(q) + 1 : channel'[s][d][i] = k)
            <=> ((\E i \in 1 .. Len(q) : q[i] = k) \/ k = c)
      <4>1. Len(q) \in Nat
        BY <1>0
      <4>2. Len(q) + 1 \in 1 .. Len(q) + 1 /\ \A i \in 1 .. Len(q) : i \in 1 .. Len(q) + 1
        BY <4>1
      <4>3. ASSUME NEW i \in 1 .. Len(q) + 1, channel'[s][d][i] = k
            PROVE  (\E j \in 1 .. Len(q) : q[j] = k) \/ k = c
        BY <1>3, <3>1, <4>3
      <4>4. ASSUME NEW i \in 1 .. Len(q), q[i] = k
            PROVE  \E j \in 1 .. Len(q) + 1 : channel'[s][d][j] = k
        BY <1>3, <4>2, <4>4
      <4>5. k = c => \E j \in 1 .. Len(q) + 1 : channel'[s][d][j] = k
        BY <1>3, <4>2
      <4> QED
        BY <4>3, <4>4, <4>5
    <3> QED
      BY <1>0, <1>1, <1>3, <2>1, <3>2 DEF Holds
  <2>2. CASE ~(x = s /\ y = d)
    BY <1>1, <2>2 DEF Holds
  <2> QED
    BY <2>1, <2>2
<1>6. Owned'
  BY <1>5 DEF QueueInv, Owned
<1>7. Distinct'
  <2> SUFFICES ASSUME NEW x \in Host, NEW y \in Host, NEW i \in 1 .. Len(channel'[x][y])
               PROVE  /\ channel'[x][y][i] # taken'[x][y]
                      /\ \A j \in 1 .. Len(channel'[x][y]) :
                           channel'[x][y][i] = channel'[x][y][j] => i = j
    BY DEF Distinct
  <2>1. CASE x = s /\ y = d
    <3>1. taken[s][d] # c /\ \A j \in 1 .. Len(q) : q[j] # c
      BY <1>4 DEF Holds
    <3>2. \A j \in 1 .. Len(channel'[s][d]) : j \in 1 .. Len(q) \/ j = Len(q) + 1
      BY <1>0, <1>3
    <3>3. /\ Len(q) \in Nat
          /\ \A a \in 1 .. Len(q) : q[a] # taken[s][d]
          /\ \A a, b \in 1 .. Len(q) : q[a] = q[b] => a = b
      BY <1>0 DEF QueueInv, Distinct
    <3>4. i \in 1 .. Len(channel'[s][d])
      BY <2>1
    <3>5. channel'[s][d][i] # taken[s][d]
      BY <1>3, <3>1, <3>2, <3>3, <3>4
    <3>6. ASSUME NEW j \in 1 .. Len(channel'[s][d]), channel'[s][d][i] = channel'[s][d][j]
          PROVE  i = j
      BY <1>3, <3>1, <3>2, <3>3, <3>4, <3>6
    <3> QED
      BY <1>1, <2>1, <3>5, <3>6
  <2>2. CASE ~(x = s /\ y = d)
    BY <1>1, <2>2 DEF QueueInv, Distinct
  <2> QED
    BY <2>1, <2>2
<1>8. Waiting'
  <2> SUFFICES ASSUME NEW k \in Call, NEW y \in Host
               PROVE  leg'[k][y] = "queued" <=> Holds(CallerOf[k], y, k)'
    BY DEF Waiting
  <2>1. CallerOf[k] \in Host
    OBVIOUS
  <2> QED
    BY <1>2, <1>5, <2>1 DEF QueueInv, Waiting
<1>9. Bounded'
  BY <1>0, <1>1, <1>3 DEF QueueInv, Bounded
<1> QED
  BY <1>6, <1>7, <1>8, <1>9 DEF QueueInv

LEMMA TakeKeepsQueues ==
  ASSUME TypeOK, QueueInv, NEW s \in Host, NEW d \in Host, Take(s, d)
  PROVE  QueueInv'
<1> DEFINE q == channel[s][d]
<1>0. q \in Seq(Call) /\ q # << >>
  BY DEF TypeOK, Take
<1>1. /\ channel'[s][d] = Tail(q) /\ taken'[s][d] = q[1] /\ taken[s][d] = None
      /\ \A x, y \in Host : x # s \/ y # d => /\ channel'[x][y] = channel[x][y]
                                            /\ taken'[x][y] = taken[x][y]
      /\ leg' = leg
  <2>1. Head(q) = q[1]
    BY <1>0
  <2>2. /\ channel' = [channel EXCEPT ![s][d] = Tail(q)]
        /\ taken' = [taken EXCEPT ![s][d] = Head(q)]
        /\ taken[s][d] = None /\ leg' = leg
    BY DEF Take
  <2>3. /\ channel'[s][d] = Tail(q) /\ taken'[s][d] = Head(q)
        /\ \A x, y \in Host : x # s \/ y # d => /\ channel'[x][y] = channel[x][y]
                                              /\ taken'[x][y] = taken[x][y]
    BY <2>2 DEF TypeOK
  <2> QED
    BY <2>1, <2>2, <2>3
<1>2. /\ Len(Tail(q)) = Len(q) - 1 /\ Len(q) \in Nat \ {0}
      /\ \A i \in 1 .. Len(Tail(q)) : Tail(q)[i] = q[i + 1]
  BY <1>0
<1>3. \A x, y \in Host, k \in Call : Holds(x, y, k)' <=> Holds(x, y, k)
  <2> SUFFICES ASSUME NEW x \in Host, NEW y \in Host, NEW k \in Call
               PROVE  Holds(x, y, k)' <=> Holds(x, y, k)
    OBVIOUS
  <2>1. CASE x = s /\ y = d
    <3>1. (\E i \in 1 .. Len(q) : q[i] = k)
            <=> (q[1] = k \/ \E i \in 1 .. Len(Tail(q)) : Tail(q)[i] = k)
      <4>1. \A i \in 1 .. Len(q) : i = 1 \/ (i - 1 \in 1 .. Len(Tail(q)) /\ Tail(q)[i - 1] = q[i])
        BY <1>2
      <4>2. \A i \in 1 .. Len(Tail(q)) : i + 1 \in 1 .. Len(q)
        BY <1>2
      <4>3. 1 \in 1 .. Len(q)
        BY <1>2
      <4> QED
        BY <1>2, <4>1, <4>2, <4>3
    <3>2. k # None
      OBVIOUS
    <3>3. Holds(s, d, k)' <=> q[1] = k \/ \E i \in 1 .. Len(Tail(q)) : Tail(q)[i] = k
      BY <1>1 DEF Holds
    <3>4. Holds(s, d, k) <=> \E i \in 1 .. Len(q) : q[i] = k
      BY <1>1, <3>2 DEF Holds
    <3> QED
      BY <2>1, <3>1, <3>3, <3>4
  <2>2. CASE ~(x = s /\ y = d)
    BY <1>1, <2>2 DEF Holds
  <2> QED
    BY <2>1, <2>2
<1>4. Owned'
  BY <1>3 DEF QueueInv, Owned
<1>5. Distinct'
  <2> SUFFICES ASSUME NEW x \in Host, NEW y \in Host, NEW i \in 1 .. Len(channel'[x][y])
               PROVE  /\ channel'[x][y][i] # taken'[x][y]
                      /\ \A j \in 1 .. Len(channel'[x][y]) :
                           channel'[x][y][i] = channel'[x][y][j] => i = j
    BY DEF Distinct
  <2>1. CASE x = s /\ y = d
    <3>1. \A j \in 1 .. Len(Tail(q)) : j + 1 \in 1 .. Len(q) /\ j + 1 # 1
      BY <1>2
    <3>2. \A j, k \in 1 .. Len(q) : q[j] = q[k] => j = k
      BY DEF QueueInv, Distinct
    <3>3. 1 \in 1 .. Len(q)
      BY <1>2
    <3>4. i \in 1 .. Len(Tail(q))
      BY <1>1, <2>1
    <3>5. Tail(q)[i] # q[1]
      BY <1>2, <3>1, <3>2, <3>3, <3>4
    <3>6. \A j \in 1 .. Len(Tail(q)) : Tail(q)[i] = Tail(q)[j] => i = j
      <4> SUFFICES ASSUME NEW j \in 1 .. Len(Tail(q)), Tail(q)[i] = Tail(q)[j] PROVE i = j
        OBVIOUS
      <4>1. q[i + 1] = q[j + 1]
        BY <1>2, <3>4
      <4>2. i + 1 = j + 1
        BY <3>1, <3>2, <3>4, <4>1
      <4> QED
        BY <3>4, <4>2
    <3> QED
      BY <1>1, <2>1, <3>5, <3>6
  <2>2. CASE ~(x = s /\ y = d)
    BY <1>1, <2>2 DEF QueueInv, Distinct
  <2> QED
    BY <2>1, <2>2
<1>6. Waiting'
  <2>1. \A k \in Call : CallerOf[k] \in Host
    OBVIOUS
  <2> QED
    BY <1>1, <1>3, <2>1 DEF QueueInv, Waiting
<1>7. Bounded'
  <2> SUFFICES ASSUME NEW x \in Host, NEW y \in Host PROVE Len(channel'[x][y]) <= Cap
    BY DEF Bounded
  <2>1. CASE x = s /\ y = d
    <3>1. Len(q) <= Cap
      BY DEF QueueInv, Bounded
    <3>2. Cap \in Nat
      BY DEF RpcAssumption
    <3>3. Len(channel'[s][d]) = Len(Tail(q))
      BY <1>1
    <3>4. Len(Tail(q)) <= Cap
      BY <1>2, <3>1, <3>2
    <3> QED
      BY <2>1, <3>3, <3>4
  <2>2. CASE ~(x = s /\ y = d)
    BY <1>1, <2>2 DEF QueueInv, Bounded
  <2> QED
    BY <2>1, <2>2
<1> QED
  BY <1>4, <1>5, <1>6, <1>7 DEF QueueInv

LEMMA SendKeepsQueues ==
  ASSUME TypeOK, QueueInv, NEW s \in Host, NEW d \in Host, Send(s, d)
  PROVE  QueueInv'
<1> DEFINE c == taken[s][d]
<1>0. c \in Call /\ CallerOf[c] = s
  BY DEF TypeOK, Send, QueueInv, Owned, Holds
<1>1. PICK to \in {"sent", "refused"} : Leg(c, d, "queued", to)
  BY DEF Send
<1>2. \A x \in Call, y \in Host :
        leg'[x][y] = IF x = c /\ y = d THEN to ELSE leg[x][y]
  BY <1>1, LegMoves DEF LegState
<1>3. /\ channel' = channel /\ taken'[s][d] = None
      /\ \A x, y \in Host : x # s \/ y # d => taken'[x][y] = taken[x][y]
  BY DEF TypeOK, Send
<1>4. \A x, y \in Host, k \in Call :
        Holds(x, y, k)' <=> Holds(x, y, k) /\ ~(x = s /\ y = d /\ k = c)
  <2>1. \A i \in 1 .. Len(channel[s][d]) : channel[s][d][i] # c
    BY DEF QueueInv, Distinct
  <2> QED
    BY <1>3, <2>1 DEF Holds
<1>5. Owned'
  BY <1>4 DEF QueueInv, Owned
<1>6. Distinct'
  <2>1. \A x, y \in Host : \A i \in 1 .. Len(channel[x][y]) : channel[x][y][i] # None
    <3> SUFFICES ASSUME NEW x \in Host, NEW y \in Host, NEW i \in 1 .. Len(channel[x][y])
                 PROVE  channel[x][y][i] # None
      OBVIOUS
    <3>1. channel[x][y] \in Seq(Call)
      BY DEF TypeOK
    <3>2. channel[x][y][i] \in Call
      BY <3>1
    <3> QED
      BY <3>2
  <2> QED
    BY <1>3, <2>1 DEF QueueInv, Distinct
<1>7. Waiting'
  <2>1. \A k \in Call : CallerOf[k] \in Host
    OBVIOUS
  <2>2. to # "queued"
    OBVIOUS
  <2> QED
    BY <1>0, <1>2, <1>4, <2>1, <2>2 DEF QueueInv, Waiting
<1>8. Bounded'
  BY <1>3 DEF QueueInv, Bounded
<1> QED
  BY <1>5, <1>6, <1>7, <1>8 DEF QueueInv

LEMMA DiesKeepsQueues ==
  ASSUME TypeOK, QueueInv, NEW h \in Host, Dies(h)
  PROVE  QueueInv'
<1>1. /\ \A y \in Host : channel'[h][y] = << >> /\ taken'[h][y] = None
      /\ \A x, y \in Host : x # h => /\ channel'[x][y] = channel[x][y]
                                    /\ taken'[x][y] = taken[x][y]
  BY DEF TypeOK, Dies
<1>2. \A k \in Call, y \in Host :
        leg'[k][y] = "queued" <=> leg[k][y] = "queued" /\ CallerOf[k] # h
  BY DEF TypeOK, Dies, LegAfter
<1>3. \A x, y \in Host, k \in Call : Holds(x, y, k)' <=> Holds(x, y, k) /\ x # h
  BY <1>1 DEF Holds
<1>4. Owned'
  BY <1>3 DEF QueueInv, Owned
<1>5. Distinct'
  BY <1>1 DEF QueueInv, Distinct
<1>6. Waiting'
  <2>1. \A k \in Call : CallerOf[k] \in Host
    OBVIOUS
  <2> QED
    BY <1>2, <1>3, <2>1 DEF QueueInv, Waiting
<1>7. Bounded'
  BY <1>1 DEF QueueInv, Bounded
<1> QED
  BY <1>4, <1>5, <1>6, <1>7 DEF QueueInv

LEMMA QueueStep == Inv /\ QueueInv /\ [Next]_vars => QueueInv'
<1> SUFFICES ASSUME Inv, QueueInv, [Next]_vars PROVE QueueInv'
  OBVIOUS
<1>0. TypeOK
  BY DEF Inv
<1>1. ASSUME NEW c \in Call, Begin(c) PROVE QueueInv'
  <2>1. \A x \in Call, y \in Host : leg'[x][y] = IF x = c THEN "spawned" ELSE leg[x][y]
    BY <1>0, <1>1 DEF TypeOK, Begin
  <2>2. \A y \in Host : leg[c][y] = "none"
    BY <1>1 DEF Inv, CallPhase, Begin
  <2> QED
    BY <1>0, <1>1, <2>1, <2>2, QueuesKept DEF Begin
<1>2. ASSUME NEW c \in Call, Return(c) \/ RunLocal(c) PROVE QueueInv'
  <2>1. CASE Return(c)
    BY <1>0, <2>1, QueuesKept DEF Return
  <2>2. CASE RunLocal(c)
    <3>1. leg[c][CallerOf[c]] = "spawned"
      BY <2>2 DEF RunLocal, Leg
    <3>2. \A x \in Call, y \in Host :
            leg'[x][y] = IF x = c /\ y = CallerOf[c] THEN "running" ELSE leg[x][y]
      BY <1>0, <2>2, LegMoves DEF RunLocal, LegState
    <3> QED
      BY <1>0, <2>2, <3>1, <3>2, QueuesKept DEF RunLocal
  <2> QED
    BY <1>2, <2>1, <2>2
<1>3. ASSUME NEW c \in Call, NEW d \in Host, Run(c, d) \/ Finish(c, d) PROVE QueueInv'
  BY <1>0, <1>3, LegMoves, QueuesKept DEF Run, Finish, Leg, LegState
<1>4. ASSUME NEW c \in Call, NEW d \in Host, Enqueue(c, d) PROVE QueueInv'
  BY <1>0, <1>4, EnqueueKeepsQueues
<1>5. ASSUME NEW s \in Host, NEW d \in Host, Take(s, d) \/ Send(s, d) PROVE QueueInv'
  BY <1>0, <1>5, TakeKeepsQueues, SendKeepsQueues
<1>6. ASSUME NEW s \in Host, NEW d \in Host, Connect(s, d) PROVE QueueInv'
  BY <1>0, <1>6, QueuesKept DEF Connect
<1>7. ASSUME NEW h \in Host, Crash(h) PROVE QueueInv'
  BY <1>0, <1>7, DiesKeepsQueues DEF Crash
<1>8. ASSUME NEW c \in Call, NEW d \in Host, Panic(c, d) \/ Fatal(c, d) PROVE QueueInv'
  BY <1>0, <1>8, DiesKeepsQueues DEF Panic, Fatal
<1>9. ASSUME NEW h \in Host, Listen(h) \/ Register(h) PROVE QueueInv'
  BY <1>0, <1>9, QueuesKept DEF Listen, Register
<1>10. CASE UNCHANGED vars
  BY <1>0, <1>10, QueuesKept DEF vars
<1> QED
  BY <1>1, <1>2, <1>3, <1>4, <1>5, <1>6, <1>7, <1>8, <1>9, <1>10
     DEF Next, ProcessStep, CallerStep, ServeStep, ServerStep

LEMMA QueuesAreExact == TypeOK /\ QueueInv => QueuedOnce
<1> SUFFICES ASSUME TypeOK, QueueInv PROVE QueuedOnce
  OBVIOUS
<1>1. ASSUME NEW c \in Call, NEW d \in Host
      PROVE  IF leg[c][d] = "queued" THEN \E i \in Places(c, d) : Places(c, d) = {i}
                                     ELSE Places(c, d) = {}
  <2> DEFINE s == CallerOf[c]
  <2>0. s \in Host
    OBVIOUS
  <2>1. CASE ~Holds(s, d, c)
    <3>1. Places(c, d) = {}
      BY <2>1 DEF Places, Holds
    <3> QED
      BY <2>1, <3>1 DEF QueueInv, Waiting
  <2>2. CASE taken[s][d] = c
    <3>1. Places(c, d) = {0}
      BY <2>0, <2>2 DEF Places, QueueInv, Distinct
    <3>2. leg[c][d] = "queued"
      BY <2>2 DEF QueueInv, Waiting, Holds
    <3> QED
      BY <3>1, <3>2
  <2>3. CASE Holds(s, d, c) /\ taken[s][d] # c
    <3>1. PICK i \in 1 .. Len(channel[s][d]) : channel[s][d][i] = c
      BY <2>3 DEF Holds
    <3>2. Places(c, d) = {i}
      BY <2>0, <2>3, <3>1 DEF Places, QueueInv, Distinct
    <3>3. leg[c][d] = "queued"
      BY <2>3 DEF QueueInv, Waiting
    <3> QED
      BY <3>2, <3>3
  <2> QED
    BY <2>1, <2>2, <2>3
<1> QED
  BY <1>1 DEF QueuedOnce, QueueInv, Bounded

(* A request that waits is in its client exactly once, whatever the        *)
(* capacity of the channels and whoever dies.                              *)
THEOREM RequestsAreQueuedOnce == Spec => []QueuedOnce
<1>1. Init => QueueInv
  <2> SUFFICES ASSUME Init PROVE QueueInv
    OBVIOUS
  <2>1. \A s, d \in Host : channel[s][d] = << >> /\ taken[s][d] = None
    BY DEF Init
  <2>2. \A c \in Call, d \in Host : leg[c][d] = "none" /\ CallerOf[c] \in Host /\ c # None
    BY DEF Init
  <2> QED
    BY <2>1, <2>2 DEF QueueInv, Owned, Distinct, Waiting, Bounded, Holds
<1>2. Inv /\ QueueInv => QueuedOnce
  BY QueuesAreExact DEF Inv
<1> QED
  BY <1>1, <1>2, Invariant, QueueStep, PTL DEF Spec
=============================================================================
