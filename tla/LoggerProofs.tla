------------------------------ MODULE LoggerProofs ------------------------------
(***************************************************************************)
(* The profiler for any number of calls of StartLogger and any directories *)
(* already there.  The start token is the lock: whoever is between taking  *)
(* it and giving it back is alone (Alone).  A stop token that such a run   *)
(* can still receive was put after the run cleared the channel, by a call  *)
(* that cannot have left its loop since (Wanted).  Its directory was made  *)
(* when it began, and only its own logger.sh removes it (Kept).  An end of *)
(* the process leaves no run behind and starts with the token in place.    *)
(* The ids are numbers because a finite set of numbers has a greatest one. *)
(***************************************************************************)
EXTENDS Logger, FiniteSetTheorems, WellFoundedInduction, TLAPS

Phases ==
  /\ call \in [Start -> {"new", "waiting", "clearing", "starting", "returned", "lost"}]
  /\ run \in [Start -> {"none", "running", "stopping", "terminating", "recorded",
                        "removed", "over"}]
  /\ id = [c \in Start |-> id[c]] /\ rivals \in [Start -> SUBSET Start]
  /\ startLoggerToken \in {0, 1} /\ stopLoggerToken \in {0, 1}
  /\ \A c \in Start : run[c] # "none" => call[c] = "returned"

Alone ==
  /\ \A c, d \in Start : c \in Active /\ d \in Active => c = d
  /\ startLoggerToken = 1 => \A c \in Start : c \notin Active
  /\ startLoggerToken = 0 => \E c \in Start : c \in Active

Wanted ==
  \A c \in Start :
    (call[c] = "starting" \/ run[c] = "running") /\ stopLoggerToken = 1 => Waiting # {}

Kept == \A c \in Start : run[c] \in {"running", "stopping"} => id[c] \in dirs

Inv == Phases /\ Alone /\ Wanted /\ StoppedForAnother /\ Kept

-----------------------------------------------------------------------------
LEMMA InitInv == Init => Inv
BY DEF Init, Inv, Phases, Alone, Active, Wanted, StoppedForAnother, Kept

LEMMA CallStepInv ==
  ASSUME Inv, NEW c \in Start, GetNextLogID(c) \/ PutStop(c) \/ TakeStart(c) \/ ClearStop(c)
  PROVE  Inv'
<1>1. CASE GetNextLogID(c)
  BY <1>1 DEF GetNextLogID, CallStep, Inv, Phases, Alone, Active, Wanted, Waiting,
     StoppedForAnother, Kept
<1>2. CASE PutStop(c)
  BY <1>2 DEF PutStop, Inv, Phases, Alone, Active, Wanted, Waiting, StoppedForAnother, Kept
<1>3. CASE TakeStart(c)
  BY <1>3 DEF TakeStart, CallStep, Inv, Phases, Alone, Active, Wanted, Waiting,
     StoppedForAnother, Kept
<1>4. CASE ClearStop(c)
  BY <1>4 DEF ClearStop, CallStep, Inv, Phases, Alone, Active, Wanted, Waiting,
     StoppedForAnother, Kept
<1> QED
  BY <1>1, <1>2, <1>3, <1>4

LEMMA StartInv ==
  ASSUME Inv, NEW c \in Start, StartLogging(c)
  PROVE  Inv'
BY DEF StartLogging, CallStep, RunStep, Inv, Phases, Alone, Active, Wanted, Waiting,
   StoppedForAnother, Kept

LEMMA RunStepInv ==
  ASSUME Inv, NEW c \in Start, RunGoesOn(c)
  PROVE  Inv'
<1>1. CASE TakeStop(c)
  BY <1>1 DEF TakeStop, RunStep, Inv, Phases, Alone, Active, Wanted, Waiting,
     StoppedForAnother, Kept
<1>2. CASE TimeOut(c)
  BY <1>2 DEF TimeOut, RunStep, Inv, Phases, Alone, Active, Wanted, Waiting,
     StoppedForAnother, Kept
<1>3. CASE Term(c)
  BY <1>3 DEF Term, RunStep, Inv, Phases, Alone, Active, Wanted, Waiting,
     StoppedForAnother, Kept
<1>4. CASE Stop(c)
  BY <1>4 DEF Stop, RunStep, Inv, Phases, Alone, Active, Wanted, Waiting,
     StoppedForAnother, Kept
<1>5. CASE GiveBack(c)
  BY <1>5 DEF GiveBack, RunStep, Inv, Phases, Alone, Active, Wanted, Waiting,
     StoppedForAnother, Kept
<1> QED
  BY <1>1, <1>2, <1>3, <1>4, <1>5 DEF RunGoesOn

LEMMA CrashInv ==
  ASSUME Inv, Crash
  PROVE  Inv'
<1>1. \A c \in Start : /\ call'[c] \in {"new", "returned", "lost"} /\ run'[c] \in {"none", "over"}
                        /\ run'[c] # "none" => call'[c] = "returned"
  BY DEF Crash, Inv, Phases
<1>2. Phases'
  BY <1>1 DEF Crash, Inv, Phases
<1>3. Alone' /\ Wanted' /\ StoppedForAnother' /\ Kept'
  BY <1>1 DEF Crash, Alone, Active, Wanted, StoppedForAnother, Kept
<1> QED
  BY <1>2, <1>3 DEF Inv

LEMMA Invariant == Spec => []Inv
<1>1. Inv /\ [Next]_vars => Inv'
  <2> SUFFICES ASSUME Inv, [Next]_vars PROVE Inv'
    OBVIOUS
  <2>1. CASE UNCHANGED vars
    BY <2>1 DEF vars, Inv, Phases, Alone, Active, Wanted, Waiting, StoppedForAnother, Kept
  <2> QED
    BY <2>1, CallStepInv, StartInv, RunStepInv, CrashInv DEF Next, CallGoesOn
<1> QED
  BY <1>1, InitInv, PTL DEF Spec

(* At most one call is between taking the start token and giving it back,  *)
(* and while none is, the token is there to be taken.                      *)
THEOREM ProfilesOneAtATime == Spec => []OneAtATime
<1>1. Inv => OneAtATime
  BY DEF Inv, Phases, Alone, OneAtATime, Active
<1> QED
  BY <1>1, Invariant, PTL

(* No stale stop token ends a run: whenever one does, another call waits.  *)
THEOREM StoppedOnlyForAnother == Spec => []StoppedForAnother
<1>1. Inv => StoppedForAnother
  BY DEF Inv
<1> QED
  BY <1>1, Invariant, PTL

(* logger.sh stop always finds the directory of its run, however many      *)
(* calls were given the same id.                                           *)
THEOREM StopAlwaysFindsDirectory == Spec => []StopFindsDirectory
<1>1. Inv => StopFindsDirectory
  BY DEF Inv, Kept, StopFindsDirectory
<1> QED
  BY <1>1, Invariant, PTL

-----------------------------------------------------------------------------
(* Every non-empty set of numbers has a least one. *)
LEMMA LeastNat ==
  ASSUME NEW T \in SUBSET Nat, T # {}
  PROVE  \E n \in T : \A m \in T : n <= m
<1>1. PICK n \in T : \A m \in T : <<m, n>> \notin OpToRel(<, Nat)
  BY NatLessThanWellFounded, WFMin
<1>2. OpToRel(<, Nat) = {ss \in Nat \X Nat : ss[1] < ss[2]}
  BY SMT DEF OpToRel
<1>3. ASSUME NEW m \in T PROVE n <= m
  <2>1. ~(m < n)
    BY <1>1, <1>2
  <2>. QED  BY <2>1
<1>. QED  BY <1>3

(* A finite set of numbers that is not empty has a greatest one: in a      *)
(* smallest counterexample, the greatest of the others or the one left     *)
(* out is.                                                                 *)
HasGreatest(S) == \E x \in S : \A y \in S : x >= y

LEMMA FiniteHasGreatest ==
  ASSUME NEW S \in SUBSET Nat, IsFiniteSet(S), S # {}
  PROVE  HasGreatest(S)
<1> DEFINE Bad(n) == \E T \in SUBSET Nat : /\ IsFiniteSet(T) /\ Cardinality(T) = n + 1
                                           /\ ~HasGreatest(T)
           Sizes == {n \in Nat : Bad(n)}
<1>1. ASSUME NEW n \in Sizes, \A m \in Sizes : n <= m
      PROVE  FALSE
  <2>1. PICK T \in SUBSET Nat : IsFiniteSet(T) /\ Cardinality(T) = n + 1 /\ ~HasGreatest(T)
    OBVIOUS
  <2>2. T # {}
    BY <2>1, FS_EmptySet
  <2>3. PICK x \in T : TRUE
    BY <2>2
  <2>4. IsFiniteSet(T \ {x}) /\ Cardinality(T \ {x}) = n
    <3>1. n \in Nat /\ (n + 1) - 1 = n
      OBVIOUS
    <3>2. IsFiniteSet(T \ {x}) /\ Cardinality(T \ {x}) = Cardinality(T) - 1
      BY <2>1, <2>3, FS_RemoveElement
    <3>. QED  BY <2>1, <3>1, <3>2
  <2>5. CASE T \ {x} = {}
    <3>1. T = {x} /\ x \in Nat
      BY <2>5
    <3>. QED  BY <2>1, <3>1 DEF HasGreatest
  <2>6. CASE T \ {x} # {}
    <3>1. n # 0
      BY <2>4, <2>6, FS_EmptySet
    <3>2. n - 1 \in Nat /\ n - 1 \notin Sizes
      BY <1>1, <3>1
    <3>3. HasGreatest(T \ {x})
      BY <2>4, <3>2
    <3>4. PICK y \in T \ {x} : \A z \in T \ {x} : y >= z
      BY <3>3 DEF HasGreatest
    <3>5. \A z \in T : z \in Nat
      OBVIOUS
    <3>6. CASE y >= x
      BY <2>1, <3>4, <3>6 DEF HasGreatest
    <3>7. CASE ~(y >= x)
      <4>1. \A z \in T : x >= z
        BY <3>4, <3>5, <3>7
      <4>. QED  BY <2>1, <4>1 DEF HasGreatest
    <3>. QED  BY <3>6, <3>7
  <2>. QED  BY <2>5, <2>6
<1>2. Sizes = {}
  BY <1>1, LeastNat
<1>3. Cardinality(S) \in Nat /\ Cardinality(S) # 0
  BY FS_CardinalityType, FS_EmptySet
<1>4. Cardinality(S) - 1 \in Nat /\ (Cardinality(S) - 1) + 1 = Cardinality(S)
  BY <1>3
<1>5. Cardinality(S) - 1 \notin Sizes
  BY <1>2
<1>. QED  BY <1>4, <1>5

(* The id that logger.sh nextid gives is a number that is not in use.      *)
LEMMA NextIdIsNew ==
  ASSUME IsFiniteSet(dirs), dirs \subseteq Nat
  PROVE  NextId \in Nat /\ NextId \notin dirs
<1> DEFINE S == dirs \cup {0}
<1>1. S \in SUBSET Nat /\ IsFiniteSet(S) /\ S # {}
  BY FS_AddElement
<1>2. Max(S) \in S /\ \A y \in S : Max(S) >= y
  BY <1>1, FiniteHasGreatest DEF HasGreatest, Max
<1>3. NextId = Max(S) + 1 /\ Max(S) \in Nat
  BY <1>1, <1>2 DEF NextId
<1> HIDE DEF S
<1>4. NextId \notin S
  BY <1>1, <1>2, <1>3
<1>. QED  BY <1>3, <1>4 DEF S

(* The directories are finitely many, however often the logger starts.     *)
TypeInv == TypeOK /\ IsFiniteSet(dirs)

(* One step per step of the logger. *)
LEMMA TypeStep ==
  ASSUME TypeInv, Inv, Inv', [Next]_vars
  PROVE  TypeInv'
<1>t. /\ id \in [Start -> Nat] /\ dirs \subseteq Nat /\ IsFiniteSet(dirs)
      /\ crashes \in 0 .. MaxCrashes /\ MaxCrashes \in Nat
  BY LoggerAssumption DEF TypeInv, TypeOK
<1>d. ASSUME NEW c \in Start
      PROVE  /\ dirs \cup {id[c]} \subseteq Nat /\ IsFiniteSet(dirs \cup {id[c]})
             /\ dirs \ {id[c]} \subseteq Nat /\ IsFiniteSet(dirs \ {id[c]})
  <2>1. id[c] \in Nat
    BY <1>t
  <2>2. IsFiniteSet(dirs \cup {id[c]})
    BY <1>t, FS_AddElement
  <2>3. IsFiniteSet(dirs \ {id[c]})
    BY <1>t, FS_Subset
  <2>. QED  BY <1>t, <2>1, <2>2, <2>3
(* The rest is in Phases.                                                  *)
<1>0. ASSUME id' \in [Start -> Nat], dirs' \subseteq Nat, IsFiniteSet(dirs'),
             crashes' \in 0 .. MaxCrashes
      PROVE  TypeInv'
  <2>1. Phases'
    BY DEF Inv
  <2>2. startLoggerToken' \in 0 .. 1 /\ stopLoggerToken' \in 0 .. 1
    BY <2>1 DEF Phases
  <2>. QED  BY <1>0, <2>1, <2>2 DEF Phases, TypeInv, TypeOK
<1>1. ASSUME NEW c \in Start, GetNextLogID(c) PROVE TypeInv'
  <2>1. PICK n \in {NextId} \cup OtherIds : id' = [id EXCEPT ![c] = n]
    BY <1>1 DEF GetNextLogID
  <2>2. n \in Nat
    BY <1>t, NextIdIsNew, LoggerAssumption
  <2>3. id' \in [Start -> Nat]
    BY <1>t, <2>1, <2>2
  <2>4. UNCHANGED <<dirs, crashes>>
    BY <1>1 DEF GetNextLogID
  <2>. QED  BY <1>t, <1>0, <2>3, <2>4
<1>2. ASSUME NEW c \in Start,
             UNCHANGED id, UNCHANGED crashes, dirs' \in {dirs, dirs \cup {id[c]}, dirs \ {id[c]}}
      PROVE  TypeInv'
  BY <1>t, <1>d, <1>0, <1>2
<1>3. ASSUME NEW c \in Start, CallGoesOn(c) \/ RunGoesOn(c) PROVE TypeInv'
  <2>1. UNCHANGED id /\ UNCHANGED crashes /\ dirs' \in {dirs, dirs \cup {id[c]}, dirs \ {id[c]}}
    BY <1>3 DEF CallGoesOn, RunGoesOn, PutStop, TakeStart, ClearStop, StartLogging, TakeStop,
       TimeOut, Stop, GiveBack, Term
  <2>. QED  BY <1>2, <2>1
<1>4. ASSUME Crash PROVE TypeInv'
  <2>1. crashes' \in 0 .. MaxCrashes /\ UNCHANGED id
    BY <1>t, <1>4 DEF Crash
  <2>2. dirs' = dirs \/ \E c \in Start : dirs' \in {dirs \cup {id[c]}, dirs \ {id[c]}}
    BY <1>4 DEF Crash, Scripts
  <2>3. dirs' \subseteq Nat /\ IsFiniteSet(dirs')
    BY <1>t, <1>d, <2>2
  <2>. QED  BY <1>t, <1>0, <2>1, <2>3
<1>5. CASE UNCHANGED vars
  BY <1>t, <1>0, <1>5 DEF vars
<1>. QED  BY <1>1, <1>3, <1>4, <1>5 DEF Next

(* Every variable keeps its type: the directories stay finitely many, so   *)
(* logger.sh nextid always finds a greatest one.                           *)
THEOREM TypeCorrect == Spec => []TypeOK
<1>1. Init => TypeInv
  BY LoggerAssumption DEF Init, TypeInv, TypeOK
<1>2. TypeInv => TypeOK
  BY DEF TypeInv
<1>. QED  BY <1>1, <1>2, TypeStep, Invariant, PTL DEF Spec
=============================================================================
