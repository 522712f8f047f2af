--------------------------------- MODULE Logger ---------------------------------
(***************************************************************************)
(* The profiler of one process (tools/logger.go, linked into the program,  *)
(* and tools/logger.sh).  InitializeFunction starts it with StartLogger;   *)
(* it runs for 60 seconds in a goroutine of its own and then records its   *)
(* report.  A StartLogger that finds it running asks it to stop: the old   *)
(* run is terminated, its directory removed, and the new one begins.  Two  *)
(* channels of capacity 1 carry the tokens.  The process may end at any    *)
(* moment, also because a script failed, and is started again.             *)
(***************************************************************************)
EXTENDS Integers, FiniteSetsExt

CONSTANTS
  Start,     (* calls: GetNextLogID and, later, StartLogger with that id    *)
  OldDirs,   (* log directories that are there at the start                 *)
  OtherIds,  (* ids that nextid gives on the other hosts                    *)
  MaxCrashes (* bound: ends of the process                                  *)

ASSUME LoggerAssumption ==
  /\ OldDirs \subseteq Nat /\ IsFiniteSet(OldDirs) /\ OtherIds \subseteq Nat
  /\ MaxCrashes \in Nat

VARIABLES
  call,              (* progress of a call of StartLogger                   *)
  run,               (* the goroutine it leaves behind                      *)
  id,                (* log directory of a call                             *)
  startLoggerToken,  (* number of tokens in the channel: 0 or 1             *)
  stopLoggerToken,
  dirs,              (* log directories                                     *)
  crashes,           (* how often the process ended                         *)
  rivals             (* history: other calls waiting when a run was told to *)
                     (* stop                                                *)

vars == <<call, run, id, startLoggerToken, stopLoggerToken, dirs, crashes, rivals>>

(* init() puts the start token. *)
Init ==
  /\ call = [c \in Start |-> "new"]
  /\ run = [c \in Start |-> "none"]
  /\ id = [c \in Start |-> 0]
  /\ startLoggerToken = 1 /\ stopLoggerToken = 0
  /\ dirs = OldDirs /\ crashes = 0
  /\ rivals = [c \in Start |-> {}]

CallStep(c, from, to) == call[c] = from /\ call' = [call EXCEPT ![c] = to]
RunStep(c, from, to)  == run[c] = from /\ run' = [run EXCEPT ![c] = to]

Waiting == {c \in Start : call[c] = "waiting"}

-----------------------------------------------------------------------------
(* Plausible mistakes in the code, each to stand in for the definition of  *)
(* the same name without its suffix.                                       *)

(* the channel of stop tokens has no limit                                 *)
PutStop_Unlimited(c) ==
  /\ c \in Waiting /\ stopLoggerToken' = stopLoggerToken + 1
  /\ UNCHANGED <<call, run, id, startLoggerToken, dirs, crashes, rivals>>
(* a stop token left over from the wait is not cleared                     *)
ClearStop_Kept(c) ==
  /\ CallStep(c, "clearing", "starting")
  /\ UNCHANGED <<run, id, startLoggerToken, stopLoggerToken, dirs, crashes, rivals>>
(* the start token goes back before logger.sh has run                      *)
TimeOut_Early(c) ==
  /\ RunStep(c, "running", "stopping") /\ startLoggerToken = 0 /\ startLoggerToken' = 1
  /\ UNCHANGED <<call, id, stopLoggerToken, dirs, crashes, rivals>>
(* a terminated run does not give the start token back                     *)
GiveBack_StoppedOnly(c) ==
  /\ RunStep(c, "recorded", "over")
  /\ startLoggerToken = 0 /\ startLoggerToken' = 1
  /\ UNCHANGED <<call, id, stopLoggerToken, dirs, crashes, rivals>>

-----------------------------------------------------------------------------
(* logger.sh nextid, in postInitialize: nothing is reserved.  The process  *)
(* that serves the reset asks its own host and sends the id to all.        *)
NextId == Max(dirs \cup {0}) + 1

GetNextLogID(c) ==
  /\ CallStep(c, "new", "waiting")
  /\ \E n \in {NextId} \cup OtherIds : id' = [id EXCEPT ![c] = n]
  /\ UNCHANGED <<run, startLoggerToken, stopLoggerToken, dirs, crashes, rivals>>

(* StartLogger selects between taking the start token and putting a stop   *)
(* token, at random when both can go on.                                   *)
PutStop(c) ==
  /\ c \in Waiting /\ stopLoggerToken = 0 /\ stopLoggerToken' = 1
  /\ UNCHANGED <<call, run, id, startLoggerToken, dirs, crashes, rivals>>

TakeStart(c) ==
  /\ CallStep(c, "waiting", "clearing")
  /\ startLoggerToken = 1 /\ startLoggerToken' = 0
  /\ UNCHANGED <<run, id, stopLoggerToken, dirs, crashes, rivals>>

ClearStop(c) ==
  /\ CallStep(c, "clearing", "starting")
  /\ stopLoggerToken' = 0
  /\ UNCHANGED <<run, id, startLoggerToken, dirs, crashes, rivals>>

(* logger.sh start makes the directory if need be; the profiles begin.     *)
StartLogging(c) ==
  /\ CallStep(c, "starting", "returned") /\ RunStep(c, "none", "running")
  /\ dirs' = dirs \cup {id[c]}
  /\ UNCHANGED <<id, startLoggerToken, stopLoggerToken, crashes, rivals>>

(* The goroutine waits for a stop token or 60 seconds; logger.sh term      *)
(* removes the directory or fails, logger.sh stop fills it, and dies if it *)
(* is not there; then the start token goes back.                           *)
TakeStop(c) ==
  /\ RunStep(c, "running", "terminating")
  /\ stopLoggerToken = 1 /\ stopLoggerToken' = 0
  /\ rivals' = [rivals EXCEPT ![c] = Waiting]
  /\ UNCHANGED <<call, id, startLoggerToken, dirs, crashes>>

TimeOut(c) ==
  /\ RunStep(c, "running", "stopping")
  /\ UNCHANGED <<call, id, startLoggerToken, stopLoggerToken, dirs, crashes, rivals>>

Term(c) ==
  /\ RunStep(c, "terminating", "removed")
  /\ dirs' \in {dirs, dirs \ {id[c]}}
  /\ UNCHANGED <<call, id, startLoggerToken, stopLoggerToken, crashes, rivals>>

Stop(c) ==
  /\ RunStep(c, "stopping", "recorded") /\ id[c] \in dirs
  /\ UNCHANGED <<call, id, startLoggerToken, stopLoggerToken, dirs, crashes, rivals>>

GiveBack(c) ==
  /\ RunStep(c, "recorded", "over") \/ RunStep(c, "removed", "over")
  /\ startLoggerToken = 0 /\ startLoggerToken' = 1
  /\ UNCHANGED <<call, id, stopLoggerToken, dirs, crashes, rivals>>

CallGoesOn(c) == PutStop(c) \/ TakeStart(c) \/ ClearStop(c) \/ StartLogging(c)
RunGoesOn(c)  == TakeStop(c) \/ TimeOut(c) \/ Term(c) \/ Stop(c) \/ GiveBack(c)

(* The process ends, as it does when logger.sh start, stop or nextid fails *)
(* (log.Fatal), with what its script may have done to the directories, and *)
(* is started again: init() makes the channels anew.                       *)
Scripts == {c \in Start : call[c] = "starting" \/ run[c] = "terminating"}

Crash ==
  /\ crashes < MaxCrashes /\ crashes' = crashes + 1
  /\ call' = [c \in Start |-> IF call[c] \in {"new", "returned"} THEN call[c] ELSE "lost"]
  /\ run' = [c \in Start |-> IF run[c] = "none" THEN "none" ELSE "over"]
  /\ startLoggerToken' = 1 /\ stopLoggerToken' = 0
  /\ \/ UNCHANGED dirs
     \/ \E c \in Scripts :
          dirs' = IF call[c] = "starting" THEN dirs \cup {id[c]} ELSE dirs \ {id[c]}
  /\ UNCHANGED <<id, rivals>>

Next ==
  \/ \E c \in Start : GetNextLogID(c) \/ CallGoesOn(c) \/ RunGoesOn(c)
  \/ Crash

(* Goroutines run and time passes; which one of two ready cases a select   *)
(* takes is left open.                                                     *)
Fairness == \A c \in Start : WF_vars(CallGoesOn(c)) /\ WF_vars(RunGoesOn(c))

Spec == Init /\ [][Next]_vars
FairSpec == Spec /\ Fairness

-----------------------------------------------------------------------------
TypeOK ==
  /\ call \in [Start -> {"new", "waiting", "clearing", "starting", "returned", "lost"}]
  /\ run \in [Start -> {"none", "running", "stopping", "terminating", "recorded",
                        "removed", "over"}]
  /\ id \in [Start -> Nat]
  /\ startLoggerToken \in 0 .. 1 /\ stopLoggerToken \in 0 .. 1
  /\ dirs \subseteq Nat /\ crashes \in 0 .. MaxCrashes
  /\ rivals \in [Start -> SUBSET Start]

(* One profiler at a time: from the start token being taken until it is    *)
(* given back no other call starts one, so pprof.StartCPUProfile never     *)
(* finds a profile running, and an end of the process loses no token.      *)
Active == {c \in Start : \/ call[c] \in {"clearing", "starting"}
                         \/ run[c] \notin {"none", "over"}}
OneAtATime == /\ \A c, d \in Active : c = d
              /\ startLoggerToken = 1 <=> Active = {}

(* A run ends early, and loses its directory, only for another call that   *)
(* waits for it at that moment: the tokens put while nothing ran, or for   *)
(* the run before, never stop a run nobody wants to replace.               *)
StoppedForAnother ==
  \A c \in Start : run[c] \in {"terminating", "removed"} => rivals[c] # {}

(* logger.sh stop, whose failure is log.Fatal (logger.go:66), finds its    *)
(* directory, although calls that overlapped may have got the same id from *)
(* nextid and a terminated one has removed it.                             *)
StopFindsDirectory == \A c \in Start : run[c] = "stopping" => id[c] \in dirs

(* StartLogger returns, so InitializeFunction and POST /initialize do,     *)
(* although every other call is trying to get the same token and a run     *)
(* that has been going on for less than 60 seconds holds it, unless the    *)
(* process ends.                                                           *)
StartReturns == \A c \in Start : call[c] = "waiting" ~> call[c] \in {"returned", "lost"}
=============================================================================
