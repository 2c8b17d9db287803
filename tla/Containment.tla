------------------------------ MODULE Containment ------------------------------
(***************************************************************************)
(* The contained workspace write: what one LocalWrite call of the harness  *)
(* does to the host.  invoke_contained_tool_port starts the call, waits    *)
(* for it under the run's cancellation and deadline, and terminates and    *)
(* reaps it when one of these wins.  The adapter runs bubblewrap (outer),  *)
(* which forks the first process of a PID namespace (init), which runs the *)
(* worker.  The worker writes a temporary file, renames it over the target *)
(* and answers on its standard output.                                     *)
(*                                                                         *)
(* The kernel's part is external: a process that got SIGKILL dies a while  *)
(* later and may finish what it is doing first, the namespace dies with    *)
(* its first process, which is gone only after all the others, and a       *)
(* process started with --die-with-parent gets SIGKILL when its parent is  *)
(* gone.  The calls share one target file; the content is the call that    *)
(* wrote it.                                                               *)
(***************************************************************************)
EXTENDS Integers, FiniteSets

CONSTANTS
    Calls,       \* the ToolCallIds of contained invocations
    Original,    \* the content of the target before any call
    MaxHangs     \* bound: terminations the kernel delays past the timeout

ASSUME ContainmentAssumption ==
    Original \notin Calls /\ MaxHangs \in Nat

VARIABLES
    pc,        \* where the harness is in a call
    verdict,   \* what the call returned to the harness
    outer,     \* the bubblewrap process the daemon spawned
    init,      \* the first process of the sandbox
    worker,    \* the next step of the worker
    reply,     \* the response frame the worker wrote
    failing,   \* whether an error is kept for the return of a termination
    temp,      \* the temporary file of a call
    target,    \* the content of the target file
    hangs      \* history: the calls whose first wait timed out

containVars ==
    <<pc, verdict, outer, init, worker, reply, failing, temp, target, hangs>>

harnessVars == <<pc, verdict, failing, hangs>>
processVars == <<outer, init, worker>>
fileVars == <<temp, target>>

PCs == {"idle", "waiting", "killing", "stop", "list", "kill", "cont",
        "wait1", "fallback", "wait2", "settled", "lost"}

Steps == {"none", "read", "create", "write", "rename", "sync", "answer",
          "done", "dead"}

Verdicts == {"none", "Succeeded", "DomainFailure", "Unavailable",
             "Infrastructure", "Interrupted"}

ContainInit ==
    /\ pc = [c \in Calls |-> "idle"]
    /\ verdict = [c \in Calls |-> "none"]
    /\ outer = [c \in Calls |-> "none"]
    /\ init = [c \in Calls |-> "none"]
    /\ worker = [c \in Calls |-> "none"]
    /\ reply = [c \in Calls |-> "none"]
    /\ failing = [c \in Calls |-> FALSE]
    /\ temp = [c \in Calls |-> "absent"]
    /\ target = Original
    /\ hangs = {}

Settle(c, v) ==
    /\ pc' = [pc EXCEPT ![c] = "settled"]
    /\ verdict' = [verdict EXCEPT ![c] = v]

To(c, next) == pc' = [pc EXCEPT ![c] = next]

--------------------------------------------------------------------------------
(* The harness: invoke_contained_tool_port and the adapter's invocation.   *)

(* start_contained when the parent directory resolves and bubblewrap       *)
(* starts.                                                                 *)
start_contained(c) ==
    /\ pc[c] = "idle"
    /\ To(c, "waiting")
    /\ outer' = [outer EXCEPT ![c] = "running"]
    /\ UNCHANGED <<verdict, failing, hangs, init, worker, reply, temp, target>>

(* The parent directory is missing, a link or on another mount: the call   *)
(* is answered without a process.  spawn fails: the executor is            *)
(* unavailable.                                                            *)
StartRefused(c) ==
    /\ pc[c] = "idle"
    /\ \E v \in {"DomainFailure", "Unavailable"} : Settle(c, v)
    /\ UNCHANGED <<failing, hangs, processVars, reply, fileVars>>

(* response_to_tool_result of an exchange whose process tree exited: the   *)
(* frame of the worker decides, any other end is an infrastructure error.  *)
response_to_tool_result(r) ==
    CASE r = "Written" -> "Succeeded"
      [] r \in {"Failed", "FailedAfterRename"} -> "DomainFailure"
      [] OTHER -> "Infrastructure"

(* exchange joins the write, the reads and the wait; the exit status says  *)
(* whether the worker ran to its end.                                      *)
Exchanged(c) ==
    /\ pc[c] = "waiting"
    /\ outer[c] = "exited"
    /\ outer' = [outer EXCEPT ![c] = "reaped"]
    /\ Settle(c, IF worker[c] = "done" THEN response_to_tool_result(reply[c])
                                       ELSE "Infrastructure")
    /\ UNCHANGED <<failing, hangs, init, worker, reply, fileVars>>

(* A pipe of the exchange breaks before the tree is reaped (the worker     *)
(* ended without reading its request): the adapter kills bubblewrap and    *)
(* waits for it.                                                           *)
ExchangeBreaks(c) ==
    /\ pc[c] = "waiting"
    /\ worker[c] = "dead" /\ outer[c] \in {"running", "killed"}
    /\ outer' = [outer EXCEPT ![c] = "killed"]
    /\ To(c, "killing")
    /\ UNCHANGED <<verdict, failing, hangs, init, worker, reply, fileVars>>

ExchangeReaps(c) ==
    /\ pc[c] = "killing"
    /\ outer[c] = "exited"
    /\ outer' = [outer EXCEPT ![c] = "reaped"]
    /\ Settle(c, "Infrastructure")
    /\ UNCHANGED <<failing, hangs, init, worker, reply, fileVars>>

(* The run is cancelled or its deadline passes: the select is biased, so   *)
(* this wins even over an answer that is ready, and over the wait for a    *)
(* bubblewrap that a broken exchange has killed.                           *)
Interrupt(c) ==
    /\ pc[c] \in {"waiting", "killing"}
    /\ To(c, "stop")
    /\ UNCHANGED <<verdict, failing, hangs, processVars, reply, fileVars>>

(* signal_sandbox_tree stops bubblewrap, so that it starts nothing more,   *)
(* and reads its children.                                                 *)
StopOuter(c) ==
    /\ pc[c] = "stop"
    /\ outer' = [outer EXCEPT ![c] = IF @ = "running" THEN "stopped" ELSE @]
    /\ To(c, "list")
    /\ UNCHANGED <<verdict, failing, hangs, init, worker, reply, fileVars>>

Killed(o) == IF o \in {"running", "stopped"} THEN "killed" ELSE o

(* Mutant: bubblewrap is killed and its children are left to the kernel.   *)
ListNobody(c) ==
    /\ pc[c] = "list"
    /\ outer' = [outer EXCEPT ![c] = Killed(@)]
    /\ To(c, "wait1")
    /\ UNCHANGED <<verdict, failing, hangs, init, worker, reply, fileVars>>

(* With a child in the sandbox that child is killed first; without one, or *)
(* when the list cannot be read, bubblewrap itself is.                     *)
ListChildren(c) ==
    /\ pc[c] = "list"
    /\ \/ /\ init[c] \in {"running", "dying"}
          /\ To(c, "kill")
          /\ UNCHANGED <<outer, failing>>
       \/ /\ init[c] \notin {"running", "dying"}
          /\ outer' = [outer EXCEPT ![c] = Killed(@)]
          /\ To(c, "wait1")
          /\ UNCHANGED failing
       \/ /\ outer' = [outer EXCEPT ![c] = Killed(@)]
          /\ failing' = [failing EXCEPT ![c] = TRUE]
          /\ To(c, "wait1")
    /\ UNCHANGED <<verdict, hangs, init, worker, reply, fileVars>>

KillInit(c) ==
    /\ pc[c] = "kill"
    /\ init' = [init EXCEPT ![c] = IF @ = "running" THEN "dying" ELSE @]
    /\ To(c, "cont")
    /\ UNCHANGED <<verdict, failing, hangs, outer, worker, reply, fileVars>>

(* Bubblewrap continues, sees its child end and exits.                     *)
ContinueOuter(c) ==
    /\ pc[c] = "cont"
    /\ outer' = [outer EXCEPT ![c] = IF @ = "stopped" THEN "running" ELSE @]
    /\ To(c, "wait1")
    /\ UNCHANGED <<verdict, failing, hangs, init, worker, reply, fileVars>>

(* The wait of terminate_and_reap returns: the harness records the         *)
(* cancellation or the deadline, or hands on the error of the signals.     *)
Reap(c) ==
    /\ pc[c] \in {"wait1", "wait2"}
    /\ outer[c] = "exited"
    /\ outer' = [outer EXCEPT ![c] = "reaped"]
    /\ Settle(c, IF failing[c] THEN "Infrastructure" ELSE "Interrupted")
    /\ UNCHANGED <<failing, hangs, init, worker, reply, fileVars>>

(* The tree is still there after TERMINATION_TIMEOUT: bubblewrap itself is *)
(* killed and waited for once more.                                        *)
FirstTimeout(c) ==
    /\ pc[c] = "wait1"
    /\ outer[c] # "exited"
    /\ Cardinality(hangs) < MaxHangs
    /\ hangs' = hangs \cup {c}
    /\ outer' = [outer EXCEPT ![c] = Killed(@)]
    /\ To(c, "wait2")
    /\ UNCHANGED <<verdict, failing, init, worker, reply, fileVars>>

SecondTimeout(c) ==
    /\ pc[c] = "wait2"
    /\ outer[c] # "exited"
    /\ Settle(c, "Infrastructure")
    /\ UNCHANGED <<failing, hangs, processVars, reply, fileVars>>

Harness(c) ==
    \/ start_contained(c) \/ StartRefused(c) \/ Exchanged(c)
    \/ ExchangeBreaks(c) \/ ExchangeReaps(c) \/ Interrupt(c) \/ StopOuter(c)
    \/ ListChildren(c) \/ KillInit(c) \/ ContinueOuter(c) \/ Reap(c)
    \/ FirstTimeout(c) \/ SecondTimeout(c)

(* The process of the harness ends, in order or not: nobody waits for the  *)
(* calls any more.                                                         *)
HarnessGone ==
    /\ pc' = [c \in Calls |->
                IF pc[c] \in {"idle", "settled"} THEN pc[c] ELSE "lost"]
    /\ outer' = [c \in Calls |-> Killed(outer[c])]
    /\ UNCHANGED <<verdict, failing, hangs, init, worker, reply, fileVars>>

--------------------------------------------------------------------------------
(* The processes of the sandbox, as the kernel runs them.                  *)

(* Bubblewrap clones the first process of the namespace, which runs the    *)
(* worker.                                                                 *)
Clone(c) ==
    /\ outer[c] = "running" /\ init[c] = "none"
    /\ init' = [init EXCEPT ![c] = "running"]
    /\ worker' = [worker EXCEPT ![c] = "read"]
    /\ UNCHANGED <<harnessVars, outer, reply, fileVars>>

(* Mutant: the sandbox is started without --die-with-parent.               *)
OuterExitsAlone(c) ==
    /\ \/ outer[c] = "killed"
       \/ outer[c] = "running" /\ init[c] = "gone"
    /\ outer' = [outer EXCEPT ![c] = "exited"]
    /\ UNCHANGED <<harnessVars, init, worker, reply, fileVars>>

OuterExits(c) ==
    /\ \/ outer[c] = "killed"
       \/ outer[c] = "running" /\ init[c] = "gone"
    /\ outer' = [outer EXCEPT ![c] = "exited"]
    /\ init' = [init EXCEPT ![c] = IF @ = "running" THEN "dying" ELSE @]
    /\ UNCHANGED <<harnessVars, worker, reply, fileVars>>

InitEnds(c) ==
    /\ \/ init[c] = "dying"
       \/ init[c] = "running" /\ worker[c] \in {"done", "dead"}
    /\ init' = [init EXCEPT ![c] = "gone"]
    /\ worker' = [worker EXCEPT ![c] = IF @ = "done" THEN @ ELSE "dead"]
    /\ UNCHANGED <<harnessVars, outer, reply, fileVars>>

Running(c) == init[c] \in {"running", "dying"}

WorkerTo(c, next) == worker' = [worker EXCEPT ![c] = next]

Answer(c, r) ==
    /\ reply' = [reply EXCEPT ![c] = r]
    /\ WorkerTo(c, "answer")

(* read_request: the frame, or the end of a pipe the harness closed.       *)
read_request(c) ==
    /\ Running(c) /\ worker[c] = "read"
    /\ \/ WorkerTo(c, "create") /\ UNCHANGED reply
       \/ pc[c] # "waiting" /\ Answer(c, "ProtocolError")
    /\ UNCHANGED <<harnessVars, outer, init, fileVars>>

(* write_file_inner creates the temporary file, named for the call.        *)
CreateTemp(c) ==
    /\ Running(c) /\ worker[c] = "create"
    /\ \/ /\ temp' = [temp EXCEPT ![c] = "partial"]
          /\ WorkerTo(c, "write") /\ UNCHANGED reply
       \/ Answer(c, "Failed") /\ UNCHANGED temp
    /\ UNCHANGED <<harnessVars, outer, init, target>>

(* commit_file writes the content and syncs it; every failure removes the  *)
(* temporary file.                                                         *)
WriteTemp(c) ==
    /\ Running(c) /\ worker[c] = "write"
    /\ \/ /\ temp' = [temp EXCEPT ![c] = "complete"]
          /\ WorkerTo(c, "rename") /\ UNCHANGED reply
       \/ temp' = [temp EXCEPT ![c] = "absent"] /\ Answer(c, "Failed")
    /\ UNCHANGED <<harnessVars, outer, init, target>>

(* Mutant: the target is replaced by a copy that may fail half-way.        *)
CopyTemp(c) ==
    /\ Running(c) /\ worker[c] = "rename"
    /\ temp' = [temp EXCEPT ![c] = "absent"]
    /\ target' = c
    /\ \/ WorkerTo(c, "sync") /\ UNCHANGED reply
       \/ Answer(c, "Failed")
    /\ UNCHANGED <<harnessVars, outer, init>>

RenameTemp(c) ==
    /\ Running(c) /\ worker[c] = "rename"
    /\ temp' = [temp EXCEPT ![c] = "absent"]
    /\ \/ target' = c /\ WorkerTo(c, "sync") /\ UNCHANGED reply
       \/ Answer(c, "Failed") /\ UNCHANGED target
    /\ UNCHANGED <<harnessVars, outer, init>>

SyncDirectory(c) ==
    /\ Running(c) /\ worker[c] = "sync"
    /\ \E r \in {"Written", "FailedAfterRename"} : Answer(c, r)
    /\ UNCHANGED <<harnessVars, outer, init, fileVars>>

write_response(c) ==
    /\ Running(c) /\ worker[c] = "answer"
    /\ WorkerTo(c, "done")
    /\ UNCHANGED <<harnessVars, outer, init, reply, fileVars>>

(* The worker ends without an answer (bubblewrap could not set it up, or   *)
(* it was killed from outside).                                            *)
WorkerCrash(c) ==
    /\ Running(c) /\ worker[c] \notin {"none", "done", "dead"}
    /\ WorkerTo(c, "dead")
    /\ UNCHANGED <<harnessVars, outer, init, reply, fileVars>>

WorkerStep(c) ==
    \/ read_request(c) \/ CreateTemp(c) \/ WriteTemp(c) \/ RenameTemp(c)
    \/ SyncDirectory(c) \/ write_response(c) \/ WorkerCrash(c)

Process(c) == Clone(c) \/ OuterExits(c) \/ InitEnds(c) \/ WorkerStep(c)

ContainNext ==
    HarnessGone \/ \E c \in Calls : Harness(c) \/ Process(c)

ContainSpec == ContainInit /\ [][ContainNext]_containVars

--------------------------------------------------------------------------------
(* Properties.                                                             *)

(* Every variable has the shape the adapter and the kernel give it.        *)
ContainTypeOK ==
    /\ pc \in [Calls -> PCs]
    /\ verdict \in [Calls -> Verdicts]
    /\ outer \in [Calls -> {"none", "running", "stopped", "killed", "exited",
                            "reaped"}]
    /\ init \in [Calls -> {"none", "running", "dying", "gone"}]
    /\ worker \in [Calls -> Steps]
    /\ reply \in [Calls -> {"none", "Written", "Failed", "FailedAfterRename",
                            "ProtocolError"}]
    /\ failing \in [Calls -> BOOLEAN]
    /\ temp \in [Calls -> {"absent", "partial", "complete"}]
    /\ target \in Calls \cup {Original}
    /\ hangs \subseteq Calls

(* A call that answered, or whose termination returned without an error,   *)
(* has no process left: "Implementations must not return from              *)
(* terminate_and_reap while child processes remain alive".  The code has   *)
(* two exceptions.  The fallback after the first timeout reaps bubblewrap  *)
(* alone.  And when the exchange had killed bubblewrap already, the first  *)
(* process of the sandbox may still be dying, its worker gone before.      *)
ReapedIsDead ==
    \A c \in Calls :
        /\ verdict[c] \in {"Succeeded", "DomainFailure", "Interrupted"}
        /\ c \notin hangs
        => /\ outer[c] \in {"none", "reaped"}
           /\ \/ init[c] \in {"none", "gone"}
              \/ init[c] = "dying" /\ worker[c] = "dead"

(* A write the run records as failed has left the target alone, now and    *)
(* later, except when only the sync of the directory failed, after the     *)
(* rename.                                                                 *)
FailureLeavesTarget ==
    \A c \in Calls :
        verdict[c] = "DomainFailure" /\ reply[c] # "FailedAfterRename" =>
            target # c

(* Once a call has answered or was reaped, the target is never its work    *)
(* again: a write that was interrupted cannot land on top of a later one.  *)
NoLateWrite ==
    [][\A c \in Calls :
          /\ verdict[c] \in {"Succeeded", "DomainFailure", "Interrupted"}
          /\ c \notin hangs
          => target' # c \/ target = c]_containVars

(* The deadline of a run passes, the daemon polls the calls it started,    *)
(* and the kernel delivers signals; nothing is assumed of the worker, and  *)
(* no call has to start.                                                   *)
ContainFairness ==
    \A c \in Calls :
        /\ WF_containVars(Interrupt(c))
        /\ WF_containVars(pc[c] # "idle" /\ Harness(c))
        /\ WF_containVars(Clone(c) \/ OuterExits(c) \/ InitEnds(c))

(* Every process tree ends, whatever the worker does and even if the       *)
(* daemon ends while it has bubblewrap stopped.                            *)
TreeEnds ==
    \A c \in Calls :
        outer[c] = "running" ~>
            outer[c] \in {"exited", "reaped"} /\ init[c] \in {"none", "gone"}
================================================================================
