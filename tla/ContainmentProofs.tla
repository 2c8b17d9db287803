--------------------------- MODULE ContainmentProofs ---------------------------
(***************************************************************************)
(* Proofs about the contained write, for any set of calls and any number   *)
(* of terminations that time out.  Calls meet in the target file only, so  *)
(* the inductive invariant speaks of one call at a time: which processes   *)
(* can be alive at each place of the harness, and how far the worker must  *)
(* have come for a reply or for the target to be its work.                 *)
(***************************************************************************)
EXTENDS Containment, TLAPS

(* No process of the sandbox of call c can act any more: there is none, or *)
(* the first one is dying and its worker is gone.                          *)
Quiet(c) ==
    \/ init[c] \in {"none", "gone"}
    \/ init[c] = "dying" /\ worker[c] = "dead"

(* The places from which terminate_and_reap can return without an error.   *)
Controlled == {"waiting", "killing", "stop", "list", "kill", "cont", "wait1"}

BeforeRename == {"none", "read", "create", "write", "rename"}

CallInv(c) ==
    /\ pc[c] # "settled" => verdict[c] = "none"
    /\ pc[c] = "idle" => outer[c] = "none"
    /\ outer[c] = "none" => init[c] = "none"
    /\ init[c] = "none" <=> worker[c] = "none"
    /\ init[c] = "gone" => worker[c] \in {"done", "dead"}
    /\ worker[c] \in BeforeRename => target # c
    /\ worker[c] \in BeforeRename \cup {"sync"} => reply[c] = "none"
    /\ reply[c] \in {"Failed", "ProtocolError"} => target # c
    /\ pc[c] = "waiting" =>
          \/ outer[c] = "running"
          \/ outer[c] = "exited" /\ init[c] = "gone"
    /\ pc[c] = "killing" => worker[c] = "dead"
    /\ failing[c] => pc[c] \in {"wait1", "wait2", "settled", "lost"}
    /\ failing[c] /\ pc[c] = "settled" => verdict[c] = "Infrastructure"
    /\ pc[c] = "wait2" => c \in hangs
    /\ pc[c] \in Controlled /\ ~failing[c] =>
          /\ outer[c] # "reaped"
          /\ outer[c] = "killed" => Quiet(c) \/ worker[c] = "dead"
          /\ outer[c] = "exited" => Quiet(c)
    /\ verdict[c] = "DomainFailure" =>
          \/ outer[c] = "none"
          \/ worker[c] = "done" /\ reply[c] \in {"Failed", "FailedAfterRename"}

ContainInv ==
    /\ ContainTypeOK
    /\ \A c \in Calls : CallInv(c)
    /\ ReapedIsDead

USE ContainmentAssumption

(* Every step keeps the shape of the variables.                            *)
LEMMA TypeStep ==
    ASSUME ContainTypeOK, [ContainNext]_containVars
    PROVE  ContainTypeOK'
<1> USE DEF ContainTypeOK, PCs, Steps, Verdicts
<1>1. ASSUME NEW c \in Calls, start_contained(c) PROVE ContainTypeOK'
  BY <1>1 DEF start_contained, To
<1>2. ASSUME NEW c \in Calls, StartRefused(c) PROVE ContainTypeOK'
  BY <1>2 DEF StartRefused, Settle, processVars, fileVars
<1>3. ASSUME NEW c \in Calls, Exchanged(c) PROVE ContainTypeOK'
  BY <1>3 DEF Exchanged, Settle, response_to_tool_result, fileVars
<1>4. ASSUME NEW c \in Calls, ExchangeBreaks(c) PROVE ContainTypeOK'
  BY <1>4 DEF ExchangeBreaks, To, fileVars
<1>5. ASSUME NEW c \in Calls, ExchangeReaps(c) PROVE ContainTypeOK'
  BY <1>5 DEF ExchangeReaps, Settle, fileVars
<1>6. ASSUME NEW c \in Calls, Interrupt(c) PROVE ContainTypeOK'
  BY <1>6 DEF Interrupt, To, processVars, fileVars
<1>7. ASSUME NEW c \in Calls, StopOuter(c) PROVE ContainTypeOK'
  BY <1>7 DEF StopOuter, To, fileVars
<1>8. ASSUME NEW c \in Calls, ListChildren(c) PROVE ContainTypeOK'
  BY <1>8, ZenonT(60) DEF ListChildren, To, Killed, fileVars
<1>9. ASSUME NEW c \in Calls, KillInit(c) PROVE ContainTypeOK'
  BY <1>9 DEF KillInit, To, fileVars
<1>10. ASSUME NEW c \in Calls, ContinueOuter(c) PROVE ContainTypeOK'
  BY <1>10 DEF ContinueOuter, To, fileVars
<1>11. ASSUME NEW c \in Calls, Reap(c) PROVE ContainTypeOK'
  BY <1>11 DEF Reap, Settle, fileVars
<1>12. ASSUME NEW c \in Calls, FirstTimeout(c) PROVE ContainTypeOK'
  BY <1>12 DEF FirstTimeout, To, Killed, fileVars
<1>13. ASSUME NEW c \in Calls, SecondTimeout(c) PROVE ContainTypeOK'
  BY <1>13 DEF SecondTimeout, Settle, processVars, fileVars
<1>14. ASSUME NEW c \in Calls, Clone(c) PROVE ContainTypeOK'
  BY <1>14 DEF Clone, harnessVars, fileVars
<1>15. ASSUME NEW c \in Calls, OuterExits(c) PROVE ContainTypeOK'
  BY <1>15 DEF OuterExits, harnessVars, fileVars
<1>16. ASSUME NEW c \in Calls, InitEnds(c) PROVE ContainTypeOK'
  BY <1>16 DEF InitEnds, harnessVars, fileVars
<1>17. ASSUME NEW c \in Calls, read_request(c) PROVE ContainTypeOK'
  BY <1>17 DEF read_request, Answer, WorkerTo, Running, harnessVars, fileVars
<1>18. ASSUME NEW c \in Calls, CreateTemp(c) PROVE ContainTypeOK'
  BY <1>18 DEF CreateTemp, Answer, WorkerTo, Running, harnessVars
<1>19. ASSUME NEW c \in Calls, WriteTemp(c) PROVE ContainTypeOK'
  BY <1>19 DEF WriteTemp, Answer, WorkerTo, Running, harnessVars
<1>20. ASSUME NEW c \in Calls, RenameTemp(c) PROVE ContainTypeOK'
  BY <1>20 DEF RenameTemp, Answer, WorkerTo, Running, harnessVars
<1>21. ASSUME NEW c \in Calls, SyncDirectory(c) PROVE ContainTypeOK'
  BY <1>21 DEF SyncDirectory, Answer, Running, harnessVars, fileVars, WorkerTo
<1>22. ASSUME NEW c \in Calls, write_response(c) PROVE ContainTypeOK'
  BY <1>22 DEF write_response, WorkerTo, Running, harnessVars, fileVars
<1>23. ASSUME NEW c \in Calls, WorkerCrash(c) PROVE ContainTypeOK'
  BY <1>23 DEF WorkerCrash, WorkerTo, Running, harnessVars, fileVars
<1>24. ASSUME HarnessGone PROVE ContainTypeOK'
  BY <1>24 DEF HarnessGone, Killed, fileVars
<1>25. ASSUME UNCHANGED containVars PROVE ContainTypeOK'
  BY <1>25 DEF containVars
<1> QED
  BY <1>1, <1>2, <1>3, <1>4, <1>5, <1>6, <1>7, <1>8, <1>9, <1>10, <1>11, <1>12,
       <1>13, <1>14, <1>15, <1>16, <1>17, <1>18, <1>19, <1>20, <1>21, <1>22,
       <1>23, <1>24, <1>25, Zenon
     DEF ContainNext, Harness, Process, WorkerStep

(* The steps of the harness keep the invariant of every call.              *)
LEMMA HarnessCall ==
    ASSUME ContainInv, ContainTypeOK', NEW c \in Calls, Harness(c)
    PROVE  \A d \in Calls : CallInv(d)'
<1> SUFFICES ASSUME NEW d \in Calls PROVE CallInv(d)'
  OBVIOUS
<1> USE DEF ContainInv, ContainTypeOK, CallInv, Quiet, Controlled, BeforeRename,
        PCs, Steps, Verdicts
<1>1. CASE start_contained(c)
  BY <1>1 DEF start_contained, To
<1>2. CASE StartRefused(c)
  BY <1>2 DEF StartRefused, Settle, processVars, fileVars
<1>3. CASE Exchanged(c)
  BY <1>3 DEF Exchanged, Settle, response_to_tool_result, fileVars
<1>4. CASE ExchangeBreaks(c)
  BY <1>4 DEF ExchangeBreaks, To, fileVars
<1>5. CASE ExchangeReaps(c)
  BY <1>5 DEF ExchangeReaps, Settle, fileVars
<1>6. CASE Interrupt(c)
  BY <1>6 DEF Interrupt, To, processVars, fileVars
<1>7. CASE StopOuter(c)
  BY <1>7 DEF StopOuter, To, fileVars
<1>8. CASE ListChildren(c)
  BY <1>8 DEF ListChildren, To, Killed, fileVars
<1>9. CASE KillInit(c)
  BY <1>9 DEF KillInit, To, fileVars
<1>10. CASE ContinueOuter(c)
  BY <1>10 DEF ContinueOuter, To, fileVars
<1>11. CASE Reap(c)
  BY <1>11 DEF Reap, Settle, fileVars
<1>12. CASE FirstTimeout(c)
  BY <1>12 DEF FirstTimeout, To, Killed, fileVars
<1>13. CASE SecondTimeout(c)
  BY <1>13 DEF SecondTimeout, Settle, processVars, fileVars
<1> QED
  BY <1>1, <1>2, <1>3, <1>4, <1>5, <1>6, <1>7, <1>8, <1>9, <1>10, <1>11, <1>12,
       <1>13, Zenon DEF Harness

(* The steps of the processes keep the invariant of every call.            *)
LEMMA ProcessCall ==
    ASSUME ContainInv, ContainTypeOK', NEW c \in Calls, Process(c)
    PROVE  \A d \in Calls : CallInv(d)'
<1> SUFFICES ASSUME NEW d \in Calls PROVE CallInv(d)'
  OBVIOUS
<1> USE DEF ContainInv, ContainTypeOK, CallInv, Quiet, Controlled, BeforeRename,
        PCs, Steps, Verdicts
<1>1. CASE Clone(c)
  BY <1>1 DEF Clone, harnessVars, fileVars
<1>2. CASE OuterExits(c)
  BY <1>2 DEF OuterExits, harnessVars, fileVars
<1>3. CASE InitEnds(c)
  BY <1>3 DEF InitEnds, harnessVars, fileVars
<1>4. CASE read_request(c)
  BY <1>4 DEF read_request, Answer, WorkerTo, Running, harnessVars, fileVars
<1>5. CASE CreateTemp(c)
  BY <1>5 DEF CreateTemp, Answer, WorkerTo, Running, harnessVars
<1>6. CASE WriteTemp(c)
  BY <1>6 DEF WriteTemp, Answer, WorkerTo, Running, harnessVars
<1>7. CASE RenameTemp(c)
  BY <1>7 DEF RenameTemp, Answer, WorkerTo, Running, harnessVars
<1>8. CASE SyncDirectory(c)
  BY <1>8 DEF SyncDirectory, Answer, Running, harnessVars, fileVars, WorkerTo
<1>9. CASE write_response(c)
  BY <1>9 DEF write_response, WorkerTo, Running, harnessVars, fileVars
<1>10. CASE WorkerCrash(c)
  BY <1>10 DEF WorkerCrash, WorkerTo, Running, harnessVars, fileVars
<1> QED
  BY <1>1, <1>2, <1>3, <1>4, <1>5, <1>6, <1>7, <1>8, <1>9, <1>10, Zenon DEF Process,
       WorkerStep

(* A call that has its answer, or was terminated without an error, stays   *)
(* without a process that could act: the answer came after bubblewrap was  *)
(* reaped, and nothing starts a process for a settled call.                *)
LEMMA ReapedStep ==
    ASSUME ContainInv, ContainTypeOK', NEW c \in Calls, Harness(c) \/ Process(c)
    PROVE  ReapedIsDead'
<1> SUFFICES ASSUME NEW d \in Calls,
                    verdict'[d] \in {"Succeeded", "DomainFailure", "Interrupted"},
                    d \notin hangs'
             PROVE  /\ outer'[d] \in {"none", "reaped"}
                    /\ Quiet(d)'
  BY Zenon DEF ReapedIsDead, Quiet
<1> USE DEF ContainInv, ContainTypeOK, CallInv, Quiet, Controlled, ReapedIsDead,
        PCs, Steps, Verdicts
<1>1. CASE start_contained(c)
  BY <1>1 DEF start_contained, To
<1>2. CASE StartRefused(c)
  BY <1>2 DEF StartRefused, Settle, processVars, fileVars
<1>3. CASE Exchanged(c)
  BY <1>3 DEF Exchanged, Settle, response_to_tool_result, fileVars
<1>4. CASE ExchangeBreaks(c)
  BY <1>4 DEF ExchangeBreaks, To, fileVars
<1>5. CASE ExchangeReaps(c)
  BY <1>5 DEF ExchangeReaps, Settle, fileVars
<1>6. CASE Interrupt(c)
  BY <1>6 DEF Interrupt, To, processVars, fileVars
<1>7. CASE StopOuter(c)
  BY <1>7 DEF StopOuter, To, fileVars
<1>8. CASE ListChildren(c)
  BY <1>8 DEF ListChildren, To, Killed, fileVars
<1>9. CASE KillInit(c)
  BY <1>9 DEF KillInit, To, fileVars
<1>10. CASE ContinueOuter(c)
  BY <1>10 DEF ContinueOuter, To, fileVars
<1>11. CASE Reap(c)
  BY <1>11 DEF Reap, Settle, fileVars
<1>12. CASE FirstTimeout(c)
  BY <1>12 DEF FirstTimeout, To, Killed, fileVars
<1>13. CASE SecondTimeout(c)
  BY <1>13 DEF SecondTimeout, Settle, processVars, fileVars
<1>14. CASE Clone(c)
  BY <1>14 DEF Clone, harnessVars, fileVars
<1>15. CASE OuterExits(c)
  BY <1>15 DEF OuterExits, harnessVars, fileVars
<1>16. CASE InitEnds(c)
  BY <1>16 DEF InitEnds, harnessVars, fileVars
<1>17. CASE read_request(c)
  BY <1>17 DEF read_request, Answer, WorkerTo, Running, harnessVars, fileVars
<1>18. CASE CreateTemp(c)
  BY <1>18 DEF CreateTemp, Answer, WorkerTo, Running, harnessVars
<1>19. CASE WriteTemp(c)
  BY <1>19 DEF WriteTemp, Answer, WorkerTo, Running, harnessVars
<1>20. CASE RenameTemp(c)
  BY <1>20 DEF RenameTemp, Answer, WorkerTo, Running, harnessVars
<1>21. CASE SyncDirectory(c)
  BY <1>21 DEF SyncDirectory, Answer, Running, harnessVars, fileVars, WorkerTo
<1>22. CASE write_response(c)
  BY <1>22 DEF write_response, WorkerTo, Running, harnessVars, fileVars
<1>23. CASE WorkerCrash(c)
  BY <1>23 DEF WorkerCrash, WorkerTo, Running, harnessVars, fileVars
<1> QED
  BY <1>1, <1>2, <1>3, <1>4, <1>5, <1>6, <1>7, <1>8, <1>9, <1>10, <1>11, <1>12,
       <1>13, <1>14, <1>15, <1>16, <1>17, <1>18, <1>19, <1>20, <1>21, <1>22,
       <1>23, Zenon DEF Harness, Process, WorkerStep

(* The end of the harness's process kills bubblewrap where it still runs   *)
(* and leaves settled calls as they are.                                   *)
LEMMA GoneStep ==
    ASSUME ContainInv, ContainTypeOK', HarnessGone
    PROVE  (\A d \in Calls : CallInv(d)') /\ ReapedIsDead'
<1> USE DEF ContainInv, ContainTypeOK, CallInv, Quiet, Controlled, BeforeRename,
        PCs, Steps, Verdicts, HarnessGone, Killed, fileVars
<1>1. ASSUME NEW d \in Calls PROVE CallInv(d)'
  OBVIOUS
<1>2. ReapedIsDead'
  BY DEF ReapedIsDead
<1> QED
  BY <1>1, <1>2

(* The inductive invariant holds in every reachable state.                 *)
THEOREM ContainInvariant == ContainSpec => []ContainInv
<1>1. ContainInit => ContainInv
  BY DEF ContainInit, ContainInv, ContainTypeOK, CallInv, Quiet, Controlled,
         BeforeRename, ReapedIsDead, PCs, Steps, Verdicts
<1>2. ContainInv /\ [ContainNext]_containVars => ContainInv'
  <2> SUFFICES ASSUME ContainInv, [ContainNext]_containVars PROVE ContainInv'
    OBVIOUS
  <2>1. ContainTypeOK'
    BY TypeStep DEF ContainInv
  <2>2. ASSUME NEW c \in Calls, Harness(c) \/ Process(c) PROVE ContainInv'
    BY <2>1, <2>2, HarnessCall, ProcessCall, ReapedStep DEF ContainInv
  <2>3. CASE HarnessGone
    BY <2>1, <2>3, GoneStep DEF ContainInv
  <2>4. CASE UNCHANGED containVars
    BY <2>4 DEF containVars, ContainInv, ContainTypeOK, CallInv, Quiet, ReapedIsDead
  <2> QED
    BY <2>2, <2>3, <2>4 DEF ContainNext
<1> QED
  BY <1>1, <1>2, PTL DEF ContainSpec

(* terminate_and_reap keeps its contract, up to the two exceptions stated  *)
(* with the property, for any number of calls and of hanging terminations. *)
THEOREM TerminatedIsDead == ContainSpec => []ReapedIsDead
<1>1. ContainInv => ReapedIsDead
  BY DEF ContainInv
<1> QED
  BY <1>1, ContainInvariant, PTL

(* A write recorded as failed is not in the target file, unless only the   *)
(* sync after the rename failed, and never gets there.                     *)
THEOREM FailedNotWritten == ContainSpec => []FailureLeavesTarget
<1>1. ContainInv => FailureLeavesTarget
  BY Zenon DEF ContainInv, CallInv, FailureLeavesTarget, BeforeRename
<1> QED
  BY <1>1, ContainInvariant, PTL

(* A call that has its answer or was reaped does not touch the target any  *)
(* more, so that it cannot undo the write of a later call.                 *)
THEOREM NothingLandsLate == ContainSpec => NoLateWrite
<1> DEFINE Late ==
      \A c \in Calls :
          /\ verdict[c] \in {"Succeeded", "DomainFailure", "Interrupted"}
          /\ c \notin hangs
          => target' # c \/ target = c
<1>1. ContainInv /\ [ContainNext]_containVars => [Late]_containVars
  <2> SUFFICES ASSUME ContainInv, ContainNext,
                      NEW c \in Calls, target' = c, target # c
               PROVE  Running(c) /\ worker[c] = "rename"
    BY DEF ContainInv, ReapedIsDead, Running
  <2>1. PICK d \in Calls : RenameTemp(d)
    BY Zenon DEF ContainNext, HarnessGone, Harness, Process, WorkerStep,
         start_contained, StartRefused, Exchanged, ExchangeBreaks,
         ExchangeReaps, Interrupt, StopOuter, ListChildren, KillInit,
         ContinueOuter, Reap, FirstTimeout, SecondTimeout, Clone, OuterExits,
         InitEnds, read_request, CreateTemp, WriteTemp, SyncDirectory,
         write_response, WorkerCrash, harnessVars, processVars, fileVars
  <2> QED
    BY <2>1 DEF RenameTemp
<1> QED
  BY <1>1, ContainInvariant, PTL DEF ContainSpec, NoLateWrite
================================================================================
