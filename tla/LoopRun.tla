-------------------------------- MODULE LoopRun --------------------------------
(***************************************************************************)
(* The loop engine driving one run through the harness: iterations of the  *)
(* six phases, with crashes and recovery.  A phase callback may make any   *)
(* effect call, ignore or report errors, and return at any time.           *)
(*                                                                         *)
(* The position of LoopState is implied by the label the task rests at and *)
(* the phase: "iterate" is Ready, "enterPhase" PhaseReady, "callback"      *)
(* PhaseRunning, later labels Ready or Finished.                           *)
(***************************************************************************)
EXTENDS HarnessRun, Sequences

CONSTANT MaxEvents  \* bound: sequence number below which a program calls tools by name

ASSUME MaxEventsAssumption == MaxEvents \in Nat

VARIABLES
    loop,       \* LoopState: iteration, phase, completed iterations, last decision
    entered     \* history: phases whose entry was committed, in order

vars == <<ctx, op, store, stop, hand, performed, faults, loop, entered>>

PhaseOrder == <<"Observe", "Retrieve", "Plan", "Act", "Verify", "Reflect">>

next_phase(phase) ==
    PhaseOrder[(CHOOSE i \in DOMAIN PhaseOrder : PhaseOrder[i] = phase) + 1]

Decisions == {"Continue", "Complete", "Fail"}

NewLoop == [iteration |-> None, phase |-> "-", completed |-> 0, decision |-> "-"]

Init == HarnessInit /\ loop = NewLoop /\ entered = <<>>

--------------------------------------------------------------------------------
(* run_with_state.                                                         *)

(* The first checkpoint; a recovered retrieval continues in its phase.     *)
RunWithState ==
    /\ op.at = "begin"
    /\ preflight(/\ op' = At(IF loop.phase = "Retrieve" THEN "callback" ELSE "iterate")
                 /\ UNCHANGED <<ctx, store, faults>>, "loopError")
    /\ UNCHANGED <<stop, hand, performed, loop, entered>>

BeginIteration ==
    /\ op.at = "iterate"
    /\ begin_iteration("enterPhase", "loopError")
    /\ loop' = [[loop EXCEPT !.iteration = ctx.usage["iteration"] + 1]
                  EXCEPT !.phase = "Observe"]
    /\ UNCHANGED <<stop, hand, performed, entered>>

Progress(kind) == [kind |-> kind, iteration |-> loop.iteration, phase |-> loop.phase,
                   decision |-> loop.decision, completed |-> loop.completed]

enter_phase ==
    /\ op.at = "enterPhase"
    /\ record_loop_progress(Progress("PhaseEntered"), "callback", "loopError")
    /\ entered' = IF op'.ok = "callback" /\ op'.at = "audit"
                  THEN Append(entered, <<loop.iteration, loop.phase>>) ELSE entered
    /\ UNCHANGED <<stop, hand, performed, loop>>

(* The callback returned Ok: checkpoint, LoopState, PhaseCompleted.        *)
finish_unit_phase ==
    /\ op.at = "callback" /\ loop.phase # "Reflect"
    /\ record_loop_progress(Progress("PhaseCompleted"), "enterPhase", "loopError")
    /\ loop' = [loop EXCEPT !.phase = next_phase(@)]
    /\ UNCHANGED <<stop, hand, performed, entered>>

accept_reflect ==
    /\ op.at = "callback" /\ loop.phase = "Reflect"
    /\ record_loop_progress(Progress("PhaseCompleted"), "decide", "loopError")
    /\ \E decision \in Decisions :
         loop' = [[[loop EXCEPT !.phase = "-"] EXCEPT !.completed = @ + 1]
                    EXCEPT !.decision = decision]
    /\ UNCHANGED <<stop, hand, performed, entered>>

AfterIteration ==
    CASE loop.decision = "Continue" -> "iterate"
      [] loop.decision = "Complete" -> "loopCompleted"
      [] loop.decision = "Fail" -> "loopFailed"

(* What the engine records between Reflect and its end.                    *)
RecordDecision ==
    /\ \/ /\ op.at = "decide"
          /\ record_loop_progress(Progress("ReflectDecision"), "closeIteration", "loopError")
       \/ /\ op.at = "closeIteration"
          /\ record_loop_progress(Progress("IterationCompleted"), AfterIteration, "loopError")
       \/ /\ op.at = "loopCompleted"
          /\ record_loop_progress(Progress("LoopCompleted"), "completeRun", "loopError")
       \/ /\ op.at = "loopFailed"
          /\ record_loop_progress(Progress("LoopFailed"), "failRun", "loopError")
    /\ UNCHANGED <<stop, hand, performed, loop, entered>>

(* complete_run and fail_run of the engine: an error that left the run     *)
(* unfinished is handled like any harness error.                           *)
FinishRun ==
    /\ \/ op.at = "completeRun" /\ finish_run("Completed", "returnedOk", "loopError")
       \/ op.at = "failRun" /\ finish_run("Failed", "returnedOk", "loopError")
    /\ UNCHANGED <<stop, hand, performed, loop, entered>>

(* The callback returned an error of its own.                              *)
terminalize_step_error ==
    /\ op.at = "callback"
    /\ record_loop_progress([Progress("LoopFailed") EXCEPT !.iteration = ctx.usage["iteration"]],
                            "failRunErr", "loopError")
    /\ UNCHANGED <<stop, hand, performed, loop, entered>>

(* The callback returned an error of the harness.                          *)
HarnessStepError ==
    /\ op.at = "callback" /\ op' = At("loopError")
    /\ UNCHANGED <<ctx, store, stop, hand, performed, faults, loop, entered>>

(* LoopFailed, whose failure is dropped while the run is still running,    *)
(* then fail_run, whose failure is returned.                               *)
terminalize_harness_error ==
    /\ \/ /\ op.at = "loopError"
          /\ record_loop_progress(
               [Progress("LoopFailed") EXCEPT !.iteration = ctx.usage["iteration"]],
               "failRunErr", "failRunErr")
       \/ op.at = "failRunErr" /\ finish_run("Failed", "returnedErr", "returnedErr")
    /\ UNCHANGED <<stop, hand, performed, loop, entered>>

--------------------------------------------------------------------------------
(* Crash, and LoopEngine::resume of a run that recovery calls Resumable.   *)

Crash == HarnessCrash /\ loop' = NewLoop /\ UNCHANGED entered

(* The positions resume accepts.                                           *)
ResumesAt(s) ==
    \/ s.loop[1] \in {"NotStarted", "Ready"}
    \/ /\ Contract = "RestartableRetrieval"
       /\ s.loop = <<"PhaseRunning", "Retrieve">> /\ s.restartable # None

(* Mutant: a recovered loop always stands before an iteration.             *)
RecoveredReady(s) == [NewLoop EXCEPT !.completed = s.completed]

RecoveredLoop(s) ==
    [NewLoop EXCEPT
        !.completed = s.completed,
        !.iteration = IF s.loop[1] = "PhaseRunning" THEN s.iteration ELSE None,
        !.phase = IF s.loop[1] = "PhaseRunning" THEN "Retrieve" ELSE "-"]

resume ==
    /\ Contract \in {"Restartable", "RestartableRetrieval"}
    /\ ResumesAt(store.journal)
    /\ TakeUp("begin") /\ loop' = RecoveredLoop(store.journal)
    /\ UNCHANGED entered

--------------------------------------------------------------------------------
(* Every effect of LoopEffects, in every phase.                            *)
Callback ==
    /\ \/ retrieve_knowledge \/ invoke_model \/ prepare_action \/ invoke_validated_action
       \/ ctx.next < MaxEvents /\ invoke_tool
    /\ UNCHANGED <<loop, entered>>

OperationStep == HarnessStep /\ UNCHANGED <<loop, entered>>

PortAnswer == PortAnswers /\ UNCHANGED <<loop, entered>>

EngineStep ==
    \/ start_run /\ UNCHANGED <<loop, entered>>
    \/ RunWithState \/ BeginIteration \/ enter_phase \/ finish_unit_phase \/ accept_reflect
    \/ RecordDecision \/ FinishRun
    \/ terminalize_step_error \/ HarnessStepError \/ terminalize_harness_error

DeadlinePasses == Live /\ Deadline /\ UNCHANGED <<loop, entered>>

CancelRequested == Live /\ Cancel /\ UNCHANGED <<loop, entered>>

Next ==
    \/ OperationStep \/ PortAnswer \/ EngineStep \/ Callback
    \/ DeadlinePasses \/ CancelRequested \/ Crash \/ resume

Spec == Init /\ [][Next]_vars

(* As for the graph engine: awaits end by timeout or deadline, callbacks   *)
(* that make no further call return.                                       *)
FairSpec ==
    Spec /\ WF_vars(OperationStep) /\ WF_vars(EngineStep) /\ WF_vars(DeadlinePasses)

--------------------------------------------------------------------------------
(* The phases of the schedule, numbered from 1.                            *)
Scheduled(k) == <<((k - 1) \div 6) + 1, PhaseOrder[((k - 1) % 6) + 1]>>

(* Across failures, crashes and resumes the phases entered on record are a *)
(* prefix of the schedule: no phase is entered twice, skipped or out of    *)
(* order, and no iteration starts before the previous one is complete.     *)
PhasesInOrder == \A k \in DOMAIN entered : entered[k] = Scheduled(k)

(* While the task runs and no event was rejected or refused, LoopState and *)
(* the reducer stand at the same place, so the next event of the engine is *)
(* one that the reducer accepts; and a summary is returned only for an     *)
(* outcome that is on record.                                              *)
EngineMatchesReducer ==
  /\ op.at = "returnedOk" =>
       store.journal.status = (IF loop.decision = "Complete" THEN "Completed" ELSE "Failed")
  /\ (ctx.status = "Running" /\ ~ctx.failed /\ ctx.next = ctx.durable.seq) =>
      LET d == ctx.durable
      IN  /\ op.at = "iterate" =>
               d.loop[1] \in {"NotStarted", "Ready"} /\ d.completed = loop.completed
          /\ op.at = "enterPhase" => d.loop = <<"PhaseReady", loop.phase>>
          /\ op.at = "callback" => d.loop = <<"PhaseRunning", loop.phase>>
          /\ op.at \in {"enterPhase", "callback", "decide", "closeIteration", "loopFailed"}
               => d.iteration = loop.iteration
          /\ op.at = "decide" => d.loop[1] = "ReflectCompleted"
          /\ op.at = "closeIteration" => d.loop = <<"Decided", loop.decision>>
          /\ op.at = "loopCompleted" => d.completed = loop.completed

(* Whatever the ports do, the engine returns or the process dies.          *)
LoopReturns == Live ~> ~Live

================================================================================
