------------------------------- MODULE HarnessRun -------------------------------
(***************************************************************************)
(* The execution harness for one run: the live RunContext, the run's rows  *)
(* in the store, the audit sink and the ports.  Every operation is the     *)
(* sequence of its awaits: preflight, reserve, emit an event (reduce it,   *)
(* append it, audit it), call the port, emit the terminal event.  Between  *)
(* two awaits cancellation or the deadline may arrive and the process may  *)
(* crash; at each await the store may refuse, the audit sink may fail and  *)
(* the port may fail.                                                      *)
(*                                                                         *)
(* The engine that drives the harness is another module, GraphRun or       *)
(* LoopRun: `op' says where the task is, and an operation is given the     *)
(* engine's label to continue at when it returns.                          *)
(***************************************************************************)
EXTENDS RunState

CONSTANTS
    Limit,          \* RunBudget: the limit of every dimension
    Contract,       \* RecoveryContract of the run
    FailOpen,       \* AuditFailurePolicy of the harness is FailOpen
    MaxFaults,      \* bound: audit failures, store refusals and crashes together
    MaxRetrievals,  \* bound: retrievals handed to the knowledge port
    MaxSkips        \* bound: sequence numbers a program may burn on rejected events

ASSUME LimitAssumption == Limit \in [Dimensions -> Nat]
ASSUME ContractAssumption ==
    Contract \in {"NonRestartable", "Restartable", "RestartableRetrieval", "Graph"}
ASSUME BoundAssumption ==
    FailOpen \in BOOLEAN /\ MaxFaults \in Nat /\ MaxRetrievals \in Nat /\ MaxSkips \in Nat

VARIABLES
    ctx,        \* the live RunContext
    op,         \* where the task is, and how it continues after the audit
    store,      \* the run's rows: journal, checkpoint, terminal column
    stop,       \* cancellation token and deadline: "no", "late", "cancelled"
    hand,       \* what the program holds: evidence, a model response, a validated action
    performed,  \* history: effects handed to a port
    faults      \* faults so far

hvars == <<ctx, op, store, stop, hand, performed, faults>>

EmptyHand == [evidence |-> None, invocation |-> FALSE, action |-> FALSE]

--------------------------------------------------------------------------------
(* RunContext.                                                             *)

RunContext ==
    [status : Statuses, usage : [Dimensions -> Nat], next : Nat, failed : BOOLEAN,
     durable : DurableRunState]

from_recovery(s) ==
    [status |-> s.status, usage |-> s.usage, next |-> s.seq, failed |-> FALSE,
     durable |-> s]

commit_status(c, status) == [c EXCEPT !.status = status]

(* Mutant: a failed append is reported and forgotten.                      *)
mark_nothing(c) == c

mark_persistence_failed(c) == [c EXCEPT !.failed = TRUE]

mark_audit_degraded(c) == [c EXCEPT !.durable = [@ EXCEPT !.degraded = TRUE]]

Reserved(c, d) == [c EXCEPT !.usage = [@ EXCEPT ![d] = @ + 1]]

(* next_event gives out the sequence number before the reducer answers.    *)
Numbered(c) == [c EXCEPT !.next = @ + 1]

next_event_accepts(c, e) == c.next = c.durable.seq /\ apply_accepts(c.durable, e)

next_event(c, e) == [Numbered(c) EXCEPT !.durable = apply(@, e)]

--------------------------------------------------------------------------------
(* The store.  `journal' is what replaying all committed events yields,    *)
(* `prefix' what replaying them up to the checkpoint yields.               *)

create_run ==
    [created |-> TRUE, journal |-> initial, checkpoint |-> initial, prefix |-> initial,
     terminal |-> FALSE, lastFinished |-> FALSE, sound |-> TRUE,
     granted |-> {}]

(* One transaction: compare the sequence, insert the event, replace the    *)
(* checkpoint when one is given, set the terminal column.                  *)
append_transition(st, e, s) ==
    LET replay == apply(st.journal, e)
        finished == e.kind = "RunFinished"
    IN  [created |-> TRUE, journal |-> replay,
         checkpoint |-> IF is_quiescent(s) THEN s ELSE st.checkpoint,
         prefix |-> IF is_quiescent(s) THEN replay ELSE st.prefix,
         terminal |-> st.terminal \/ finished, lastFinished |-> finished,
         sound |-> st.sound /\ apply_accepts(st.journal, e),
         granted |-> IF e.kind = "ApprovalGranted" THEN st.granted \cup {e.id}
                     ELSE st.granted]

(* load_run and recover_loaded_run.                                        *)
Disposition(late) ==
    CASE store.terminal # store.lastFinished -> "Corrupt"
      [] store.terminal = store.lastFinished
           /\ (~store.sound \/ store.checkpoint # store.prefix) -> "CorruptCheckpoint"
      [] OTHER -> Classify(store.journal, Contract, late)

--------------------------------------------------------------------------------
(* Where the task is.                                                      *)

HarnessPCs ==
    {"audit", "degrade", "grounding", "modelPort", "modelWait", "knowledgePort", "knowledgeWait",
     "interrupted", "validate", "authorize", "approvalPort", "approvalWait", "approved",
     "toolPort", "toolWait", "toolInterrupted"}

(* The task rests at an engine label p, or waits at p inside an operation. *)
At(p) ==
    [at |-> p, mode |-> "-", ok |-> "-", err |-> "-",
     id |-> IF p \in HarnessPCs THEN op.id ELSE None,
     cap |-> IF p \in HarnessPCs THEN op.cap ELSE "-"]

Auditing(mode, ok, err) ==
    [at |-> "audit", mode |-> mode, ok |-> ok, err |-> err, id |-> op.id, cap |-> op.cap]

Begins(o, id, cap) == [[o EXCEPT !.id = id] EXCEPT !.cap = cap]

Faulted == faults < MaxFaults /\ faults' = faults + 1

Idle == {"off", "returnedOk", "returnedErr"}

Live == op.at \notin Idle

HarnessInit ==
    /\ ctx = from_recovery(initial)
    /\ op = [at |-> "create", mode |-> "-", ok |-> "-", err |-> "-", id |-> None,
             cap |-> "-"]
    /\ store = [create_run EXCEPT !.created = FALSE]
    /\ stop = "no" /\ hand = EmptyHand /\ performed = {} /\ faults = 0

--------------------------------------------------------------------------------
(* Mutant: a failed append does not stop the operation.                    *)
persist_transition_ignored(c, e, rejected, committed, failed) ==
    \/ /\ ~next_event_accepts(c, e)
       /\ ctx' = rejected /\ op' = failed /\ UNCHANGED <<store, faults>>
    \/ /\ next_event_accepts(c, e)
       /\ store.journal.seq = c.next
       /\ ctx' = next_event(c, e) /\ op' = committed
       /\ store' = append_transition(store, e, ctx'.durable)
       /\ UNCHANGED faults
    \/ /\ next_event_accepts(c, e)
       /\ store.journal.seq = c.next => Faulted
       /\ store.journal.seq # c.next => UNCHANGED faults
       /\ ctx' = next_event(c, e) /\ op' = committed
       /\ UNCHANGED store

(* next_event and persist_transition: the reducer may reject the event,    *)
(* the store may refuse it, or it is committed.                            *)
persist_transition(c, e, rejected, committed, failed) ==
    \/ /\ ~next_event_accepts(c, e)
       /\ ctx' = rejected /\ op' = failed /\ UNCHANGED <<store, faults>>
    \/ /\ next_event_accepts(c, e)
       /\ store.journal.seq = c.next
       /\ ctx' = next_event(c, e) /\ op' = committed
       /\ store' = append_transition(store, e, ctx'.durable)
       /\ UNCHANGED faults
    \/ /\ next_event_accepts(c, e)
       /\ store.journal.seq = c.next => Faulted
       /\ store.journal.seq # c.next => UNCHANGED faults
       /\ ctx' = mark_persistence_failed(next_event(c, e)) /\ op' = failed
       /\ UNCHANGED store

(* Persist and audit; o is the wait for the audit sink.                    *)
Emit(c, e, o) == persist_transition(c, e, Numbered(c), o, At(o.err))

(* audit_terminal_best_effort: whatever happens, continue at p.            *)
EmitTerminal(c, e, p) ==
    persist_transition(c, e, mark_audit_degraded(Numbered(c)),
                       Auditing("best", p, p), At(p))

terminalize(outcome, p) ==
    IF ctx.status = "Running"
    THEN EmitTerminal(commit_status(ctx, outcome),
                      [kind |-> "RunFinished", outcome |-> outcome], p)
    ELSE op' = At(p) /\ UNCHANGED <<ctx, store, faults>>

StopOutcome == IF stop = "cancelled" THEN "Cancelled" ELSE "Exceeded"

(* A is the rest of the operation, err where it returns an error.          *)
preflight(A, err) ==
    \/ /\ ctx.failed \/ ctx.status # "Running"
       /\ op' = At(err) /\ UNCHANGED <<ctx, store, faults>>
    \/ /\ ~ctx.failed /\ ctx.status = "Running" /\ stop # "no"
       /\ terminalize(StopOutcome, err)
    \/ ~ctx.failed /\ ctx.status = "Running" /\ stop = "no" /\ A

(* Mutant: one more than the limit.                                        *)
reserve_inclusive(d, A, err) ==
    IF ctx.usage[d] <= Limit[d] THEN A ELSE terminalize("Exceeded", err)

reserve(d, A, err) ==
    IF ctx.usage[d] < Limit[d] THEN A ELSE terminalize("Exceeded", err)

--------------------------------------------------------------------------------
(* The audit sink.                                                         *)

RunBound == {"configured", "required"}

Audited == op.at = "audit" /\ (op.mode \in RunBound => stop = "no")

AuditRecorded ==
    /\ Audited
    /\ op' = At(op.ok)
    /\ UNCHANGED <<ctx, store, stop, hand, performed, faults>>

(* Mutant: under fail-open the failure is remembered in memory only.       *)
AuditFailsInMemory ==
    /\ Audited /\ Faulted
    /\ ctx' = mark_audit_degraded(ctx)
    /\ op' = At(IF FailOpen \/ op.mode \in {"best", "interrupt"} THEN op.ok ELSE op.err)
    /\ UNCHANGED <<store, stop, hand, performed>>

(* Under fail-open, and for a required audit, the failure itself becomes   *)
(* an event; fail-closed returns the error; best effort only remembers.    *)
AuditFails ==
    /\ Audited /\ Faulted
    /\ \/ /\ op.mode = "required" \/ (op.mode \in {"configured", "lifecycle"} /\ FailOpen)
          /\ op' = [op EXCEPT !.at = "degrade"] /\ UNCHANGED ctx
       \/ /\ op.mode \in {"configured", "lifecycle"} /\ ~FailOpen
          /\ op' = At(op.err) /\ UNCHANGED ctx
       \/ /\ op.mode \in {"best", "interrupt"}
          /\ ctx' = mark_audit_degraded(ctx) /\ op' = At(op.ok)
    /\ UNCHANGED <<store, stop, hand, performed>>

record_audit_degraded ==
    /\ op.at = "degrade"
    /\ persist_transition(ctx, [kind |-> "AuditDegraded"], Numbered(ctx),
                          At(IF op.mode = "required" THEN op.err ELSE op.ok), At(op.err))
    /\ UNCHANGED <<stop, hand, performed>>

(* Mutant: the run is terminalized and the operation carries on.           *)
AuditInterruptedGoesOn ==
    /\ op.at = "audit" /\ op.mode \in RunBound /\ stop # "no"
    /\ terminalize(StopOutcome, op.ok)
    /\ UNCHANGED <<stop, hand, performed>>

AuditInterrupted ==
    /\ op.at = "audit" /\ op.mode \in RunBound /\ stop # "no"
    /\ terminalize(StopOutcome, op.err)
    /\ UNCHANGED <<stop, hand, performed>>

--------------------------------------------------------------------------------
(* Effects, called from a callback of the program.                         *)

Calling == op.at = "callback" /\ ctx.next <= store.journal.seq + MaxSkips

Performed(kinds) == {x \in performed : x[1] \in kinds}

Dispatch(effect, p) ==
    /\ performed' = performed \cup {effect}
    /\ op' = At(p)
    /\ UNCHANGED <<ctx, store, stop, hand, faults>>

(* Noted stands for the action events the reducer only remembers.          *)
Noted == [kind |-> "Noted"]

invoke_model ==
    /\ Calling
    /\ \E grounded \in BOOLEAN :
        /\ grounded => hand.evidence # None
        /\ preflight(
             reserve("model",
               Emit(Reserved(ctx, "model"),
                    [kind |-> "ModelStarted", id |-> ctx.next,
                     usage |-> ctx.usage["model"] + 1],
                    Begins(Auditing("configured",
                                    IF grounded THEN "grounding" ELSE "modelPort",
                                    "callback"), ctx.next, "-")),
               "callback"), "callback")
    /\ UNCHANGED <<stop, hand, performed>>

BindGrounding ==
    /\ op.at = "grounding"
    /\ Emit(ctx, [kind |-> "GroundingBound", retrieval |-> hand.evidence, id |-> op.id],
            Auditing("configured", "modelPort", "callback"))
    /\ UNCHANGED <<stop, hand, performed>>

ModelDispatched ==
    op.at = "modelPort" /\ stop = "no" /\ Dispatch(<<"Model", op.id>>, "modelWait")

ModelAnswers ==
    /\ op.at = "modelWait" /\ stop = "no"
    /\ \E p \in {"gotModel", "callback"} :
         Emit(ctx, [kind |-> "ModelEnded", id |-> op.id],
              Auditing("configured", p, "callback"))
    /\ UNCHANGED <<stop, hand, performed>>

(* Mutant: the deadline does not bound the wait for an answer.             *)
ModelInterruptedBeforeCall ==
    /\ op.at = "modelPort" /\ stop # "no"
    /\ terminalize(StopOutcome, "callback")
    /\ UNCHANGED <<stop, hand, performed>>

ModelInterrupted ==
    /\ op.at \in {"modelPort", "modelWait"} /\ stop # "no"
    /\ terminalize(StopOutcome, "callback")
    /\ UNCHANGED <<stop, hand, performed>>

retrieve_knowledge ==
    /\ Calling /\ Cardinality(Performed({"Knowledge"})) < MaxRetrievals
    /\ preflight(
         Emit(ctx, IF ctx.durable.retrieving = None
                   THEN [kind |-> "RetrievalStarted", id |-> ctx.next]
                   ELSE [kind |-> "RetrievalRestarted", id |-> ctx.next,
                         previous |-> ctx.durable.retrieving],
              Begins(Auditing("configured", "knowledgePort", "callback"), ctx.next, "-")),
         "callback")
    /\ UNCHANGED <<stop, hand, performed>>

KnowledgeDispatched ==
    op.at = "knowledgePort" /\ stop = "no" /\ Dispatch(<<"Knowledge", op.id>>, "knowledgeWait")

(* Evidence, a failure, or evidence without durable references, which is   *)
(* an error that records nothing.                                          *)
KnowledgeAnswers ==
    /\ op.at = "knowledgeWait" /\ stop = "no"
    /\ \/ Emit(ctx, [kind |-> "RetrievalCompleted", id |-> op.id],
               Auditing("configured", "gotEvidence", "callback"))
       \/ Emit(ctx, [kind |-> "RetrievalFailed", id |-> op.id],
               Auditing("configured", "callback", "callback"))
       \/ op' = At("callback") /\ UNCHANGED <<ctx, store, faults>>
    /\ UNCHANGED <<stop, hand, performed>>

(* Mutant: the deadline does not bound the wait for evidence.              *)
KnowledgeInterruptedBeforeCall ==
    /\ op.at = "knowledgePort" /\ stop # "no"
    /\ Emit(ctx, [kind |-> "RetrievalFailed", id |-> op.id],
            Begins(Auditing("interrupt", "interrupted", "callback"), op.id, StopOutcome))
    /\ UNCHANGED <<stop, hand, performed>>

(* record_knowledge_interruption, then terminalize_safety.                 *)
KnowledgeInterrupted ==
    /\ op.at \in {"knowledgePort", "knowledgeWait"} /\ stop # "no"
    /\ Emit(ctx, [kind |-> "RetrievalFailed", id |-> op.id],
            Begins(Auditing("interrupt", "interrupted", "callback"), op.id, StopOutcome))
    /\ UNCHANGED <<stop, hand, performed>>

InterruptionRecorded ==
    /\ op.at = "interrupted"
    /\ terminalize(op.cap, "callback")
    /\ UNCHANGED <<stop, hand, performed>>

--------------------------------------------------------------------------------
(* Actions: a model response is decoded and validated, then executed.      *)

Note(mode, ok) == Emit(ctx, Noted, Auditing(mode, ok, "callback"))

prepare_action ==
    /\ Calling /\ hand.invocation
    /\ preflight(\E p \in {"validate", "callback"} : Note("configured", p), "callback")
    /\ hand' = [hand EXCEPT !.invocation = FALSE]
    /\ UNCHANGED <<stop, performed>>

Validate ==
    /\ op.at = "validate"
    /\ \E p \in {"gotAction", "callback"} : Note("configured", p)
    /\ UNCHANGED <<stop, hand, performed>>

Capabilities == {"ReadOnly", "LocalWrite"}

(* Mutant: writes are audited under the configured policy.                 *)
ToolAuditConfigured(cap) == "configured"

ToolAudit(cap) == IF cap = "LocalWrite" THEN "required" ELSE "configured"

invoke_validated_action ==
    /\ Calling /\ hand.action
    /\ \E cap \in Capabilities :
         preflight(Emit(ctx, Noted,
                        Begins(Auditing(ToolAudit(cap), "authorize", "callback"), None, cap)),
                   "callback")
    /\ hand' = [hand EXCEPT !.action = FALSE]
    /\ UNCHANGED <<stop, performed>>

reserve_and_record_tool_started(cap) ==
    reserve("tool",
            Emit(Reserved(ctx, "tool"),
                 [kind |-> "ToolStarted", id |-> ctx.next, usage |-> ctx.usage["tool"] + 1],
                 Begins(Auditing(ToolAudit(cap), "toolPort", "callback"), ctx.next, cap)),
            "callback")

(* A tool called by name: the policy denies, writes are never executable   *)
(* this way, a read starts.                                                *)
invoke_tool ==
    /\ Calling
    /\ preflight(\/ Note("configured", "callback")
                 \/ reserve_and_record_tool_started("ReadOnly"), "callback")
    /\ UNCHANGED <<stop, hand, performed>>

(* Without an approval port the call ends here.                            *)
request_approval ==
    \/ op' = At("callback") /\ UNCHANGED <<ctx, store, faults>>
    \/ reserve("approval",
               Emit(Reserved(ctx, "approval"),
                    [kind |-> "ApprovalRequested", id |-> ctx.next,
                     usage |-> ctx.usage["approval"] + 1],
                    Begins(Auditing("required", "approvalPort", "callback"), ctx.next,
                           op.cap)),
               "callback")

(* The policy denies; a read starts; a write is refused by containment, by *)
(* a degraded audit trail, or goes to approval.                            *)
Authorize ==
    /\ op.at = "authorize"
    /\ \/ Note("configured", "callback")
       \/ op.cap = "ReadOnly" /\ reserve_and_record_tool_started("ReadOnly")
       \/ op.cap = "LocalWrite" /\ Note("required", "callback")
       \/ /\ op.cap = "LocalWrite" /\ ctx.durable.degraded
          /\ op' = At("callback") /\ UNCHANGED <<ctx, store, faults>>
       \/ /\ op.cap = "LocalWrite" /\ ~ctx.durable.degraded
          /\ preflight(request_approval, "callback")
    /\ UNCHANGED <<stop, hand, performed>>

ApprovalAsked ==
    op.at = "approvalPort" /\ stop = "no" /\ Dispatch(<<"Approval", op.id>>, "approvalWait")

(* await_approval answers: port failure, denial and mismatch end the same  *)
(* way; preflight stands between the answer and a decision.                *)
ApprovalAnswers ==
    /\ op.at = "approvalWait" /\ stop = "no"
    /\ \/ Emit(ctx, [kind |-> "ApprovalEnded", id |-> op.id],
               Auditing("required", "callback", "callback"))
       \/ preflight(Emit(ctx, [kind |-> "ApprovalGranted", id |-> op.id],
                         Auditing("required", "approved", "callback")), "callback")
    /\ UNCHANGED <<stop, hand, performed>>

ApprovalInterrupted ==
    /\ op.at \in {"approvalPort", "approvalWait"} /\ stop # "no"
    /\ terminalize(StopOutcome, "callback")
    /\ UNCHANGED <<stop, hand, performed>>

Approved ==
    /\ op.at = "approved"
    /\ preflight(reserve_and_record_tool_started(op.cap), "callback")
    /\ UNCHANGED <<stop, hand, performed>>

record_tool_terminal_event ==
    Emit(ctx, [kind |-> "ToolEnded", id |-> op.id],
         Auditing(ToolAudit(op.cap), "callback", "callback"))

(* A contained or managed invocation starts before the first look at the   *)
(* cancellation token; start_contained and start_managed may fail.         *)
ToolStartFails ==
    /\ op.at = "toolPort"
    /\ record_tool_terminal_event
    /\ UNCHANGED <<stop, hand, performed>>

ToolDispatched ==
    /\ op.at = "toolPort"
    /\ Dispatch(<<IF op.cap = "LocalWrite" THEN "Write" ELSE "Tool", op.id>>, "toolWait")

ToolAnswers ==
    /\ op.at = "toolWait" /\ stop = "no"
    /\ record_tool_terminal_event
    /\ UNCHANGED <<stop, hand, performed>>

(* A direct tool may be interrupted before it was called; terminate and    *)
(* reap may fail, which ends the call like a port failure.                 *)
ToolInterrupted ==
    /\ stop # "no"
    /\ op.at = "toolWait" \/ (op.at = "toolPort" /\ op.cap = "ReadOnly")
    /\ \/ terminalize(StopOutcome, "toolInterrupted")
       \/ op.at = "toolWait" /\ record_tool_terminal_event
    /\ UNCHANGED <<stop, hand, performed>>

record_tool_terminal_after_runtime_error ==
    /\ op.at = "toolInterrupted"
    /\ EmitTerminal(ctx, [kind |-> "ToolEnded", id |-> op.id], "callback")
    /\ UNCHANGED <<stop, hand, performed>>

--------------------------------------------------------------------------------
(* What an operation returns to the program.                               *)

ReceiveModel ==
    /\ op.at = "gotModel"
    /\ hand' = [hand EXCEPT !.invocation = TRUE]
    /\ op' = At("callback") /\ UNCHANGED <<ctx, store, stop, performed, faults>>

ReceiveEvidence ==
    /\ op.at = "gotEvidence"
    /\ hand' = [hand EXCEPT !.evidence = ctx.durable.manifest]
    /\ op' = At("callback") /\ UNCHANGED <<ctx, store, stop, performed, faults>>

ReceiveAction ==
    /\ op.at = "gotAction"
    /\ hand' = [hand EXCEPT !.action = TRUE]
    /\ op' = At("callback") /\ UNCHANGED <<ctx, store, stop, performed, faults>>

--------------------------------------------------------------------------------
(* Operations of an engine; ok and err are the labels it continues at.     *)

begin_iteration(ok, err) ==
    preflight(reserve("iteration",
                      Emit(Reserved(ctx, "iteration"),
                           [kind |-> "IterationStarted",
                            iteration |-> ctx.usage["iteration"] + 1],
                           Auditing("configured", ok, err)), err), err)

record_loop_progress(e, ok, err) == preflight(Emit(ctx, e, Auditing("configured", ok, err)), err)

(* complete_run and fail_run.                                              *)
finish_run(outcome, ok, err) ==
    preflight(Emit(commit_status(ctx, outcome), [kind |-> "RunFinished", outcome |-> outcome],
                   Auditing("lifecycle", ok, err)), err)

--------------------------------------------------------------------------------
(* What happens around the task.                                           *)

Cancel ==
    /\ ctx.status = "Running" /\ stop # "cancelled"
    /\ stop' = "cancelled"
    /\ UNCHANGED <<ctx, op, store, hand, performed, faults>>

Deadline ==
    /\ ctx.status = "Running" /\ stop = "no"
    /\ stop' = "late"
    /\ UNCHANGED <<ctx, op, store, hand, performed, faults>>

(* The process dies; what is left is the store.                            *)
HarnessCrash ==
    /\ Faulted /\ store.created /\ op.at # "off"
    /\ op' = At("off") /\ ctx' = from_recovery(initial) /\ stop' = "no"
    /\ hand' = EmptyHand
    /\ UNCHANGED <<store, performed>>

(* A task takes the recovered run up at engine label p.                    *)
TakeUp(p) ==
    /\ op.at \in Idle /\ store.created
    /\ Disposition(FALSE) = "Resumable"
    /\ ctx' = from_recovery(store.journal)
    /\ op' = At(p) /\ stop' = "no" /\ hand' = EmptyHand
    /\ UNCHANGED <<store, performed, faults>>

--------------------------------------------------------------------------------
(* start_run.                                                              *)

CreateRun ==
    /\ op.at = "create"
    /\ \/ store' = create_run /\ op' = At("created") /\ UNCHANGED faults
       \/ Faulted /\ op' = At("returnedErr") /\ UNCHANGED store
    /\ UNCHANGED <<ctx, stop, hand, performed>>

RecordStart ==
    /\ op.at = "created"
    /\ Emit(commit_status(ctx, "Running"), [kind |-> "RunStarted"],
            Auditing("lifecycle", "begin", "startFailed"))
    /\ UNCHANGED <<stop, hand, performed>>

terminalize_after_start_audit_failure ==
    /\ op.at = "startFailed"
    /\ IF FailOpen THEN op' = At("returnedErr") /\ UNCHANGED <<ctx, store, faults>>
       ELSE terminalize("Failed", "returnedErr")
    /\ UNCHANGED <<stop, hand, performed>>

start_run == CreateRun \/ RecordStart \/ terminalize_after_start_audit_failure

(* What the harness does by itself once an operation is under way.         *)
HarnessStep ==
    \/ AuditRecorded \/ AuditFails \/ record_audit_degraded \/ AuditInterrupted
    \/ BindGrounding \/ ModelDispatched \/ ModelInterrupted
    \/ KnowledgeDispatched \/ KnowledgeInterrupted \/ InterruptionRecorded
    \/ Validate \/ Authorize \/ ApprovalAsked \/ ApprovalInterrupted \/ Approved
    \/ ToolStartFails \/ ToolDispatched \/ ToolInterrupted
    \/ record_tool_terminal_after_runtime_error
    \/ ReceiveModel \/ ReceiveEvidence \/ ReceiveAction

PortAnswers ==
    ModelAnswers \/ KnowledgeAnswers \/ ApprovalAnswers \/ ToolAnswers

--------------------------------------------------------------------------------
Undegraded(s) == [s EXCEPT !.degraded = FALSE]

(* While no append has failed, the state the live reducer holds is the one *)
(* replaying the journal yields, except for the audit flag that best       *)
(* effort audits set in memory; and no degradation on record is forgotten. *)
(* After a failed append the live state is never behind the journal.       *)
LiveIsReplay ==
    Live =>
      /\ ~ctx.failed => Undegraded(ctx.durable) = Undegraded(store.journal)
      /\ store.journal.degraded => ctx.durable.degraded
      /\ ctx.durable.seq >= store.journal.seq

(* A run that is on record as not finished can always be loaded: its log   *)
(* replays, its checkpoint is the replay of its prefix and its terminal    *)
(* column agrees with its last event.                                      *)
UnfinishedRunLoads ==
    store.journal.status \notin Outcomes =>
        Disposition(FALSE) \notin {"Corrupt", "CorruptCheckpoint"}

(* Across crashes and restarts a run performs no more model calls, tool    *)
(* calls and approval requests than its budget, and never enters more      *)
(* nodes than it may.                                                      *)
BudgetKept ==
    /\ Cardinality(Performed({"Model"})) <= Limit["model"]
    /\ Cardinality(Performed({"Tool", "Write"})) <= Limit["tool"]
    /\ Cardinality(Performed({"Approval"})) <= Limit["approval"]
    /\ \A d \in Dimensions : store.journal.usage[d] <= Limit[d]

(* A local write starts only with an approval of its own and with an audit *)
(* trail that has recorded everything so far.                              *)
WriteUnderHealthyAudit ==
    [][Performed({"Write"})' # Performed({"Write"}) =>
          /\ ~ctx.durable.degraded
          /\ Cardinality(Performed({"Write"})') <= Cardinality(store.granted)]_hvars

Ledger == INSTANCE EffectLedger WITH
    status <- store.journal.status,
    open <- {x[2] : x \in store.journal.pending},
    done <- {x[2] : x \in Performed({"Model", "Approval", "Tool", "Write"})},
    live <- Live

(* The run, driven by an engine with crashes and recovery, is an effect    *)
(* ledger.                                                                 *)
ImplementsLedger == Ledger!LedgerSpec

(* Recovery compares the stored checkpoint with the replay of its prefix:  *)
(* they are equal whenever the journal itself replays.                     *)
CheckpointIsReplay == store.checkpoint = store.prefix
================================================================================
