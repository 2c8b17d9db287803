---------------------------- MODULE DurableApproval ----------------------------
(***************************************************************************)
(* Durable human approval of a LocalWrite: the journal and the approval    *)
(* rows of one graph run in the store, and the tasks that suspend the run, *)
(* record a decision, abort the wait or resume it.  Tasks interleave at    *)
(* every await; every write to the store is a compare-and-set on the last  *)
(* event sequence, on the row's status and version, or on both.            *)
(*                                                                         *)
(* The journal is represented by what the reducer makes of it: `journal'   *)
(* is the DurableRunState that replaying the committed events yields, and  *)
(* every live RunContext carries its own copy (task[t].ctx).               *)
(***************************************************************************)
EXTENDS Naturals

CONSTANTS
    Tasks,          \* async tasks that may run a harness operation on the run
    Waits,          \* DurableApprovalWaitId values
    NoWait,         \* the graph position is not Waiting
    MaxToolCalls,   \* RunBudget::max_tool_calls
    MaxApprovals,   \* RunBudget::max_approval_requests
    FailOpen,       \* AuditFailurePolicy of the harness is FailOpen
    Faulty,         \* the store may refuse, tasks may be dropped, the process may crash
    MaxEvents       \* bound: no new command once the journal is this long

ASSUME NoWaitAssumption == NoWait \notin Waits
ASSUME BudgetAssumption == MaxToolCalls \in Nat /\ MaxApprovals \in Nat
ASSUME SwitchAssumption == FailOpen \in BOOLEAN /\ Faulty \in BOOLEAN

VARIABLES
    journal,    \* DurableRunState of the committed events
    terminal,   \* column runs.terminal
    lastFin,    \* the last committed event is RunFinished
    decision,   \* DurableApprovalDecisionRecorded events, by wait
    started,    \* waits whose ToolInvocationStarted is committed
    row,        \* durable_approvals.status, by wait
    version,    \* durable_approvals.row_version, by wait
    task,       \* the live tasks
    dispatched, \* history: how often the contained port started the write
    audited     \* history: what the audit sink has recorded

store == <<journal, terminal, lastFin, decision, started, row, version>>
vars == <<journal, terminal, lastFin, decision, started, row, version, task,
          dispatched, audited>>

--------------------------------------------------------------------------------
(* The reducer, restricted to the events of the approval protocol.         *)

RunState ==
    [seq : Nat, status : {"Running", "Finished"}, at : Waits \cup {NoWait},
     pending : SUBSET Waits, degraded : BOOLEAN, tools : Nat, approvals : Nat]

(* An event that only advances the sequence (ActionExecutionBound,         *)
(* DurableApprovalDecisionRecorded, -Granted, -Denied, node progress).     *)
Noted(s) == [s EXCEPT !.seq = @ + 1]

RunFinished(s) == Noted([s EXCEPT !.status = "Finished"])

AuditDegraded(s) == Noted([s EXCEPT !.degraded = TRUE])

Prepared(s) == Noted([s EXCEPT !.approvals = @ + 1])

GraphSuspended(s, w) == Noted([s EXCEPT !.at = w])

GraphResumed(s) == Noted([s EXCEPT !.at = NoWait])

Reserved(s) == [s EXCEPT !.tools = @ + 1]

ToolStarted(s, w) == Noted([Reserved(s) EXCEPT !.pending = @ \cup {w}])

ToolEnded(s, w) == Noted([s EXCEPT !.pending = @ \ {w}])

GraphFinished(s) == Noted([s EXCEPT !.status = "Finished"])

--------------------------------------------------------------------------------
(* Tasks.                                                                  *)

(* Where a task waits for the audit sink ...                               *)
AuditPCs ==
    {"bindAudit", "prepAudit", "suspAudit", "decAudit", "abortAudit", "denyAudit",
     "deniedAudit", "grantAudit", "resumedAudit", "startAudit", "endAudit",
     "endFailAudit", "nodeAudit", "enterAudit", "finishAudit"}

(* ... and where it continues.                                             *)
AfterAudit(p) ==
    CASE p = "bindAudit"    -> "prepare"     [] p = "prepAudit"   -> "publish"
      [] p = "denyAudit"    -> "denyReload"  [] p = "deniedAudit" -> "resumed"
      [] p = "grantAudit"   -> "readying"    [] p = "startAudit"  -> "invoking"
      [] p = "resumedAudit" -> "startReload" [] p = "endAudit"    -> "endReload"
      [] p = "nodeAudit"    -> "entering"    [] p = "enterAudit"  -> "own"
      [] OTHER -> "idle"

(* Mutant: the start of the tool is audited under the configured policy.   *)
RequiredAuditPCsWithoutStart ==
    {"bindAudit", "prepAudit", "denyAudit", "grantAudit", "endAudit", "endFailAudit"}

(* audit_required and audit_already_persisted(.., required = true).        *)
RequiredAuditPCs ==
    {"bindAudit", "prepAudit", "denyAudit", "grantAudit", "startAudit",
     "endAudit", "endFailAudit"}

(* Waits inside the callback of the graph node, whose error the graph      *)
(* engine answers with fail_graph.                                         *)
SuspendPCs == {"own", "bindAudit", "prepare", "prepAudit", "publish", "suspAudit"}

(* Handlers of the service API, dropped when the client goes away.         *)
HandlerPCs == {"decide", "decAudit", "abort", "aborting", "abortAudit"}

(* Steps whose store operation compares the last sequence ...              *)
SeqPCs == {"own", "prepare", "publish", "decide", "aborting", "denying",
           "denyCommit", "granting", "resuming", "starting", "ended",
           "endedFail", "cancelled", "resumed", "entering", "failing"}

(* ... those that compare the row's status and version, with the status.   *)
RowPCs == {"decide", "aborting", "denyCommit", "readying", "resuming", "starting",
           "consuming"}

RowStatusAt(p) ==
    CASE p \in {"decide", "aborting"}   -> "Waiting"
      [] p = "denyCommit"              -> "DecisionRecordedDeny"
      [] p = "readying"                -> "DecisionRecordedApprove"
      [] p \in {"resuming", "starting"} -> "ApprovedReady"
      [] OTHER                         -> "Executing"

LoadPCs == {"abort", "resume", "denyReload", "readyReload", "startReload", "endReload"}

PCs == {"idle", "invoking", "running"}
         \cup AuditPCs \cup SeqPCs \cup RowPCs \cup LoadPCs

Status == {"Waiting", "DecisionRecordedApprove", "DecisionRecordedDeny",
           "ApprovedReady", "Executing", "Consumed"}

Blank == [seq |-> 0, status |-> "Finished", at |-> NoWait, pending |-> {},
          degraded |-> FALSE, tools |-> 0, approvals |-> 0]

Idle == [pc |-> "idle", ctx |-> Blank, wait |-> NoWait, seen |-> 0]

Init ==
    /\ journal = [seq |-> 3, status |-> "Running", at |-> NoWait, pending |-> {},
                  degraded |-> FALSE, tools |-> 0, approvals |-> 0]
    /\ terminal = FALSE
    /\ lastFin = FALSE
    /\ decision = [w \in Waits |-> "none"]
    /\ started = {}
    /\ row = [w \in Waits |-> "absent"]
    /\ version = [w \in Waits |-> 0]
    /\ \E o \in Tasks :
         task = [t \in Tasks |->
                   IF t = o THEN [pc |-> "own", ctx |-> journal, wait |-> NoWait, seen |-> 0]
                   ELSE Idle]
    /\ dispatched = [w \in Waits |-> 0]
    /\ audited = {}

Become(t, r) == task' = [task EXCEPT ![t] = r]

(* Continue at pc p with context s; a task that returns to its caller is   *)
(* forgotten.                                                              *)
With(t, p, s) ==
    IF p = "idle" THEN Idle
    ELSE [pc |-> p, ctx |-> s, wait |-> task[t].wait, seen |-> task[t].seen]

At(t, p) == With(t, p, task[t].ctx)

(* Continue at p with the version of the row just loaded.                  *)
Loaded(t, p) ==
    IF p = "idle" THEN Idle
    ELSE [pc |-> p, ctx |-> task[t].ctx, wait |-> task[t].wait,
          seen |-> version[task[t].wait]]

Current(t) == task[t].ctx.seq = journal.seq

(* append_transition with the context's sequence as the expected one.      *)
Append(t, s, fin) ==
    /\ Current(t)
    /\ journal' = s
    /\ terminal' = (terminal \/ fin)
    /\ lastFin' = fin

(* The same, and the task goes on at p with the context it wrote.          *)
Commit(t, s, p) ==
    /\ Append(t, s, FALSE)
    /\ Become(t, With(t, p, s))

(* Mutant: an UPDATE by wait id alone.                                     *)
MoveRowBlind(t, from, to) ==
    LET w == task[t].wait IN
    /\ row' = [row EXCEPT ![w] = to]
    /\ version' = [version EXCEPT ![w] = @ + 1]

(* UPDATE ... WHERE status = from AND row_version = the version loaded.    *)
MoveRow(t, from, to) ==
    LET w == task[t].wait IN
    /\ row[w] = from
    /\ version[w] = task[t].seen
    /\ row' = [row EXCEPT ![w] = to]
    /\ version' = [version EXCEPT ![w] = @ + 1]

RowsSame == UNCHANGED <<row, version, decision, started>>
HistorySame == UNCHANGED <<dispatched, audited>>

(* terminalize_safety: commit RunFinished if the context still runs and    *)
(* the store accepts it; the operation fails either way.                   *)
Terminalize(t, p) ==
    /\ \/ /\ task[t].ctx.status = "Running"
          /\ Append(t, RunFinished(task[t].ctx), TRUE)
          /\ Become(t, With(t, p, RunFinished(task[t].ctx)))
       \/ /\ Faulty \/ task[t].ctx.status # "Running" \/ ~Current(t)
          /\ UNCHANGED <<journal, terminal, lastFin>>
          /\ Become(t, Idle)
    /\ RowsSame

--------------------------------------------------------------------------------
(* Faults, refusals and the audit sink.                                    *)

(* The compare-and-set of the store operation at this pc cannot succeed.   *)
Conflict(t) ==
    \/ task[t].pc \in SeqPCs /\ ~Current(t)
    \/ /\ task[t].pc \in RowPCs
       /\ \/ row[task[t].wait] # RowStatusAt(task[t].pc)
          \/ version[task[t].wait] # task[t].seen

(* The store reports Conflict, Unavailable, Failed or Corrupt and the      *)
(* operation returns the error; nothing is written.                        *)
StoreRefuses(t) ==
    /\ task[t].pc \in SeqPCs \cup RowPCs \cup LoadPCs
    /\ Faulty \/ Conflict(t)
    /\ Become(t, Idle)
    /\ UNCHANGED store /\ HistorySame

(* The future of an API handler is dropped at an await.                    *)
Drop(t) ==
    /\ Faulty
    /\ task[t].pc \in HandlerPCs
    /\ Become(t, Idle)
    /\ UNCHANGED store /\ HistorySame

(* The process dies: every task is gone, the store stays.                  *)
Crash ==
    /\ Faulty
    /\ task' = [t \in Tasks |-> Idle]
    /\ UNCHANGED store /\ HistorySame

(* What the sink has on record for a wait once this audit succeeds.        *)
AuditMark(t) ==
    IF task[t].pc = "grantAudit" THEN {<<task[t].wait, "granted">>}
    ELSE IF task[t].pc = "startAudit" THEN {<<task[t].wait, "started">>}
    ELSE {}

AuditRecorded(t) ==
    /\ task[t].pc \in AuditPCs
    /\ Become(t, At(t, AfterAudit(task[t].pc)))
    /\ audited' = audited \cup AuditMark(t)
    /\ UNCHANGED store /\ UNCHANGED dispatched

AuditErrorPC(t) == IF task[t].pc \in SuspendPCs THEN "failing" ELSE "idle"

(* Mutant: the flag is set in memory and no event is committed.            *)
DegradeInMemory(t, p) ==
    /\ UNCHANGED <<journal, terminal, lastFin>>
    /\ Become(t, With(t, p, [task[t].ctx EXCEPT !.degraded = TRUE]))

(* record_audit_degraded, then continue at p; a refused append ends it.    *)
Degrade(t, p) ==
    \/ Commit(t, AuditDegraded(task[t].ctx), p)
    \/ /\ Faulty \/ ~Current(t)
       /\ UNCHANGED <<journal, terminal, lastFin>>
       /\ Become(t, Idle)

AuditFails(t) ==
    /\ task[t].pc \in AuditPCs
    /\ CASE task[t].pc \in RequiredAuditPCs -> Degrade(t, AuditErrorPC(t))
         [] task[t].pc \notin RequiredAuditPCs /\ FailOpen ->
              Degrade(t, AfterAudit(task[t].pc))
         [] OTHER -> /\ UNCHANGED <<journal, terminal, lastFin>>
                     /\ Become(t, At(t, AuditErrorPC(t)))
    /\ RowsSame /\ HistorySame

(* Cancellation or the deadline wins the select around the audit call.     *)
(* finishAudit is audit_lifecycle, which only has a timeout.               *)
AuditInterrupted(t) ==
    /\ task[t].pc \in AuditPCs \ {"finishAudit"}
    /\ Terminalize(t, "idle")
    /\ HistorySame

--------------------------------------------------------------------------------
(* Suspension by the task that owns the live context.                      *)

(* preflight finds the run cancelled or past its deadline.                 *)
PreflightStops(t) ==
    /\ task[t].pc \in {"own", "starting", "resumed", "entering", "failing"}
    /\ Terminalize(t, "idle")
    /\ HistorySame

BindAction(t) ==
    /\ task[t].pc = "own"
    /\ ~task[t].ctx.degraded
    /\ Commit(t, Noted(task[t].ctx), "bindAudit")
    /\ RowsSame /\ HistorySame

(* The callback returns an error before it wrote anything: degraded audit, *)
(* a binding or preview mismatch, load_run, the seal or the clock failing. *)
CallbackFails(t) ==
    /\ task[t].pc \in {"own", "prepare", "publish"}
    /\ Become(t, At(t, "failing"))
    /\ UNCHANGED store /\ HistorySame

PrepareApproval(t) ==
    /\ task[t].pc = "prepare"
    /\ IF task[t].ctx.approvals >= MaxApprovals
         THEN Terminalize(t, "idle")
         ELSE Commit(t, Prepared(task[t].ctx), "prepAudit") /\ RowsSame
    /\ HistorySame

(* create_durable_approval_wait: GraphSuspended and the row, atomically.   *)
PublishWait(t) ==
    /\ task[t].pc = "publish"
    /\ \E w \in {v \in Waits : row[v] = "absent"} :
         /\ Commit(t, GraphSuspended(task[t].ctx, w), "suspAudit")
         /\ row' = [row EXCEPT ![w] = "Waiting"]
    /\ UNCHANGED <<version, decision, started>> /\ HistorySame

(* The engine's fail_graph after a failed callback.  A context that is     *)
(* Waiting rejects GraphFailed and the error is ignored.                   *)
FailGraph(t) ==
    /\ task[t].pc = "failing"
    /\ IF task[t].ctx.status = "Running" /\ task[t].ctx.at = NoWait
         THEN Commit(t, GraphFinished(task[t].ctx), "finishAudit")
         ELSE Become(t, Idle) /\ UNCHANGED <<journal, terminal, lastFin>>
    /\ RowsSame /\ HistorySame

(* complete_graph or fail_graph at a terminal node.                        *)
FinishGraph(t) ==
    /\ task[t].pc = "own"
    /\ Commit(t, GraphFinished(task[t].ctx), "finishAudit")
    /\ RowsSame /\ HistorySame

CompleteNode(t) ==
    /\ task[t].pc = "resumed"
    /\ Commit(t, Noted(task[t].ctx), "nodeAudit")
    /\ RowsSame /\ HistorySame

EnterNode(t) ==
    /\ task[t].pc = "entering"
    /\ Commit(t, Noted(task[t].ctx), "enterAudit")
    /\ RowsSame /\ HistorySame

--------------------------------------------------------------------------------
(* Commands on a waiting run.  recover_run must classify it as Waiting.    *)

Loadable == terminal <=> lastFin

RecoverWaiting(w) ==
    /\ Loadable
    /\ journal.pending = {}
    /\ journal.status = "Running"
    /\ journal.at = w

(* The fresh context and the row version the caller saw in the view.       *)
Begin(t, w, p) ==
    /\ task[t].pc = "idle"
    /\ journal.seq < MaxEvents
    /\ RecoverWaiting(w)
    /\ Become(t, [pc |-> p, ctx |-> journal, wait |-> w, seen |-> version[w]])
    /\ UNCHANGED store /\ HistorySame

BeginDecision(t, w) == Begin(t, w, "decide")
BeginAbort(t, w) == Begin(t, w, "abort")
BeginResume(t, w) == Begin(t, w, "resume")

Recorded(o) ==
    IF o = "approve" THEN "DecisionRecordedApprove" ELSE "DecisionRecordedDeny"

RecordDecision(t, o) ==
    /\ task[t].pc = "decide"
    /\ MoveRow(t, "Waiting", Recorded(o))
    /\ Commit(t, Noted(task[t].ctx), "decAudit")
    /\ decision' = [decision EXCEPT ![task[t].wait] = o]
    /\ UNCHANGED started /\ HistorySame

(* abort_durable_waiting loads the row and checks status and version ...   *)
AbortLoad(t) ==
    /\ task[t].pc = "abort"
    /\ LET w == task[t].wait IN
       Become(t, IF row[w] = "Waiting" /\ version[w] = task[t].seen
                   THEN At(t, "aborting") ELSE Idle)
    /\ UNCHANGED store /\ HistorySame

(* Mutant: the row is consumed and the run goes on.                        *)
AbortCommitRowOnly(t) ==
    /\ task[t].pc = "aborting"
    /\ MoveRow(t, "Waiting", "Consumed")
    /\ Commit(t, GraphResumed(task[t].ctx), "abortAudit")
    /\ UNCHANGED <<decision, started>> /\ HistorySame

(* ... then commits RunFinished and consumes the row in one transaction.   *)
AbortCommit(t) ==
    /\ task[t].pc = "aborting"
    /\ MoveRow(t, "Waiting", "Consumed")
    /\ Append(t, RunFinished(task[t].ctx), TRUE)
    /\ Become(t, With(t, "abortAudit", RunFinished(task[t].ctx)))
    /\ UNCHANGED <<decision, started>> /\ HistorySame

--------------------------------------------------------------------------------
(* resume_durable_local_write.                                             *)

(* Mutant: a row left ApprovedReady by an earlier resume is not continued. *)
ResumeLoadFromStart(t) ==
    /\ task[t].pc = "resume"
    /\ LET w == task[t].wait
           next == CASE row[w] = "DecisionRecordedDeny" -> "denying"
                     [] row[w] = "DecisionRecordedApprove" /\ ~task[t].ctx.degraded
                          -> "granting"
                     [] OTHER -> "idle"
       IN Become(t, Loaded(t, next))
    /\ UNCHANGED store /\ HistorySame

(* Load the row and branch on its status; restore_local_write refuses a    *)
(* context whose audit is degraded.                                        *)
ResumeLoad(t) ==
    /\ task[t].pc = "resume"
    /\ LET w == task[t].wait
           next == CASE row[w] = "DecisionRecordedDeny" -> "denying"
                     [] row[w] = "DecisionRecordedApprove" /\ ~task[t].ctx.degraded
                          -> "granting"
                     [] row[w] = "ApprovedReady" /\ ~task[t].ctx.degraded -> "resuming"
                     [] OTHER -> "idle"
       IN Become(t, Loaded(t, next))
    /\ UNCHANGED store /\ HistorySame

(* Reload the row before the next compare-and-set.                         *)
ReloadPCs == {"denyReload", "readyReload", "startReload", "endReload"}

AfterReload(p) ==
    CASE p = "denyReload"  -> "denyCommit" [] p = "readyReload" -> "resuming"
      [] p = "startReload" -> "starting"   [] OTHER             -> "consuming"

Reload(t) ==
    /\ task[t].pc \in ReloadPCs
    /\ Become(t, Loaded(t, AfterReload(task[t].pc)))
    /\ UNCHANGED store /\ HistorySame

(* DurableApprovalDenied, then GraphResumed with the row consumed.         *)
Deny(t) ==
    /\ task[t].pc = "denying"
    /\ Commit(t, Noted(task[t].ctx), "denyAudit")
    /\ RowsSame /\ HistorySame

DenyCommit(t) ==
    /\ task[t].pc = "denyCommit"
    /\ MoveRow(t, "DecisionRecordedDeny", "Consumed")
    /\ Commit(t, GraphResumed(task[t].ctx), "deniedAudit")
    /\ UNCHANGED <<decision, started>> /\ HistorySame

(* DurableApprovalGranted, then the row to ApprovedReady without an event. *)
Grant(t) ==
    /\ task[t].pc = "granting"
    /\ Commit(t, Noted(task[t].ctx), "grantAudit")
    /\ RowsSame /\ HistorySame

MarkReady(t) ==
    /\ task[t].pc = "readying"
    /\ MoveRow(t, "DecisionRecordedApprove", "ApprovedReady")
    /\ Become(t, At(t, "readyReload"))
    /\ UNCHANGED <<journal, terminal, lastFin, decision, started>> /\ HistorySame

(* GraphResumed; the row keeps its status and gets a new version.          *)
ResumeGraph(t) ==
    /\ task[t].pc = "resuming"
    /\ MoveRow(t, "ApprovedReady", "ApprovedReady")
    /\ Commit(t, GraphResumed(task[t].ctx), "resumedAudit")
    /\ UNCHANGED <<decision, started>> /\ HistorySame

(* Mutant: no reservation against the budget.                              *)
StartToolUnreserved(t) ==
    /\ task[t].pc = "starting"
    /\ MoveRow(t, "ApprovedReady", "Executing")
    /\ Commit(t, ToolStarted(task[t].ctx, task[t].wait), "startAudit")
    /\ started' = started \cup {task[t].wait}
    /\ UNCHANGED decision /\ HistorySame

(* Reserve the tool call; ToolInvocationStarted with the row Executing.    *)
StartTool(t) ==
    /\ task[t].pc = "starting"
    /\ IF task[t].ctx.tools >= MaxToolCalls
         THEN Terminalize(t, "idle")
         ELSE /\ MoveRow(t, "ApprovedReady", "Executing")
              /\ Commit(t, ToolStarted(task[t].ctx, task[t].wait), "startAudit")
              /\ started' = started \cup {task[t].wait}
              /\ UNCHANGED decision
    /\ HistorySame

(* start_contained: the write is dispatched, or the port cannot start.     *)
Invoke(t) ==
    /\ task[t].pc = "invoking"
    /\ \/ /\ dispatched' = [dispatched EXCEPT ![task[t].wait] = @ + 1]
          /\ Become(t, At(t, "running"))
       \/ /\ Become(t, At(t, "endedFail"))
          /\ UNCHANGED dispatched
    /\ UNCHANGED store /\ UNCHANGED audited

(* Mutant: an adapter error is retried.                                    *)
PortAnswersRetry(t) ==
    /\ task[t].pc = "running"
    /\ \E p \in {"ended", "invoking"} : Become(t, At(t, p))
    /\ UNCHANGED store /\ HistorySame

(* The invocation answers: success or domain failure, or an adapter error  *)
(* (also when it could not be reaped after a cancellation).                *)
PortAnswers(t) ==
    /\ task[t].pc = "running"
    /\ \E p \in {"ended", "endedFail"} : Become(t, At(t, p))
    /\ UNCHANGED store /\ HistorySame

(* Cancellation or deadline during the invocation, which is reaped:        *)
(* RunFinished first, the tool's terminal event after it.                  *)
PortInterrupted(t) ==
    /\ task[t].pc = "running"
    /\ Terminalize(t, "cancelled")
    /\ HistorySame

ToolTerminal(t) ==
    /\ task[t].pc \in {"ended", "endedFail", "cancelled"}
    /\ Commit(t, ToolEnded(task[t].ctx, task[t].wait),
              CASE task[t].pc = "ended" -> "endAudit"
                [] task[t].pc = "endedFail" -> "endFailAudit"
                [] OTHER -> "idle")
    /\ RowsSame /\ HistorySame

ConsumeRow(t) ==
    /\ task[t].pc = "consuming"
    /\ MoveRow(t, "Executing", "Consumed")
    /\ Become(t, At(t, "resumed"))
    /\ UNCHANGED <<journal, terminal, lastFin, decision, started>> /\ HistorySame

--------------------------------------------------------------------------------
(* The specification.                                                      *)

Audit(t) == AuditRecorded(t) \/ AuditFails(t) \/ AuditInterrupted(t)

Suspend(t) ==
    \/ BindAction(t) \/ PrepareApproval(t) \/ PublishWait(t)
    \/ CallbackFails(t) \/ FailGraph(t) \/ FinishGraph(t)
    \/ CompleteNode(t) \/ EnterNode(t) \/ PreflightStops(t)

Resume(t) ==
    \/ ResumeLoad(t) \/ Reload(t) \/ Deny(t) \/ DenyCommit(t) \/ Grant(t)
    \/ MarkReady(t) \/ ResumeGraph(t) \/ StartTool(t) \/ Invoke(t)
    \/ PortAnswers(t) \/ PortInterrupted(t) \/ ToolTerminal(t) \/ ConsumeRow(t)

Decide(t) == \E o \in {"approve", "deny"} : RecordDecision(t, o)

Abort(t) == AbortLoad(t) \/ AbortCommit(t)

Command(t) ==
    \E w \in Waits : BeginDecision(t, w) \/ BeginAbort(t, w) \/ BeginResume(t, w)

Work(t) ==
    Audit(t) \/ Suspend(t) \/ Resume(t) \/ Decide(t) \/ Abort(t) \/ StoreRefuses(t)

Next == Crash \/ \E t \in Tasks : Command(t) \/ Work(t) \/ Drop(t)

Spec == Init /\ [][Next]_vars

(* Tasks the runtime polls keep making progress, and operators repeat the  *)
(* resume command whenever the run can be recovered as Waiting and a task  *)
(* is free (strong: other commands may take the task in between).          *)
Fairness ==
    /\ \A t \in Tasks : WF_vars(Work(t))
    /\ \A w \in Waits : SF_vars(\E t \in Tasks : BeginResume(t, w))

LiveSpec == Spec /\ Fairness

--------------------------------------------------------------------------------
(* Properties.                                                             *)

TaskState ==
    [pc : PCs, ctx : RunState, wait : Waits \cup {NoWait}, seen : Nat]

(* Every variable has the shape the store and the harness give it.         *)
TypeOK ==
    /\ journal \in RunState
    /\ terminal \in BOOLEAN
    /\ lastFin \in BOOLEAN
    /\ decision \in [Waits -> {"none", "approve", "deny"}]
    /\ started \in SUBSET Waits
    /\ row \in [Waits -> Status \cup {"absent"}]
    /\ version \in [Waits -> Nat]
    /\ task \in [Tasks -> TaskState]
    /\ dispatched \in [Waits -> Nat]
    /\ audited \in SUBSET (Waits \X {"granted", "started"})

(* The write of a wait is dispatched at most once, however many tasks      *)
(* resume it and whenever the process crashes: the tool is never retried   *)
(* automatically.                                                          *)
AtMostOneDispatch == \A w \in Waits : dispatched[w] <= 1

(* A dispatched write was approved by a journaled decision, its            *)
(* ToolInvocationStarted is in the journal, and the audit sink recorded    *)
(* both the grant and the start, whatever the audit failure policy:        *)
(* durable start, required audit, dispatch, in this order.                 *)
DispatchAuthorized ==
    \A w \in Waits : dispatched[w] > 0 =>
        /\ decision[w] = "approve"
        /\ w \in started
        /\ {<<w, "granted">>, <<w, "started">>} \subseteq audited

(* The approval row and the journal never disagree about what happened to  *)
(* a wait, although two of the row's transitions carry no event.           *)
RowMatchesJournal ==
    \A w \in Waits :
        /\ row[w] \in {"absent", "Waiting"} => decision[w] = "none" /\ w \notin started
        /\ row[w] \in {"DecisionRecordedApprove", "ApprovedReady"} =>
             decision[w] = "approve" /\ w \notin started
        /\ row[w] = "DecisionRecordedDeny" => decision[w] = "deny" /\ w \notin started
        /\ row[w] = "Executing" => decision[w] = "approve" /\ w \in started
        /\ row[w] = "Consumed" =>
             \/ decision[w] = "approve" /\ w \in started
             \/ decision[w] = "deny" /\ w \notin started
             \/ decision[w] = "none" /\ w \notin started /\ journal.status = "Finished"

(* A context whose next append can succeed is a true copy of the durable   *)
(* state: what resume checked on its snapshot (position, audit health,     *)
(* budget) still holds when its compare-and-set is accepted.               *)
SnapshotCurrent ==
    \A t \in Tasks : task[t].pc # "idle" /\ Current(t) => task[t].ctx = journal

(* While the run is not suspended at most one task can still write to its  *)
(* journal; all other contexts are stale.                                  *)
SingleOwner ==
    journal.at = NoWait =>
        \A t, u \in Tasks :
            /\ task[t].pc # "idle" /\ Current(t)
            /\ task[u].pc # "idle" /\ Current(u)
            => t = u

(* The write is dispatched only while the run is unfinished, with its      *)
(* ToolInvocationStarted pending: a cancellation, deadline or abort that   *)
(* finished the run first excludes it.                                     *)
DispatchWhileRunning ==
    [][\A w \in Waits : dispatched'[w] # dispatched[w] =>
          journal.status = "Running" /\ w \in journal.pending]_vars

(* Tool calls in the journal are within the budget and at least one per    *)
(* dispatched wait, across every resume of the run.                        *)
ToolBudget ==
    /\ journal.tools <= MaxToolCalls
    /\ \A w \in Waits : dispatched[w] > 0 => journal.tools > 0

(* An approved wait does not stay suspended: the run is resumed, unless it *)
(* finishes or its audit is degraded (restore_local_write refuses such a   *)
(* run).  Racing resumes that invalidate each other's snapshot, the one    *)
(* between Ready and Resumed included, leave a row that the next resume    *)
(* continues; only endless failing audits, each with a new event, can put  *)
(* it off (the bound MaxEvents).                                           *)
ApprovedResumes ==
    \A w \in Waits :
        decision[w] = "approve" ~>
            \/ journal.at # w \/ journal.status = "Finished" \/ journal.degraded
            \/ journal.seq >= MaxEvents

(* Recovery of a stored run returns a disposition: load_run does not       *)
(* reject the journal the harness itself wrote.                            *)
RecoveryClassifies == Loadable

--------------------------------------------------------------------------------
(* The abstract approval this protocol implements.                         *)

AnswerOf(w) ==
    CASE row[w] = "absent" -> "none"
      [] row[w] = "Waiting" -> "open"
      [] row[w] \in {"DecisionRecordedApprove", "ApprovedReady"} -> "approved"
      [] row[w] = "DecisionRecordedDeny" -> "denied"
      [] row[w] = "Executing" -> "charged"
      [] row[w] = "Consumed" ->
           (CASE decision[w] = "approve" -> "charged"
              [] decision[w] = "deny" -> "denied"
              [] OTHER -> "withdrawn")

Once == INSTANCE ApprovalOnce WITH
    answer  <- [w \in Waits |-> AnswerOf(w)],
    written <- {w \in Waits : dispatched[w] > 0},
    live    <- journal.status = "Running"

(* Suspending, deciding, aborting and resuming, with all their store       *)
(* steps, audits, crashes and races, implement the one-shot approval.      *)
ImplementsOnce == Once!Spec

================================================================================
