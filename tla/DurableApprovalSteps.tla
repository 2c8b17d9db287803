------------------------- MODULE DurableApprovalSteps --------------------------
(***************************************************************************)
(* What the steps of DurableApproval do to the journal, the tasks and the  *)
(* rows, the inductive invariant, and the steps that leave the rows alone. *)
(***************************************************************************)
EXTENDS DurableApproval, TLAPS

USE NoWaitAssumption, BudgetAssumption, SwitchAssumption

--------------------------------------------------------------------------------
(* The reducer.                                                            *)

(* An event takes the next sequence and changes nothing else by itself.    *)
LEMMA NotedFacts ==
    \A s \in RunState :
        /\ Noted(s) \in RunState
        /\ Noted(s).seq = s.seq + 1
        /\ Noted(s).status = s.status
        /\ Noted(s).at = s.at
        /\ Noted(s).pending = s.pending
        /\ Noted(s).tools = s.tools
  BY DEF RunState, Noted

(* RunFinished, GraphCompleted and GraphFailed end the run.                *)
LEMMA FinishedFacts ==
    \A s \in RunState :
        /\ RunFinished(s) = GraphFinished(s)
        /\ RunFinished(s) \in RunState
        /\ RunFinished(s).seq = s.seq + 1
        /\ RunFinished(s).status = "Finished"
        /\ RunFinished(s).tools = s.tools
        /\ RunFinished(s).at = s.at
  <1> TAKE s \in RunState
  <1> DEFINE r == [s EXCEPT !.status = "Finished"]
  <1>1. /\ r \in RunState /\ r.seq = s.seq /\ r.status = "Finished"
        /\ r.tools = s.tools /\ r.at = s.at
    BY DEF RunState
  <1>2. RunFinished(s) = Noted(r) /\ GraphFinished(s) = Noted(r)
    BY DEF RunFinished, GraphFinished
  <1> HIDE DEF r
  <1> QED
    BY <1>1, <1>2, NotedFacts

(* AuditDegraded touches the audit health only.                            *)
LEMMA DegradedFacts ==
    \A s \in RunState :
        /\ AuditDegraded(s) \in RunState
        /\ AuditDegraded(s).seq = s.seq + 1
        /\ AuditDegraded(s).status = s.status
        /\ AuditDegraded(s).at = s.at
        /\ AuditDegraded(s).tools = s.tools
  <1> TAKE s \in RunState
  <1> DEFINE r == [s EXCEPT !.degraded = TRUE]
  <1>1. /\ r \in RunState /\ r.seq = s.seq /\ r.status = s.status
        /\ r.tools = s.tools /\ r.at = s.at
    BY Zenon DEF RunState
  <1>2. AuditDegraded(s) = Noted(r)
    BY DEF AuditDegraded
  <1> HIDE DEF r
  <1> QED
    BY <1>1, <1>2, NotedFacts

(* DurableApprovalPrepared counts an approval request.                     *)
LEMMA PreparedFacts ==
    \A s \in RunState :
        /\ Prepared(s) \in RunState
        /\ Prepared(s).seq = s.seq + 1
        /\ Prepared(s).status = s.status
        /\ Prepared(s).at = s.at
        /\ Prepared(s).tools = s.tools
  <1> TAKE s \in RunState
  <1> DEFINE r == [s EXCEPT !.approvals = @ + 1]
  <1>1. /\ r \in RunState /\ r.seq = s.seq /\ r.status = s.status
        /\ r.tools = s.tools /\ r.at = s.at
    BY DEF RunState
  <1>2. Prepared(s) = Noted(r)
    BY DEF Prepared
  <1> HIDE DEF r
  <1> QED
    BY <1>1, <1>2, NotedFacts

(* GraphSuspended and GraphResumed move the graph position only.           *)
LEMMA PositionFacts ==
    \A s \in RunState, w \in Waits :
        /\ GraphSuspended(s, w) \in RunState /\ GraphResumed(s) \in RunState
        /\ GraphSuspended(s, w).seq = s.seq + 1 /\ GraphResumed(s).seq = s.seq + 1
        /\ GraphSuspended(s, w).status = s.status /\ GraphResumed(s).status = s.status
        /\ GraphSuspended(s, w).at = w /\ GraphResumed(s).at = NoWait
        /\ GraphSuspended(s, w).tools = s.tools /\ GraphResumed(s).tools = s.tools
  <1> TAKE s \in RunState, w \in Waits
  <1> DEFINE r == [s EXCEPT !.at = w]
             q == [s EXCEPT !.at = NoWait]
  <1>1. /\ r \in RunState /\ r.seq = s.seq /\ r.status = s.status
        /\ r.tools = s.tools /\ r.at = w
    BY DEF RunState
  <1>2. /\ q \in RunState /\ q.seq = s.seq /\ q.status = s.status
        /\ q.tools = s.tools /\ q.at = NoWait
    BY DEF RunState
  <1>3. GraphSuspended(s, w) = Noted(r) /\ GraphResumed(s) = Noted(q)
    BY DEF GraphSuspended, GraphResumed
  <1> HIDE DEF r, q
  <1> QED
    BY <1>1, <1>2, <1>3, NotedFacts

(* ToolInvocationStarted charges one tool call and leaves it pending.      *)
LEMMA ToolStartedFacts ==
    \A s \in RunState, w \in Waits :
        /\ ToolStarted(s, w) \in RunState
        /\ ToolStarted(s, w).seq = s.seq + 1
        /\ ToolStarted(s, w).status = s.status
        /\ ToolStarted(s, w).at = s.at
        /\ ToolStarted(s, w).tools = s.tools + 1
        /\ w \in ToolStarted(s, w).pending
  <1> TAKE s \in RunState, w \in Waits
  <1> DEFINE c == Reserved(s)
             r == [c EXCEPT !.pending = @ \cup {w}]
  <1>1. /\ c \in RunState /\ c.seq = s.seq /\ c.status = s.status
        /\ c.tools = s.tools + 1 /\ c.at = s.at
    BY DEF RunState, Reserved
  <1>2. ToolStarted(s, w) = Noted(r)
    BY DEF ToolStarted
  <1> HIDE DEF c
  <1>3. /\ r \in RunState /\ r.seq = c.seq /\ r.status = c.status
        /\ r.tools = c.tools /\ r.at = c.at /\ w \in r.pending
    BY <1>1 DEF RunState
  <1> HIDE DEF r
  <1> QED
    BY <1>1, <1>2, <1>3, NotedFacts

(* The terminal event of a tool call releases it.                          *)
LEMMA ToolEndedFacts ==
    \A s \in RunState, w \in Waits :
        /\ ToolEnded(s, w) \in RunState
        /\ ToolEnded(s, w).seq = s.seq + 1
        /\ ToolEnded(s, w).status = s.status
        /\ ToolEnded(s, w).at = s.at
        /\ ToolEnded(s, w).tools = s.tools
  <1> TAKE s \in RunState, w \in Waits
  <1> DEFINE r == [s EXCEPT !.pending = @ \ {w}]
  <1>1. /\ r \in RunState /\ r.seq = s.seq /\ r.status = s.status
        /\ r.tools = s.tools /\ r.at = s.at
    BY DEF RunState
  <1>2. ToolEnded(s, w) = Noted(r)
    BY DEF ToolEnded
  <1> HIDE DEF r
  <1> QED
    BY <1>1, <1>2, NotedFacts

(* What all events have in common: r is s after one more event.            *)
Extends(s, r) ==
    /\ r \in RunState
    /\ r.seq = s.seq + 1
    /\ r.tools >= s.tools
    /\ s.status = "Finished" => r.status = "Finished"

LEMMA EventsExtend ==
    \A s \in RunState :
        /\ Extends(s, Noted(s)) /\ Extends(s, RunFinished(s))
        /\ Extends(s, GraphFinished(s)) /\ Extends(s, AuditDegraded(s))
        /\ Extends(s, Prepared(s))
        /\ \A w \in Waits :
             /\ Extends(s, GraphSuspended(s, w)) /\ Extends(s, GraphResumed(s))
             /\ Extends(s, ToolStarted(s, w)) /\ Extends(s, ToolEnded(s, w))
  <1> TAKE s \in RunState
  <1>1. s.tools \in Nat /\ s.seq \in Nat
    BY DEF RunState
  <1>2. Extends(s, Noted(s)) /\ Extends(s, RunFinished(s)) /\ Extends(s, GraphFinished(s))
    BY <1>1, NotedFacts, FinishedFacts DEF Extends
  <1>3. Extends(s, AuditDegraded(s)) /\ Extends(s, Prepared(s))
    BY <1>1, DegradedFacts, PreparedFacts DEF Extends
  <1>4. \A w \in Waits : Extends(s, GraphSuspended(s, w)) /\ Extends(s, GraphResumed(s))
    BY <1>1, PositionFacts DEF Extends
  <1>5. \A w \in Waits : Extends(s, ToolStarted(s, w)) /\ Extends(s, ToolEnded(s, w))
    BY <1>1, ToolStartedFacts, ToolEndedFacts DEF Extends
  <1> QED
    BY <1>2, <1>3, <1>4, <1>5

--------------------------------------------------------------------------------
(* One step of a task.                                                     *)

(* The steps at which a task acts on its wait.                             *)
WaitPCs == RowPCs \cup LoadPCs \cup
    {"denying", "denyAudit", "granting", "grantAudit", "resumedAudit",
     "startAudit", "invoking", "running", "ended", "endedFail", "cancelled",
     "endAudit"}

(* The record a task continues with is well formed and keeps its wait.     *)
LEMMA WithFacts ==
    ASSUME TypeOK, NEW t \in Tasks, NEW p \in PCs, NEW s \in RunState
    PROVE  /\ With(t, p, s) \in TaskState
           /\ With(t, p, s).pc = p
           /\ p # "idle" => With(t, p, s).ctx = s /\ With(t, p, s).wait = task[t].wait
  <1>1. task[t] \in TaskState
    BY DEF TypeOK
  <1>2. Blank \in RunState
    BY DEF Blank, RunState
  <1>3. task[t].wait \in Waits \cup {NoWait} /\ task[t].seen \in Nat
    BY <1>1 DEF TaskState
  <1>4. CASE p = "idle"
    BY <1>2, <1>4 DEF With, Idle, TaskState, PCs
  <1>5. CASE p # "idle"
    BY <1>3, <1>5 DEF With, TaskState
  <1> QED
    BY <1>4, <1>5

LEMMA LoadedFacts ==
    ASSUME TypeOK, NEW t \in Tasks, NEW p \in PCs, task[t].wait \in Waits
    PROVE  /\ Loaded(t, p) \in TaskState
           /\ Loaded(t, p).pc = p
           /\ p # "idle" => /\ Loaded(t, p).ctx = task[t].ctx
                            /\ Loaded(t, p).wait = task[t].wait
  <1>1. task[t] \in TaskState
    BY DEF TypeOK
  <1>2. Blank \in RunState
    BY DEF Blank, RunState
  <1>3. task[t].ctx \in RunState /\ version[task[t].wait] \in Nat
    BY <1>1 DEF TaskState, TypeOK
  <1>4. CASE p = "idle"
    BY <1>2, <1>4 DEF Loaded, Idle, TaskState, PCs
  <1>5. CASE p # "idle"
    BY <1>3, <1>5 DEF Loaded, TaskState
  <1> QED
    BY <1>4, <1>5

(* A step replaces the record of its own task and no other.                *)
LEMMA BecomeFacts ==
    ASSUME TypeOK, NEW t \in Tasks, NEW r \in TaskState, Become(t, r)
    PROVE  /\ task' \in [Tasks -> TaskState]
           /\ task'[t] = r
           /\ \A u \in Tasks : u # t => task'[u] = task[u]
  BY DEF TypeOK, Become

LEMMA IdleType == Idle \in TaskState /\ Idle.pc = "idle"
  <1>1. Blank \in RunState
    BY DEF Blank, RunState
  <1> QED
    BY <1>1 DEF Idle, TaskState, PCs

(* The three things a step does: move its task to p, write s to the        *)
(* journal, or leave the journal alone.                                    *)
Moves(t, p) ==
    /\ task' \in [Tasks -> TaskState]
    /\ task'[t].pc = p
    /\ p # "idle" => task'[t].wait = task[t].wait
    /\ \A u \in Tasks : u # t => task'[u] = task[u]

Wrote(t, s) ==
    /\ Current(t)
    /\ journal' = s
    /\ terminal' \in BOOLEAN /\ lastFin' \in BOOLEAN
    /\ task'[t].pc # "idle" => task'[t].ctx = s

Quiet(t) ==
    /\ UNCHANGED <<journal, terminal, lastFin>>
    /\ task'[t].pc # "idle" => task'[t].ctx = task[t].ctx

LEMMA CtxType ==
    ASSUME TypeOK, NEW t \in Tasks
    PROVE  /\ task[t].ctx \in RunState /\ task[t].pc \in PCs
           /\ task[t].wait \in Waits \cup {NoWait}
  <1>1. task[t] \in TaskState
    BY DEF TypeOK
  <1> QED
    BY <1>1 DEF TaskState

LEMMA CommitFacts ==
    ASSUME TypeOK, NEW t \in Tasks, NEW p \in PCs, NEW s \in RunState, Commit(t, s, p)
    PROVE  Moves(t, p) /\ Wrote(t, s)
  <1>1. Become(t, With(t, p, s)) /\ Append(t, s, FALSE)
    BY Zenon DEF Commit
  <1>2. Moves(t, p) /\ (p # "idle" => task'[t].ctx = s)
    BY <1>1, WithFacts, BecomeFacts DEF Moves
  <1> QED
    BY <1>1, <1>2, Zenon DEF Append, Wrote, TypeOK, Moves

LEMMA AtFacts ==
    ASSUME TypeOK, NEW t \in Tasks, NEW p \in PCs, Become(t, At(t, p))
    PROVE  Moves(t, p) /\ (p # "idle" => task'[t].ctx = task[t].ctx)
  <1>1. At(t, p) = With(t, p, task[t].ctx)
    BY DEF At
  <1>2. task[t].ctx \in RunState
    BY CtxType
  <1> QED
    BY <1>1, <1>2, WithFacts, BecomeFacts DEF Moves

LEMMA IdleFacts ==
    ASSUME TypeOK, NEW t \in Tasks, Become(t, Idle)
    PROVE  Moves(t, "idle")
  BY IdleType, BecomeFacts DEF Moves

LEMMA LoadedStepFacts ==
    ASSUME TypeOK, NEW t \in Tasks, NEW p \in PCs, task[t].wait \in Waits,
           Become(t, Loaded(t, p))
    PROVE  Moves(t, p) /\ (p # "idle" => task'[t].ctx = task[t].ctx)
  BY LoadedFacts, BecomeFacts DEF Moves

(* terminalize_safety writes RunFinished or leaves the task idle.          *)
LEMMA TerminalizeFacts ==
    ASSUME TypeOK, NEW t \in Tasks, NEW p \in PCs, Terminalize(t, p)
    PROVE  \/ Moves(t, p) /\ Wrote(t, RunFinished(task[t].ctx))
           \/ Moves(t, "idle") /\ Quiet(t)
  <1> DEFINE s == RunFinished(task[t].ctx)
  <1>1. s \in RunState
    BY CtxType, FinishedFacts
  <1>2. CASE Append(t, s, TRUE) /\ Become(t, With(t, p, s))
    <2> HIDE DEF s
    <2>1. Moves(t, p) /\ (p # "idle" => task'[t].ctx = s)
      BY <1>1, <1>2, WithFacts, BecomeFacts DEF Moves
    <2>2. Wrote(t, s)
      BY <1>2, <2>1 DEF Append, Wrote, TypeOK, Moves
    <2> QED
      BY <2>1, <2>2 DEF s
  <1>3. CASE UNCHANGED <<journal, terminal, lastFin>> /\ Become(t, Idle)
    BY <1>3, IdleFacts DEF Quiet, Moves
  <1> QED
    BY <1>2, <1>3, Zenon DEF Terminalize

LEMMA DegradeFacts ==
    ASSUME TypeOK, NEW t \in Tasks, NEW p \in PCs, Degrade(t, p)
    PROVE  \/ Moves(t, p) /\ Wrote(t, AuditDegraded(task[t].ctx))
           \/ Moves(t, "idle") /\ Quiet(t)
  <1>1. CASE Commit(t, AuditDegraded(task[t].ctx), p)
    <2>1. AuditDegraded(task[t].ctx) \in RunState
      BY CtxType, DegradedFacts
    <2> QED
      BY <1>1, <2>1, CommitFacts
  <1>2. CASE UNCHANGED <<journal, terminal, lastFin>> /\ Become(t, Idle)
    BY <1>2, IdleFacts DEF Quiet, Moves
  <1> QED
    BY <1>1, <1>2 DEF Degrade

--------------------------------------------------------------------------------
(* The inductive invariant, in two parts: who may write to the journal and *)
(* what its snapshot says, and what the rows say of the waits.             *)

(* Resume, from the recovered snapshot to the start of the write.          *)
RunningPCs == {"resume", "granting", "grantAudit", "readying", "readyReload", "resuming",
               "resumedAudit", "startReload", "starting", "startAudit", "invoking"}

(* ... after GraphResumed,                                                 *)
DetachedPCs == {"resumedAudit", "startReload", "starting", "startAudit", "invoking"}

(* ... and after ToolInvocationStarted, before the dispatch.               *)
ArmedPCs == {"startAudit", "invoking"}

(* From ToolInvocationStarted until the row is consumed.                   *)
ChargedPCs == {"startAudit", "invoking", "running", "ended", "endedFail", "cancelled",
               "endAudit", "endReload", "consuming"}

LocalOK(t) ==
    /\ task[t].pc \in WaitPCs => task[t].wait \in Waits
    /\ task[t].pc \in RunningPCs => task[t].ctx.status = "Running"
    /\ task[t].pc \in DetachedPCs => task[t].ctx.at = NoWait
    /\ task[t].pc \in ArmedPCs => Current(t) /\ task[t].wait \in task[t].ctx.pending

NotAhead == \A t \in Tasks : task[t].pc # "idle" => task[t].ctx.seq <= journal.seq

JournalInv ==
    /\ NotAhead
    /\ SnapshotCurrent
    /\ SingleOwner
    /\ \A t \in Tasks : LocalOK(t)
    /\ journal.tools <= MaxToolCalls
    /\ started # {} => journal.tools > 0

RowInv ==
    /\ \A t \in Tasks : task[t].pc \in ChargedPCs => row[task[t].wait] = "Executing"
    /\ \A t, u \in Tasks :
         task[t].pc \in ChargedPCs /\ task[u].pc \in ChargedPCs /\ t # u =>
           task[t].wait # task[u].wait
    /\ \A t \in Tasks : task[t].pc \in ArmedPCs => dispatched[task[t].wait] = 0
    /\ \A t \in Tasks : task[t].pc = "readying" => <<task[t].wait, "granted">> \in audited
    /\ \A t \in Tasks : task[t].pc = "invoking" => <<task[t].wait, "started">> \in audited
    /\ \A w \in Waits : row[w] \in {"ApprovedReady", "Executing"} => <<w, "granted">> \in audited
    /\ \A w \in Waits : dispatched[w] > 0 => row[w] \in {"Executing", "Consumed"}
    /\ AtMostOneDispatch
    /\ DispatchAuthorized
    /\ RowMatchesJournal

IInv == TypeOK /\ JournalInv /\ RowInv

(* A task that writes the next event keeps the journal part: every other   *)
(* snapshot becomes stale.                                                 *)
LEMMA WroteKeeps ==
    ASSUME TypeOK, JournalInv, NEW t \in Tasks, NEW p \in PCs, NEW s,
           task[t].pc # "idle", Moves(t, p), Wrote(t, s), Extends(task[t].ctx, s),
           LocalOK(t)', s.tools <= MaxToolCalls, started' # {} => s.tools > 0
    PROVE  JournalInv'
  <1>1. /\ \A u \in Tasks : task[u].ctx.seq \in Nat /\ task[u].pc \in PCs
        /\ journal.seq \in Nat
    BY CtxType DEF TypeOK, RunState
  <1>2. /\ journal' = s /\ s.seq = journal.seq + 1 /\ s \in RunState
        /\ task[t].ctx = journal
    BY DEF Wrote, Extends, Current, JournalInv, SnapshotCurrent
  <1>3. \A u \in Tasks : u # t => task'[u] = task[u]
    BY DEF Moves
  <1>4. \A u \in Tasks : u # t /\ task[u].pc # "idle" => ~Current(u)'
    BY <1>1, <1>2, <1>3 DEF Current, JournalInv, NotAhead
  <1>5. NotAhead'
    BY <1>1, <1>2, <1>3 DEF NotAhead, JournalInv, Wrote
  <1>6. SnapshotCurrent'
    BY <1>2, <1>3, <1>4 DEF SnapshotCurrent, Wrote, Current
  <1>7. SingleOwner'
    BY <1>3, <1>4 DEF SingleOwner
  <1>8. \A u \in Tasks : LocalOK(u)'
    <2> SUFFICES ASSUME NEW u \in Tasks, u # t
                 PROVE  LocalOK(u)'
      OBVIOUS
    <2>1. LocalOK(u) /\ task'[u] = task[u]
      BY <1>3 DEF JournalInv
    <2>2. task[u].pc \notin ArmedPCs
      <3> SUFFICES ASSUME task[u].pc \in ArmedPCs
                   PROVE  FALSE
        OBVIOUS
      <3>1. Current(u) /\ task[u].ctx.at = NoWait /\ task[u].pc # "idle"
        BY <2>1 DEF LocalOK, ArmedPCs, DetachedPCs
      <3>2. journal.at = NoWait /\ Current(t)
        BY <3>1 DEF JournalInv, SnapshotCurrent, Wrote
      <3> QED
        BY <3>1, <3>2 DEF JournalInv, SingleOwner
    <2> QED
      BY <2>1, <2>2 DEF LocalOK
  <1> QED
    BY <1>2, <1>5, <1>6, <1>7, <1>8 DEF JournalInv

(* A step that leaves the journal alone keeps it, too.                     *)
LEMMA QuietKeeps ==
    ASSUME TypeOK, JournalInv, NEW t \in Tasks, NEW p \in PCs,
           task[t].pc # "idle", Moves(t, p), Quiet(t), LocalOK(t)', UNCHANGED started
    PROVE  JournalInv'
  <1>1. journal' = journal /\ \A u \in Tasks : u # t => task'[u] = task[u]
    BY DEF Quiet, Moves
  <1>2. task'[t].pc # "idle" => task'[t].ctx = task[t].ctx
    BY DEF Quiet
  <1>3. \A u \in Tasks : LocalOK(u)'
    <2> SUFFICES ASSUME NEW u \in Tasks, u # t
                 PROVE  LocalOK(u)'
      OBVIOUS
    <2>1. LocalOK(u) /\ task'[u] = task[u]
      BY <1>1 DEF JournalInv
    <2> QED
      BY <1>1, <2>1 DEF LocalOK, Current
  <1>4. NotAhead'
    BY <1>1, <1>2 DEF NotAhead, JournalInv
  <1>5. SnapshotCurrent'
    BY <1>1, <1>2 DEF SnapshotCurrent, Current, JournalInv
  <1>6. SingleOwner'
    BY <1>1, <1>2 DEF SingleOwner, Current, JournalInv
  <1> QED
    BY <1>1, <1>3, <1>4, <1>5, <1>6 DEF JournalInv

(* A step that touches no row, charges nothing and dispatches nothing.     *)
Calm(t) ==
    /\ UNCHANGED <<row, version, decision, started, dispatched>>
    /\ audited \subseteq audited'
    /\ task'[t].pc \in ChargedPCs => task[t].pc \in ChargedPCs
    /\ task'[t].pc \in ArmedPCs => task[t].pc \in ArmedPCs
    /\ task'[t].pc = "readying" => <<task[t].wait, "granted">> \in audited'
    /\ task'[t].pc = "invoking" => <<task[t].wait, "started">> \in audited'

LEMMA CalmKeeps ==
    ASSUME TypeOK, RowInv, NEW t \in Tasks, NEW p \in PCs, Moves(t, p), Calm(t),
           journal.status = "Finished" => journal'.status = "Finished"
    PROVE  RowInv'
  <1>1. \A u \in Tasks : u # t => task'[u] = task[u]
    BY DEF Moves
  <1>2. task'[t].pc # "idle" => task'[t].wait = task[t].wait
    BY DEF Moves
  <1>3. /\ \A u \in Tasks : task'[u].pc \in ChargedPCs =>
             task[u].pc \in ChargedPCs /\ task'[u].wait = task[u].wait
        /\ \A u \in Tasks : task'[u].pc \in ArmedPCs =>
             task[u].pc \in ArmedPCs /\ task'[u].wait = task[u].wait
    BY <1>1, <1>2 DEF Calm, ChargedPCs, ArmedPCs
  <1>4. /\ row' = row /\ decision' = decision /\ started' = started
        /\ dispatched' = dispatched /\ audited \subseteq audited'
    BY DEF Calm
  <1>5. /\ \A u \in Tasks : task'[u].pc = "readying" => <<task'[u].wait, "granted">> \in audited'
        /\ \A u \in Tasks : task'[u].pc = "invoking" => <<task'[u].wait, "started">> \in audited'
    BY <1>1, <1>2, <1>4 DEF Calm, RowInv
  <1>6. AtMostOneDispatch' /\ DispatchAuthorized' /\ RowMatchesJournal'
    BY <1>4 DEF RowInv, AtMostOneDispatch, DispatchAuthorized, RowMatchesJournal
  <1> QED
    BY <1>3, <1>4, <1>5, <1>6 DEF RowInv

--------------------------------------------------------------------------------
(* The steps that leave the rows alone.                                    *)

LEMMA WriteStep ==
    ASSUME IInv, NEW t \in Tasks, NEW p \in PCs, NEW s, task[t].pc # "idle",
           Moves(t, p), Wrote(t, s), Extends(task[t].ctx, s),
           s.tools = task[t].ctx.tools, LocalOK(t)', Calm(t), UNCHANGED audited
    PROVE  IInv'
  <1>1. task[t].ctx = journal
    BY DEF IInv, JournalInv, SnapshotCurrent, Wrote
  <1>2. JournalInv'
    BY <1>1, WroteKeeps DEF IInv, JournalInv, Calm
  <1>3. RowInv'
    BY <1>1, CalmKeeps DEF IInv, Extends, Wrote
  <1>4. TypeOK'
    BY DEF IInv, TypeOK, Moves, Wrote, Extends, Calm
  <1> QED
    BY <1>2, <1>3, <1>4 DEF IInv

LEMMA QuietStep ==
    ASSUME IInv, NEW t \in Tasks, NEW p \in PCs, task[t].pc # "idle",
           Moves(t, p), Quiet(t), LocalOK(t)', Calm(t),
           audited' \in SUBSET (Waits \X {"granted", "started"})
    PROVE  IInv'
  <1>1. JournalInv'
    BY QuietKeeps DEF IInv, Calm
  <1>2. RowInv'
    BY CalmKeeps DEF IInv, Quiet
  <1>3. TypeOK'
    BY DEF IInv, TypeOK, Moves, Quiet, Calm
  <1> QED
    BY <1>1, <1>2, <1>3 DEF IInv

(* A task that gives up or goes on without a wait, with or without a last  *)
(* event.                                                                  *)
LEMMA PlainStep ==
    ASSUME IInv, NEW t \in Tasks, NEW p \in PCs \ WaitPCs, task[t].pc # "idle",
           Moves(t, p), RowsSame, HistorySame,
           \/ Quiet(t)
           \/ \E s : Wrote(t, s) /\ Extends(task[t].ctx, s) /\ s.tools = task[t].ctx.tools
    PROVE  IInv'
  <1>1. task'[t].pc = p
    BY DEF Moves
  <1>2. LocalOK(t)'
    BY <1>1 DEF LocalOK, WaitPCs, RunningPCs, DetachedPCs, ArmedPCs, RowPCs, LoadPCs
  <1>3. Calm(t)
    BY <1>1 DEF Calm, ChargedPCs, ArmedPCs, WaitPCs, RowPCs, LoadPCs, RowsSame, HistorySame
  <1>4. audited' = audited /\ audited \in SUBSET (Waits \X {"granted", "started"})
    BY DEF HistorySame, IInv, TypeOK
  <1> QED
    BY <1>2, <1>3, <1>4, WriteStep, QuietStep

LEMMA PlainPCs ==
    {"idle", "own", "bindAudit", "prepare", "prepAudit", "publish", "suspAudit",
     "failing", "finishAudit", "resumed", "nodeAudit", "entering", "enterAudit",
     "abortAudit", "decAudit", "deniedAudit", "endFailAudit"} \subseteq PCs \ WaitPCs
  BY DEF PCs, WaitPCs, AuditPCs, SeqPCs, RowPCs, LoadPCs

(* terminalize_safety ends the run for the task that calls it.             *)
LEMMA TerminalizeStep ==
    ASSUME IInv, NEW t \in Tasks, task[t].pc # "idle", Terminalize(t, "idle"), HistorySame
    PROVE  IInv'
  <1>1. "idle" \in PCs /\ TypeOK /\ RowsSame
    BY DEF PCs, IInv, Terminalize
  <1>2. /\ task[t].ctx \in RunState
        /\ Extends(task[t].ctx, RunFinished(task[t].ctx))
        /\ RunFinished(task[t].ctx).tools = task[t].ctx.tools
    <2>1. task[t].ctx \in RunState
      BY <1>1, CtxType
    <2> QED
      BY <2>1, FinishedFacts DEF Extends, RunState
  <1> QED
    BY <1>1, <1>2, TerminalizeFacts, PlainStep, PlainPCs

(* The audit sink records, fails or is interrupted.                        *)
LEMMA AuditStep ==
    ASSUME IInv, NEW t \in Tasks, Audit(t)
    PROVE  IInv'
  <1> DEFINE p == task[t].pc
             q == AfterAudit(task[t].pc)
             e == AuditErrorPC(t)
  <1>1. TypeOK /\ LocalOK(t) /\ task[t].ctx \in RunState
    BY CtxType DEF IInv, JournalInv
  <1>2. p \in AuditPCs /\ p # "idle"
    BY DEF Audit, AuditRecorded, AuditFails, AuditInterrupted, AuditPCs
  <1>3. q \in PCs /\ e \in PCs /\ "idle" \in PCs
    BY <1>2 DEF AfterAudit, AuditErrorPC, PCs, AuditPCs, SeqPCs, RowPCs, LoadPCs
  <1>4. CASE AuditRecorded(t)
    <2>1. Moves(t, q) /\ Quiet(t)
      BY <1>1, <1>3, <1>4, AtFacts DEF AuditRecorded, Quiet, store, Moves
    <2>2. task'[t].pc = q /\ (q # "idle" => task'[t].wait = task[t].wait
                                            /\ task'[t].ctx = task[t].ctx)
      BY <2>1 DEF Moves, Quiet
    <2>3. journal' = journal
      BY <2>1 DEF Quiet
    <2>4. LocalOK(t)'
      BY <1>1, <1>2, <2>2, <2>3, Zenon
         DEF LocalOK, AfterAudit, AuditPCs, WaitPCs, RunningPCs, DetachedPCs, ArmedPCs,
             RowPCs, LoadPCs, Current
    <2>5. Calm(t)
      BY <1>2, <1>4, <2>2, Zenon
         DEF Calm, AuditRecorded, AuditMark, AfterAudit, AuditPCs, ChargedPCs, ArmedPCs, store
    <2>6. audited' \in SUBSET (Waits \X {"granted", "started"})
      BY <1>1, <1>4 DEF AuditRecorded, AuditMark, TypeOK, LocalOK, WaitPCs
    <2> QED
      BY <1>2, <1>3, <2>1, <2>4, <2>5, <2>6, QuietStep
  <1>5. CASE AuditFails(t)
    <2> DEFINE d == IF p \in RequiredAuditPCs THEN e ELSE q
    <2>1. RowsSame /\ HistorySame
      BY <1>5 DEF AuditFails
    <2>2. e \in {"failing", "idle"}
      BY DEF AuditErrorPC
    <2>3. CASE Degrade(t, d) /\ (p \in RequiredAuditPCs \/ FailOpen)
      <3>1. d \in PCs
        BY <1>3
      <3> DEFINE s == AuditDegraded(task[t].ctx)
      <3>2. /\ Extends(task[t].ctx, s) /\ s.tools = task[t].ctx.tools
            /\ s.status = task[t].ctx.status /\ s.at = task[t].ctx.at
        BY <1>1, DegradedFacts, EventsExtend
      <3>3. CASE Moves(t, d) /\ Wrote(t, s)
        <4>1. task'[t].pc = d /\ (d # "idle" => task'[t].wait = task[t].wait
                                               /\ task'[t].ctx = s)
          BY <3>3 DEF Moves, Wrote
        <4>2. d \in {"failing", "idle", "resumed", "startReload", "entering", "own"}
              /\ (d = "startReload" => p = "resumedAudit")
          BY <1>2, <2>2 DEF AfterAudit, AuditPCs, RequiredAuditPCs
        <4>3. LocalOK(t)'
          BY <1>1, <3>2, <4>1, <4>2, Zenon
             DEF LocalOK, WaitPCs, RunningPCs, DetachedPCs, ArmedPCs, RowPCs, LoadPCs
        <4>4. Calm(t)
          BY <2>1, <4>1, <4>2, Zenon DEF Calm, ChargedPCs, ArmedPCs, RowsSame, HistorySame
        <4> HIDE DEF s, d
        <4> QED
          BY <1>2, <2>1, <3>1, <3>2, <3>3, <4>3, <4>4, WriteStep DEF HistorySame
      <3>4. CASE Moves(t, "idle") /\ Quiet(t)
        BY <1>2, <2>1, <3>4, PlainStep, PlainPCs
      <3> HIDE DEF d
      <3> QED
        BY <1>1, <2>3, <3>1, <3>3, <3>4, DegradeFacts
    <2>4. CASE UNCHANGED <<journal, terminal, lastFin>> /\ Become(t, At(t, e))
      <3>1. Moves(t, e) /\ Quiet(t)
        BY <1>1, <1>3, <2>4, AtFacts DEF Quiet, Moves
      <3>2. task'[t].pc \in {"failing", "idle"}
        BY <2>2, <3>1 DEF Moves
      <3>3. LocalOK(t)' /\ Calm(t)
        BY <2>1, <3>2
           DEF LocalOK, WaitPCs, RunningPCs, DetachedPCs, ArmedPCs, RowPCs, LoadPCs,
               Calm, ChargedPCs, RowsSame, HistorySame
      <3> QED
        BY <1>1, <1>2, <1>3, <2>1, <3>1, <3>3, QuietStep DEF HistorySame, TypeOK
    <2> QED
      BY <1>5, <2>3, <2>4 DEF AuditFails
  <1>6. CASE AuditInterrupted(t)
    BY <1>2, <1>6, TerminalizeStep DEF AuditInterrupted
  <1> QED
    BY <1>4, <1>5, <1>6 DEF Audit

(* The owner of the live context binds, prepares, fails and finishes.      *)
LEMMA SuspendStep ==
    ASSUME IInv, NEW t \in Tasks, Suspend(t), ~PublishWait(t)
    PROVE  IInv'
  <1> DEFINE c == task[t].ctx
  <1>1. TypeOK /\ c \in RunState
    BY CtxType DEF IInv
  <1>2. \A s \in {Noted(c), Prepared(c), GraphFinished(c)} :
          s \in RunState /\ Extends(c, s) /\ s.tools = c.tools
    <2> HIDE DEF c
    <2>1. Noted(c) \in RunState /\ Extends(c, Noted(c)) /\ Noted(c).tools = c.tools
      BY <1>1, NotedFacts, EventsExtend
    <2>2. Prepared(c) \in RunState /\ Extends(c, Prepared(c)) /\ Prepared(c).tools = c.tools
      BY <1>1, PreparedFacts, EventsExtend
    <2>3. /\ GraphFinished(c) \in RunState /\ Extends(c, GraphFinished(c))
          /\ GraphFinished(c).tools = c.tools
      BY <1>1, FinishedFacts, EventsExtend
    <2> QED
      BY <2>1, <2>2, <2>3
  <1> HIDE DEF c
  <1>3. ASSUME NEW p \in PCs \ WaitPCs, NEW s \in {Noted(c), Prepared(c), GraphFinished(c)},
               Commit(t, s, p), RowsSame, HistorySame, task[t].pc # "idle"
        PROVE  IInv'
    BY <1>1, <1>2, <1>3, CommitFacts, PlainStep DEF c
  <1>4. CASE BindAction(t)
    BY <1>3, <1>4, PlainPCs DEF BindAction, c
  <1>5. CASE CallbackFails(t)
    <2>1. Moves(t, "failing") /\ Quiet(t)
      BY <1>1, <1>5, AtFacts, PlainPCs DEF CallbackFails, Quiet, store, Moves
    <2> QED
      BY <1>5, <2>1, PlainStep, PlainPCs, Zenon DEF CallbackFails, RowsSame, store
  <1>6. CASE PrepareApproval(t)
    BY <1>3, <1>6, TerminalizeStep, PlainPCs DEF PrepareApproval, c
  <1>7. CASE FailGraph(t)
    <2>1. CASE Commit(t, GraphFinished(c), "finishAudit")
      BY <1>3, <1>7, <2>1, PlainPCs DEF FailGraph
    <2>2. CASE Become(t, Idle) /\ UNCHANGED <<journal, terminal, lastFin>>
      <3>1. Moves(t, "idle") /\ Quiet(t)
        BY <1>1, <2>2, IdleFacts DEF Quiet, Moves
      <3> QED
        BY <1>7, <3>1, PlainStep, PlainPCs DEF FailGraph
    <2> QED
      BY <1>7, <2>1, <2>2 DEF FailGraph, c
  <1>8. CASE FinishGraph(t)
    BY <1>3, <1>8, PlainPCs DEF FinishGraph, c
  <1>9. CASE CompleteNode(t)
    BY <1>3, <1>9, PlainPCs DEF CompleteNode, c
  <1>10. CASE EnterNode(t)
    BY <1>3, <1>10, PlainPCs DEF EnterNode, c
  <1>11. CASE PreflightStops(t)
    BY <1>11, TerminalizeStep DEF PreflightStops
  <1> QED
    BY <1>4, <1>5, <1>6, <1>7, <1>8, <1>9, <1>10, <1>11 DEF Suspend

(* The store refuses, or the client drops the request.                     *)
LEMMA GiveUpStep ==
    ASSUME IInv, NEW t \in Tasks, StoreRefuses(t) \/ Drop(t)
    PROVE  IInv'
  <1>1. task[t].pc # "idle" /\ Become(t, Idle) /\ UNCHANGED store /\ HistorySame
    BY DEF StoreRefuses, Drop, SeqPCs, RowPCs, LoadPCs, HandlerPCs
  <1>2. Moves(t, "idle") /\ Quiet(t) /\ RowsSame
    BY <1>1, IdleFacts DEF IInv, Quiet, Moves, store, RowsSame
  <1> QED
    BY <1>1, <1>2, PlainStep, PlainPCs

(* The row is loaded, or loaded again, and the task branches on it.        *)
LEMMA LoadStep ==
    ASSUME IInv, NEW t \in Tasks, ResumeLoad(t) \/ Reload(t) \/ AbortLoad(t)
    PROVE  IInv'
  <1>1. TypeOK /\ LocalOK(t) /\ task[t].pc # "idle"
    BY DEF IInv, JournalInv, ResumeLoad, Reload, AbortLoad, ReloadPCs
  <1>2. task[t].wait \in Waits
    BY <1>1 DEF LocalOK, WaitPCs, LoadPCs, ReloadPCs, ResumeLoad, Reload, AbortLoad
  <1>3. UNCHANGED store /\ HistorySame /\ RowsSame
    BY DEF ResumeLoad, Reload, AbortLoad, store, RowsSame
  <1>4. \E p \in PCs :
          /\ Become(t, Loaded(t, p)) \/ Become(t, At(t, p)) \/ (Become(t, Idle) /\ p = "idle")
          /\ \/ p = "idle"
             \/ task[t].pc = "resume" /\ p \in {"denying", "granting", "resuming"}
             \/ task[t].pc = "denyReload" /\ p = "denyCommit"
             \/ task[t].pc = "readyReload" /\ p = "resuming"
             \/ task[t].pc = "startReload" /\ p = "starting"
             \/ task[t].pc = "endReload" /\ p = "consuming"
             \/ task[t].pc = "abort" /\ p = "aborting"
    BY DEF ResumeLoad, Reload, AbortLoad, AfterReload, ReloadPCs, PCs, SeqPCs, RowPCs
  <1>5. PICK p \in PCs :
          /\ Become(t, Loaded(t, p)) \/ Become(t, At(t, p)) \/ (Become(t, Idle) /\ p = "idle")
          /\ \/ p = "idle"
             \/ task[t].pc = "resume" /\ p \in {"denying", "granting", "resuming"}
             \/ task[t].pc = "denyReload" /\ p = "denyCommit"
             \/ task[t].pc = "readyReload" /\ p = "resuming"
             \/ task[t].pc = "startReload" /\ p = "starting"
             \/ task[t].pc = "endReload" /\ p = "consuming"
             \/ task[t].pc = "abort" /\ p = "aborting"
    BY <1>4
  <1>6. Moves(t, p) /\ (p # "idle" => task'[t].ctx = task[t].ctx)
    BY <1>1, <1>2, <1>5, LoadedStepFacts, AtFacts, IdleFacts, Zenon
  <1>7. Quiet(t) /\ task'[t].pc = p /\ (p # "idle" => task'[t].wait = task[t].wait)
    BY <1>3, <1>6 DEF Quiet, Moves, store
  <1>8. LocalOK(t)'
    BY <1>1, <1>2, <1>5, <1>6, <1>7, Zenon
       DEF LocalOK, WaitPCs, RunningPCs, DetachedPCs, ArmedPCs, RowPCs, LoadPCs
  <1>9. Calm(t)
    BY <1>3, <1>5, <1>7, Zenon DEF Calm, ChargedPCs, ArmedPCs, RowsSame, HistorySame
  <1> QED
    BY <1>1, <1>3, <1>6, <1>7, <1>8, <1>9, QuietStep DEF HistorySame, TypeOK

(* Events of a resume that move no row, and the answers of the port.       *)
LEMMA CalmResumeStep ==
    ASSUME IInv, NEW t \in Tasks,
           \/ Deny(t) \/ Grant(t) \/ PortAnswers(t)
           \/ PortInterrupted(t) \/ ToolTerminal(t)
    PROVE  IInv'
  <1> DEFINE c == task[t].ctx
             w == task[t].wait
  <1>1. TypeOK /\ LocalOK(t) /\ c \in RunState
    BY CtxType DEF IInv, JournalInv
  <1>2. /\ task[t].pc \in {"denying", "granting", "running", "ended", "endedFail", "cancelled"}
        /\ HistorySame
    BY DEF Deny, Grant, PortAnswers, PortInterrupted, ToolTerminal
  <1>3. w \in Waits /\ task[t].pc # "idle"
    BY <1>1, <1>2 DEF LocalOK, WaitPCs
  <1>4. RowsSame
    BY Zenon DEF Deny, Grant, PortAnswers, PortInterrupted, ToolTerminal, Terminalize, RowsSame, store
  <1>5. /\ Noted(c) \in RunState /\ Extends(c, Noted(c)) /\ Noted(c).tools = c.tools
        /\ Noted(c).status = c.status
    BY <1>1, NotedFacts, EventsExtend, Zenon
  <1>6. /\ RunFinished(c) \in RunState /\ Extends(c, RunFinished(c))
        /\ RunFinished(c).tools = c.tools
    BY <1>1, FinishedFacts, EventsExtend
  <1>7. /\ ToolEnded(c, w) \in RunState /\ Extends(c, ToolEnded(c, w))
        /\ ToolEnded(c, w).tools = c.tools
    BY <1>1, <1>3, ToolEndedFacts, EventsExtend, Zenon
  <1> HIDE DEF c, w
  <1>8. ASSUME NEW p \in PCs, Moves(t, p), Quiet(t) \/ \E s : Wrote(t, s) /\ Extends(c, s) /\ s.tools = c.tools,
               LocalOK(t)', p \in ChargedPCs => task[t].pc \in ChargedPCs,
               p \notin ArmedPCs \cup {"readying"}
        PROVE  IInv'
    <2>1. task'[t].pc = p
      BY <1>8, Zenon DEF Moves
    <2>2. Calm(t)
      BY <1>2, <1>4, <1>8, <2>1, Zenon DEF Calm, ArmedPCs, RowsSame, HistorySame
    <2> QED
      BY <1>1, <1>2, <1>3, <1>8, <2>2, WriteStep, QuietStep, Zenon DEF HistorySame, TypeOK, c
  <1>9. CASE Deny(t) \/ Grant(t)
    <2>1. PICK p \in {"denyAudit", "grantAudit"} :
            /\ Commit(t, Noted(c), p)
            /\ p = "grantAudit" => task[t].pc = "granting"
      BY <1>9 DEF Deny, Grant, c
    <2>2. p \in PCs
      BY DEF PCs, AuditPCs
    <2>3. Moves(t, p) /\ Wrote(t, Noted(c))
      BY <1>1, <1>5, <2>1, <2>2, CommitFacts
    <2>4. task'[t].pc = p /\ task'[t].wait = w /\ task'[t].ctx = Noted(c)
      BY <2>3 DEF Moves, Wrote, w
    <2>5. LocalOK(t)'
      BY <1>1, <1>3, <1>5, <2>1, <2>4, Zenon
         DEF LocalOK, RunningPCs, DetachedPCs, ArmedPCs, c
    <2> QED
      BY <1>5, <1>8, <2>2, <2>3, <2>5, Zenon DEF ChargedPCs, ArmedPCs
  <1>10. CASE PortAnswers(t)
    <2>1. PICK p \in {"ended", "endedFail"} : Become(t, At(t, p))
      BY <1>10, Zenon DEF PortAnswers
    <2>2. p \in PCs /\ task[t].pc = "running"
      BY <1>10 DEF PCs, SeqPCs, PortAnswers
    <2>3. Moves(t, p) /\ Quiet(t)
      BY <1>1, <1>10, <2>1, <2>2, AtFacts DEF PortAnswers, Quiet, Moves, store
    <2>4. task'[t].pc = p /\ task'[t].wait = w
      BY <2>3 DEF Moves, w
    <2>5. LocalOK(t)'
      BY <1>3, <2>4 DEF LocalOK, RunningPCs, DetachedPCs, ArmedPCs
    <2> QED
      BY <1>8, <2>2, <2>3, <2>5, Zenon DEF ChargedPCs, ArmedPCs
  <1>11. CASE PortInterrupted(t)
    <2>1. Terminalize(t, "cancelled") /\ task[t].pc = "running" /\ "cancelled" \in PCs
      BY <1>11, Zenon DEF PortInterrupted, PCs, SeqPCs
    <2>2. CASE Moves(t, "cancelled") /\ Wrote(t, RunFinished(c))
      <3>1. task'[t].pc = "cancelled" /\ task'[t].wait = w
        BY <2>2 DEF Moves, w
      <3>2. LocalOK(t)'
        BY <1>3, <3>1 DEF LocalOK, RunningPCs, DetachedPCs, ArmedPCs
      <3> QED
        BY <1>6, <1>8, <2>1, <2>2, <3>2, Zenon DEF ChargedPCs, ArmedPCs
    <2>3. CASE Moves(t, "idle") /\ Quiet(t)
      BY <1>2, <1>3, <1>4, <2>3, PlainStep, PlainPCs
    <2> QED
      BY <1>1, <2>1, <2>2, <2>3, TerminalizeFacts, Zenon DEF c
  <1>12. CASE ToolTerminal(t)
    <2>1. PICK p \in {"endAudit", "endFailAudit", "idle"} : Commit(t, ToolEnded(c, w), p)
      BY <1>12 DEF ToolTerminal, c, w
    <2>2. p \in PCs /\ task[t].pc \in {"ended", "endedFail", "cancelled"}
      BY <1>12 DEF PCs, AuditPCs, ToolTerminal
    <2>3. Moves(t, p) /\ Wrote(t, ToolEnded(c, w))
      BY <1>1, <1>7, <2>1, <2>2, CommitFacts, Zenon
    <2>4. task'[t].pc = p /\ (p # "idle" => task'[t].wait = w)
      BY <2>3 DEF Moves, w
    <2>5. LocalOK(t)'
      BY <1>3, <2>4 DEF LocalOK, WaitPCs, RowPCs, LoadPCs, RunningPCs, DetachedPCs, ArmedPCs
    <2> QED
      BY <1>7, <1>8, <2>2, <2>3, <2>5, Zenon DEF ChargedPCs, ArmedPCs
  <1> QED
    BY <1>9, <1>10, <1>11, <1>12

================================================================================
