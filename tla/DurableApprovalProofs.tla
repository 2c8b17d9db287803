------------------------- MODULE DurableApprovalProofs -------------------------
(***************************************************************************)
(* Proofs about DurableApproval, for any number of tasks and waits, any    *)
(* budgets and either audit failure policy.                                *)
(***************************************************************************)
EXTENDS DurableApprovalSteps

USE NoWaitAssumption, BudgetAssumption, SwitchAssumption

--------------------------------------------------------------------------------
(* The steps that move a row.                                              *)

(* The legal moves of a row, with what the same transaction writes.        *)
RowMove(w, from, to) ==
    /\ row[w] = from
    /\ row' = [row EXCEPT ![w] = to]
    /\ \A v \in Waits : v # w => decision'[v] = decision[v] /\ (v \in started' <=> v \in started)
    /\ UNCHANGED dispatched /\ UNCHANGED audited
    /\ \/ from = "absent" /\ to = "Waiting" /\ UNCHANGED <<decision, started>>
       \/ /\ from = "Waiting" /\ UNCHANGED started
          /\ \/ to = "DecisionRecordedApprove" /\ decision'[w] = "approve"
             \/ to = "DecisionRecordedDeny" /\ decision'[w] = "deny"
       \/ /\ from = "Waiting" /\ to = "Consumed" /\ UNCHANGED <<decision, started>>
          /\ journal'.status = "Finished"
       \/ from = "DecisionRecordedDeny" /\ to = "Consumed" /\ UNCHANGED <<decision, started>>
       \/ /\ from = "DecisionRecordedApprove" /\ to = "ApprovedReady"
          /\ UNCHANGED <<decision, started>> /\ <<w, "granted">> \in audited
       \/ from = "ApprovedReady" /\ to = "ApprovedReady" /\ UNCHANGED <<decision, started>>
       \/ from = "ApprovedReady" /\ to = "Executing" /\ UNCHANGED decision /\ w \in started'
       \/ from = "Executing" /\ to = "Consumed" /\ UNCHANGED <<decision, started>>

(* A legal move keeps the row part.  Only the task that charged a wait     *)
(* sees its row Executing, so no other task loses it.                      *)
LEMMA RowMoveKeeps ==
    ASSUME IInv, NEW t \in Tasks, NEW p \in PCs, Moves(t, p),
           NEW w \in Waits, NEW from, NEW to, RowMove(w, from, to),
           p \in ChargedPCs => p = "startAudit" /\ from = "ApprovedReady" /\ to = "Executing"
                               /\ task[t].wait = w,
           p # "readying", from = "Executing" => task[t].pc \in ChargedPCs /\ task[t].wait = w,
           journal.status = "Finished" => journal'.status = "Finished"
    PROVE  RowInv'
  <1> USE DEF IInv
  <1>1. /\ \A u \in Tasks : u # t => task'[u] = task[u]
        /\ task'[t].pc = p /\ (p # "idle" => task'[t].wait = task[t].wait)
    BY DEF Moves
  <1>2. /\ row' \in [Waits -> Status \cup {"absent"}] /\ row'[w] = to
        /\ \A v \in Waits : v # w => row'[v] = row[v]
    BY DEF TypeOK, RowMove, Status
  <1>3. \A u \in Tasks : u # t /\ task[u].pc \in ChargedPCs => task[u].wait # w
    BY DEF RowInv, RowMove
  <1>4. dispatched' = dispatched /\ audited' = audited
    BY DEF RowMove
  <1>5. \A u \in Tasks : task[u].pc \in ChargedPCs => task[u].wait \in Waits
    BY DEF JournalInv, LocalOK, ChargedPCs, WaitPCs, RowPCs, LoadPCs
  <1>6. RowMatchesJournal'
    BY <1>2 DEF RowInv, RowMatchesJournal, RowMove
  <1>7. \A u \in Tasks : task'[u].pc \in ChargedPCs => row'[task'[u].wait] = "Executing"
    BY <1>1, <1>2, <1>3, <1>5 DEF RowInv
  <1>8. \A u, v \in Tasks :
          task'[u].pc \in ChargedPCs /\ task'[v].pc \in ChargedPCs /\ u # v =>
            task'[u].wait # task'[v].wait
    BY <1>1, <1>3 DEF RowInv, ChargedPCs
  <1>9. \A u \in Tasks : task'[u].pc \in ArmedPCs => dispatched'[task'[u].wait] = 0
    BY <1>1, <1>4 DEF RowInv, ArmedPCs, ChargedPCs, RowMove, TypeOK
  <1>10. /\ \A u \in Tasks : task'[u].pc = "readying" => <<task'[u].wait, "granted">> \in audited'
         /\ \A u \in Tasks : task'[u].pc = "invoking" => <<task'[u].wait, "started">> \in audited'
    BY <1>1, <1>4 DEF RowInv, ChargedPCs
  <1>11. \A v \in Waits : row'[v] \in {"ApprovedReady", "Executing"} => <<v, "granted">> \in audited'
    BY <1>2, <1>4 DEF RowInv, RowMove
  <1>12. \A v \in Waits : dispatched'[v] > 0 => row'[v] \in {"Executing", "Consumed"}
    BY <1>2, <1>4 DEF RowInv, RowMove
  <1>13. AtMostOneDispatch'
    BY <1>4 DEF RowInv, AtMostOneDispatch
  <1>14. DispatchAuthorized'
    BY <1>4 DEF RowInv, DispatchAuthorized, RowMove
  <1> QED
    BY <1>6, <1>7, <1>8, <1>9, <1>10, <1>11, <1>12, <1>13, <1>14 DEF RowInv

(* create_durable_approval_wait opens a row for an unused wait.            *)
LEMMA PublishStep ==
    ASSUME IInv, NEW t \in Tasks, PublishWait(t)
    PROVE  IInv'
  <1> DEFINE c == task[t].ctx
  <1>1. TypeOK /\ c \in RunState /\ task[t].pc # "idle" /\ HistorySame
    BY CtxType DEF IInv, PublishWait
  <1>2. PICK w \in Waits : /\ row[w] = "absent"
                          /\ Commit(t, GraphSuspended(c, w), "suspAudit")
                          /\ row' = [row EXCEPT ![w] = "Waiting"]
    BY Zenon DEF PublishWait
  <1> DEFINE s == GraphSuspended(c, w)
  <1>3. s \in RunState /\ Extends(c, s) /\ s.tools = c.tools
    BY <1>1, PositionFacts, EventsExtend
  <1>4. "suspAudit" \in PCs \ WaitPCs
    BY PlainPCs
  <1>5. Moves(t, "suspAudit") /\ Wrote(t, s)
    BY <1>1, <1>2, <1>3, <1>4, CommitFacts
  <1>6. c = journal
    BY <1>1, <1>5 DEF IInv, JournalInv, SnapshotCurrent, Wrote
  <1>7. UNCHANGED <<version, decision, started>>
    BY DEF PublishWait
  <1> HIDE DEF s
  <1>8. LocalOK(t)'
    BY <1>5 DEF Moves, LocalOK, WaitPCs, RowPCs, LoadPCs, RunningPCs, DetachedPCs, ArmedPCs
  <1>9. JournalInv'
    BY <1>1, <1>3, <1>4, <1>5, <1>6, <1>7, <1>8, WroteKeeps DEF IInv, JournalInv
  <1>10. RowInv'
    <2>1. RowMove(w, "absent", "Waiting")
      BY <1>1, <1>2, <1>7 DEF RowMove, HistorySame
    <2> QED
      BY <1>3, <1>4, <1>5, <1>6, <2>1, RowMoveKeeps DEF Wrote, Extends, ChargedPCs
  <1>11. TypeOK'
    BY <1>1, <1>2, <1>3, <1>5, <1>7 DEF TypeOK, Status, Moves, Wrote, HistorySame
  <1> QED
    BY <1>9, <1>10, <1>11 DEF IInv

(* A compare-and-set on a row, alone or with an event.                     *)
LEMMA MoveRowStep ==
    ASSUME IInv, NEW t \in Tasks, NEW p \in PCs, NEW from \in Status, NEW to \in Status,
           task[t].pc \in RowPCs, MoveRow(t, from, to), Moves(t, p),
           \/ Quiet(t) /\ UNCHANGED started
           \/ \E s : /\ Wrote(t, s) /\ Extends(task[t].ctx, s)
                    /\ s.tools <= MaxToolCalls /\ (started' # {} => s.tools > 0),
           RowMove(task[t].wait, from, to), LocalOK(t)',
           p \in ChargedPCs => p = "startAudit" /\ from = "ApprovedReady" /\ to = "Executing",
           p # "readying", from = "Executing" => task[t].pc \in ChargedPCs,
           decision' \in [Waits -> {"none", "approve", "deny"}], started' \in SUBSET Waits
    PROVE  IInv'
  <1>1. TypeOK /\ task[t].pc # "idle" /\ task[t].wait \in Waits
    BY DEF IInv, JournalInv, LocalOK, WaitPCs, RowPCs
  <1>2. Wrote(t, journal') => task[t].ctx = journal
    BY <1>1 DEF IInv, JournalInv, SnapshotCurrent, Wrote
  <1>3. JournalInv'
    BY <1>1, QuietKeeps, WroteKeeps DEF IInv
  <1>4. journal.status = "Finished" => journal'.status = "Finished"
    BY <1>2 DEF Quiet, Wrote, Extends
  <1>5. RowInv'
    BY <1>1, <1>4, RowMoveKeeps
  <1>6. journal' \in RunState /\ terminal' \in BOOLEAN /\ lastFin' \in BOOLEAN
    BY <1>1 DEF TypeOK, Quiet, Wrote, Extends
  <1>7. row' \in [Waits -> Status \cup {"absent"}] /\ version' \in [Waits -> Nat]
    BY <1>1 DEF TypeOK, MoveRow
  <1>8. TypeOK'
    BY <1>1, <1>6, <1>7 DEF TypeOK, Moves, RowMove
  <1> QED
    BY <1>3, <1>5, <1>8 DEF IInv

(* Decisions, the abort, the denial and the grant's row moves.             *)
LEMMA DecisionSteps ==
    ASSUME IInv, NEW t \in Tasks,
           Decide(t) \/ AbortCommit(t) \/ DenyCommit(t)
    PROVE  IInv'
  <1> DEFINE c == task[t].ctx
             w == task[t].wait
  <1>1. TypeOK /\ c \in RunState /\ LocalOK(t)
    BY CtxType DEF IInv, JournalInv
  <1>2. task[t].pc \in {"decide", "aborting", "denyCommit"}
    BY Zenon DEF Decide, RecordDecision, AbortCommit, DenyCommit
  <1>3. task[t].pc \in RowPCs /\ w \in Waits /\ task[t].pc # "idle" /\ HistorySame
    BY <1>1, <1>2, Zenon DEF LocalOK, WaitPCs, RowPCs, Decide, RecordDecision, AbortCommit, DenyCommit
  <1>4. /\ Noted(c) \in RunState /\ Extends(c, Noted(c)) /\ Noted(c).tools = c.tools
        /\ RunFinished(c) \in RunState /\ Extends(c, RunFinished(c))
        /\ RunFinished(c).tools = c.tools /\ RunFinished(c).status = "Finished"
    BY <1>1, NotedFacts, FinishedFacts, EventsExtend
  <1>5. /\ GraphResumed(c) \in RunState /\ Extends(c, GraphResumed(c))
        /\ GraphResumed(c).tools = c.tools
    BY <1>1, <1>3, PositionFacts, EventsExtend
  <1> HIDE DEF c, w
  <1>6. ASSUME NEW p \in {"decAudit", "abortAudit", "deniedAudit"},
               NEW s \in {Noted(c), RunFinished(c), GraphResumed(c)},
               NEW from \in Status, NEW to \in Status, from # "Executing",
               Moves(t, p), Wrote(t, s), MoveRow(t, from, to), RowMove(w, from, to),
               UNCHANGED started, decision' \in [Waits -> {"none", "approve", "deny"}]
        PROVE  IInv'
    <2>1. c = journal
      BY <1>3, <1>6 DEF IInv, JournalInv, SnapshotCurrent, Wrote, c
    <2>2. p \in PCs \ WaitPCs
      BY PlainPCs
    <2>3. LocalOK(t)'
      BY <1>6 DEF Moves, LocalOK, WaitPCs, RowPCs, LoadPCs, RunningPCs, DetachedPCs, ArmedPCs
    <2>4. /\ Extends(c, s) /\ s.tools <= MaxToolCalls /\ (started' # {} => s.tools > 0)
      BY <1>4, <1>5, <1>6, <2>1 DEF IInv, JournalInv
    <2>5. started' \in SUBSET Waits /\ p \notin ChargedPCs /\ p # "readying"
      BY <1>1, <1>6 DEF TypeOK, ChargedPCs
    <2> QED
      BY <1>3, <1>6, <2>2, <2>3, <2>4, <2>5, MoveRowStep DEF c, w
  <1>7. {"decAudit", "abortAudit", "deniedAudit"} \subseteq PCs
    BY PlainPCs
  <1>8. CASE Decide(t)
    <2>1. PICK o \in {"approve", "deny"} : RecordDecision(t, o)
      BY <1>8 DEF Decide
    <2>2. /\ MoveRow(t, "Waiting", Recorded(o)) /\ Commit(t, Noted(c), "decAudit")
          /\ decision' = [decision EXCEPT ![w] = o] /\ UNCHANGED started
      BY <2>1 DEF RecordDecision, c, w
    <2>3. Moves(t, "decAudit") /\ Wrote(t, Noted(c))
      BY <1>1, <1>4, <1>7, <2>2, CommitFacts
    <2>4. /\ decision' \in [Waits -> {"none", "approve", "deny"}] /\ decision'[w] = o
          /\ \A v \in Waits : v # w => decision'[v] = decision[v]
      BY <1>1, <1>3, <2>2 DEF TypeOK
    <2>5. RowMove(w, "Waiting", Recorded(o))
      BY <1>3, <2>2, <2>4 DEF RowMove, MoveRow, Recorded, HistorySame, w
    <2>6. Recorded(o) \in Status /\ "Waiting" \in Status
      BY DEF Recorded, Status
    <2> QED
      BY <1>6, <2>2, <2>3, <2>4, <2>5, <2>6
  <1>9. CASE AbortCommit(t)
    <2>1. /\ MoveRow(t, "Waiting", "Consumed") /\ Append(t, RunFinished(c), TRUE)
          /\ Become(t, With(t, "abortAudit", RunFinished(c)))
          /\ UNCHANGED <<decision, started>>
      BY <1>9, Zenon DEF AbortCommit, c
    <2>2. Moves(t, "abortAudit") /\ task'[t].ctx = RunFinished(c)
      BY <1>1, <1>4, <1>7, <2>1, WithFacts, BecomeFacts DEF Moves
    <2>3. Wrote(t, RunFinished(c))
      BY <1>1, <2>1, <2>2, Zenon DEF Wrote, Append, TypeOK
    <2>4. RowMove(w, "Waiting", "Consumed")
      BY <1>3, <1>4, <2>1, <2>3 DEF RowMove, MoveRow, HistorySame, Wrote, w
    <2> QED
      BY <1>1, <1>6, <2>1, <2>2, <2>3, <2>4, Zenon DEF Status, TypeOK
  <1>10. CASE DenyCommit(t)
    <2>1. /\ MoveRow(t, "DecisionRecordedDeny", "Consumed")
          /\ Commit(t, GraphResumed(c), "deniedAudit") /\ UNCHANGED <<decision, started>>
      BY <1>10 DEF DenyCommit, c
    <2>2. Moves(t, "deniedAudit") /\ Wrote(t, GraphResumed(c))
      BY <1>1, <1>5, <1>7, <2>1, CommitFacts
    <2>3. RowMove(w, "DecisionRecordedDeny", "Consumed")
      BY <1>3, <2>1 DEF RowMove, MoveRow, HistorySame, w
    <2> QED
      BY <1>1, <1>6, <2>1, <2>2, <2>3, Zenon DEF Status, TypeOK
  <1> QED
    BY <1>8, <1>9, <1>10

(* The row of an approved wait: ready, resumed, executing, consumed.       *)
LEMMA ApprovedSteps ==
    ASSUME IInv, NEW t \in Tasks,
           MarkReady(t) \/ ResumeGraph(t) \/ StartTool(t) \/ ConsumeRow(t)
    PROVE  IInv'
  <1> DEFINE c == task[t].ctx
             w == task[t].wait
  <1>1. TypeOK /\ c \in RunState /\ LocalOK(t)
    BY CtxType DEF IInv, JournalInv
  <1>2. task[t].pc \in {"readying", "resuming", "starting", "consuming"} /\ HistorySame
    BY DEF MarkReady, ResumeGraph, StartTool, ConsumeRow
  <1>3. task[t].pc \in RowPCs /\ w \in Waits /\ task[t].pc # "idle"
    BY <1>1, <1>2 DEF LocalOK, WaitPCs, RowPCs
  <1>4. {"readyReload", "resumedAudit", "startAudit", "resumed"} \subseteq PCs
    BY DEF PCs, AuditPCs, SeqPCs, LoadPCs
  <1>5. {"DecisionRecordedApprove", "ApprovedReady", "Executing", "Consumed"} \subseteq Status
    BY DEF Status
  <1>6. Current(t) => c = journal
    BY <1>3 DEF IInv, JournalInv, SnapshotCurrent
  <1>7. decision \in [Waits -> {"none", "approve", "deny"}] /\ started \in SUBSET Waits
    BY <1>1 DEF TypeOK
  <1> HIDE DEF c, w
  <1>8. CASE MarkReady(t)
    <2>1. /\ task[t].pc = "readying" /\ MoveRow(t, "DecisionRecordedApprove", "ApprovedReady")
          /\ Become(t, At(t, "readyReload"))
          /\ UNCHANGED <<journal, terminal, lastFin, decision, started>>
      BY <1>8 DEF MarkReady
    <2>2. Moves(t, "readyReload") /\ Quiet(t) /\ task'[t].ctx = c
      BY <1>1, <1>4, <2>1, AtFacts DEF Quiet, Moves, c
    <2>3. RowMove(w, "DecisionRecordedApprove", "ApprovedReady")
      BY <1>2, <2>1, Zenon DEF RowMove, MoveRow, HistorySame, IInv, RowInv, w
    <2>4. LocalOK(t)'
      BY <1>1, <1>3, <2>1, <2>2
         DEF Moves, LocalOK, RunningPCs, DetachedPCs, ArmedPCs, c, w
    <2>5. "readyReload" \notin ChargedPCs
      BY DEF ChargedPCs
    <2> QED
      BY <1>3, <1>4, <1>5, <1>7, <2>1, <2>2, <2>3, <2>4, <2>5, MoveRowStep DEF w
  <1>9. CASE ResumeGraph(t)
    <2> DEFINE s == GraphResumed(c)
    <2>1. /\ task[t].pc = "resuming" /\ MoveRow(t, "ApprovedReady", "ApprovedReady")
          /\ Commit(t, s, "resumedAudit") /\ UNCHANGED <<decision, started>>
      BY <1>9, Zenon DEF ResumeGraph, c
    <2>2. /\ s \in RunState /\ Extends(c, s) /\ s.tools = c.tools
          /\ s.status = c.status /\ s.at = NoWait
      BY <1>1, <1>3, PositionFacts, EventsExtend
    <2> HIDE DEF s
    <2>3. Moves(t, "resumedAudit") /\ Wrote(t, s)
      BY <1>1, <1>4, <2>1, <2>2, CommitFacts, Zenon
    <2>4. task'[t].pc = "resumedAudit" /\ task'[t].wait = w /\ task'[t].ctx = s /\ c = journal
      BY <1>6, <2>3 DEF Moves, Wrote, w
    <2>5. RowMove(w, "ApprovedReady", "ApprovedReady")
      BY <1>2, <2>1 DEF RowMove, MoveRow, HistorySame, w
    <2>6. LocalOK(t)'
      BY <1>1, <1>3, <2>1, <2>2, <2>4 DEF LocalOK, RunningPCs, ArmedPCs, c
    <2>7. s.tools <= MaxToolCalls /\ (started' # {} => s.tools > 0)
      BY <2>1, <2>2, <2>4 DEF IInv, JournalInv
    <2>8. "resumedAudit" \notin ChargedPCs
      BY DEF ChargedPCs
    <2> QED
      BY <1>3, <1>4, <1>5, <1>7, <2>1, <2>2, <2>3, <2>5, <2>6, <2>7, <2>8, MoveRowStep, Zenon DEF w, c
  <1>10. CASE StartTool(t)
    <2> DEFINE s == ToolStarted(c, w)
    <2>1. CASE Terminalize(t, "idle")
      BY <1>2, <1>3, <2>1, TerminalizeStep
    <2>2. CASE /\ c.tools < MaxToolCalls /\ MoveRow(t, "ApprovedReady", "Executing")
               /\ Commit(t, s, "startAudit") /\ started' = started \cup {w} /\ UNCHANGED decision
      <3>1. /\ s \in RunState /\ Extends(c, s) /\ s.tools = c.tools + 1 /\ s.seq = c.seq + 1
            /\ s.status = c.status /\ s.at = c.at /\ w \in s.pending /\ c.tools \in Nat
        BY <1>1, <1>3, ToolStartedFacts, EventsExtend DEF RunState
      <3> HIDE DEF s
      <3>2. Moves(t, "startAudit") /\ Wrote(t, s)
        BY <1>1, <1>4, <2>2, <3>1, CommitFacts, Zenon
      <3>3. task'[t].pc = "startAudit" /\ task'[t].wait = w /\ task'[t].ctx = s /\ journal' = s
        BY <3>2 DEF Moves, Wrote, w
      <3>4. RowMove(w, "ApprovedReady", "Executing")
        BY <1>2, <2>2 DEF RowMove, MoveRow, HistorySame, w
      <3>5. task[t].pc = "starting"
        BY <1>10 DEF StartTool
      <3>6. LocalOK(t)'
        BY <1>1, <1>3, <3>1, <3>3, <3>5, Zenon DEF LocalOK, RunningPCs, DetachedPCs, Current, c
      <3>7. s.tools <= MaxToolCalls /\ s.tools > 0
        BY <2>2, <3>1, SMTT(30)
      <3>8. started' \in SUBSET Waits
        BY <1>3, <1>7, <2>2
      <3> QED
        BY <1>3, <1>4, <1>5, <1>7, <2>2, <3>1, <3>2, <3>4, <3>6, <3>7, <3>8, MoveRowStep, Zenon DEF w, c
    <2>3. c.tools \in Nat
      BY <1>1 DEF RunState
    <2> QED
      BY <1>10, <2>1, <2>2, <2>3 DEF StartTool, c, w
  <1>11. CASE ConsumeRow(t)
    <2>1. /\ task[t].pc = "consuming" /\ MoveRow(t, "Executing", "Consumed")
          /\ Become(t, At(t, "resumed"))
          /\ UNCHANGED <<journal, terminal, lastFin, decision, started>>
      BY <1>11, Zenon DEF ConsumeRow
    <2>2. Moves(t, "resumed") /\ Quiet(t)
      BY <1>1, <1>4, <2>1, AtFacts DEF Quiet, Moves
    <2>3. RowMove(w, "Executing", "Consumed")
      BY <1>2, <2>1 DEF RowMove, MoveRow, HistorySame, w
    <2>4. LocalOK(t)'
      BY <2>2 DEF Moves, LocalOK, WaitPCs, RowPCs, LoadPCs, RunningPCs, DetachedPCs, ArmedPCs
    <2>5. "resumed" \notin ChargedPCs /\ "consuming" \in ChargedPCs
      BY DEF ChargedPCs
    <2> QED
      BY <1>3, <1>4, <1>5, <1>7, <2>1, <2>2, <2>3, <2>4, <2>5, MoveRowStep, Zenon DEF w
  <1> QED
    BY <1>8, <1>9, <1>10, <1>11

(* start_contained dispatches the write of a wait that was charged and not *)
(* yet dispatched, and no later step can dispatch it again.                *)
LEMMA InvokeStep ==
    ASSUME IInv, NEW t \in Tasks, Invoke(t)
    PROVE  IInv'
  <1> DEFINE w == task[t].wait
  <1>1. /\ TypeOK /\ LocalOK(t) /\ task[t].pc = "invoking" /\ UNCHANGED audited
        /\ UNCHANGED <<journal, terminal, lastFin, row, version, decision, started>>
    BY Zenon DEF IInv, JournalInv, Invoke, store
  <1>2. w \in Waits
    BY <1>1 DEF LocalOK, WaitPCs
  <1>3. PICK p \in {"running", "endedFail"} :
          /\ Become(t, At(t, p))
          /\ dispatched' \in {dispatched, [dispatched EXCEPT ![w] = @ + 1]}
    BY DEF Invoke
  <1>4. p \in PCs
    BY DEF PCs, SeqPCs
  <1>5. Moves(t, p) /\ Quiet(t)
    BY <1>1, <1>3, <1>4, AtFacts DEF Quiet, Moves
  <1>6. /\ task'[t].pc = p /\ task'[t].wait = w
        /\ \A u \in Tasks : u # t => task'[u] = task[u]
    BY <1>5 DEF Moves
  <1>7. LocalOK(t)'
    BY <1>2, <1>6 DEF LocalOK, RunningPCs, DetachedPCs, ArmedPCs
  <1>8. JournalInv'
    BY <1>1, <1>4, <1>5, <1>7, QuietKeeps DEF IInv
  <1>9. /\ row[w] = "Executing" /\ dispatched[w] = 0
        /\ <<w, "started">> \in audited /\ <<w, "granted">> \in audited
        /\ \A u \in Tasks : u # t /\ task[u].pc \in ChargedPCs => task[u].wait # w
    BY <1>1, <1>2, Zenon DEF IInv, RowInv, ChargedPCs, ArmedPCs
  <1>10. /\ dispatched' \in [Waits -> Nat] /\ dispatched'[w] <= 1
         /\ \A v \in Waits : v # w => dispatched'[v] = dispatched[v]
    BY <1>1, <1>2, <1>3, <1>9 DEF TypeOK
  <1>11. AtMostOneDispatch'
    BY <1>10 DEF AtMostOneDispatch, IInv, RowInv
  <1>12. DispatchAuthorized'
    BY <1>1, <1>9, <1>10, SMTT(30) DEF DispatchAuthorized, IInv, RowInv, RowMatchesJournal
  <1>13. RowMatchesJournal'
    BY <1>1, Zenon DEF RowMatchesJournal, IInv, RowInv
  <1>14. /\ \A u \in Tasks : task'[u].pc \in ChargedPCs =>
              task[u].pc \in ChargedPCs /\ task'[u].wait = task[u].wait
         /\ \A u \in Tasks : task'[u].pc \in ArmedPCs \cup {"readying"} => u # t
    BY <1>1, <1>6 DEF ChargedPCs, ArmedPCs
  <1>15. \A u \in Tasks : task'[u].pc \in ArmedPCs => dispatched'[task'[u].wait] = 0
    <2> SUFFICES ASSUME NEW u \in Tasks, task'[u].pc \in ArmedPCs
                 PROVE  dispatched'[task'[u].wait] = 0
      OBVIOUS
    <2>1. u # t /\ task'[u] = task[u]
      BY <1>6, <1>14
    <2>2. task[u].wait \in Waits /\ task[u].wait # w
      BY <1>9, <2>1, Zenon DEF IInv, JournalInv, LocalOK, ArmedPCs, WaitPCs, ChargedPCs
    <2> QED
      BY <1>10, <2>1, <2>2, Zenon DEF IInv, RowInv
  <1>16. \A v \in Waits : dispatched'[v] > 0 => row'[v] \in {"Executing", "Consumed"}
    BY <1>1, <1>9, <1>10, Zenon DEF IInv, RowInv
  <1>17. RowInv'
    BY <1>1, <1>6, <1>11, <1>12, <1>13, <1>14, <1>15, <1>16, SMTT(30) DEF IInv, RowInv, ArmedPCs
  <1>18. TypeOK'
    BY <1>1, <1>5, <1>10 DEF TypeOK, Moves
  <1> QED
    BY <1>8, <1>17, <1>18 DEF IInv

--------------------------------------------------------------------------------
(* New commands, crashes, and the theorems.                                *)

(* A command starts from the journal as recovered, while it is suspended.  *)
LEMMA CommandStep ==
    ASSUME IInv, NEW t \in Tasks, Command(t)
    PROVE  IInv'
  <1>1. PICK w \in Waits, p \in {"decide", "abort", "resume"} : Begin(t, w, p)
    BY DEF Command, BeginDecision, BeginAbort, BeginResume
  <1> DEFINE r == [pc |-> p, ctx |-> journal, wait |-> w, seen |-> version[w]]
  <1>2. /\ task[t].pc = "idle" /\ journal.status = "Running" /\ journal.at = w
        /\ Become(t, r) /\ UNCHANGED store /\ HistorySame
    BY <1>1 DEF Begin, RecoverWaiting
  <1>3. TypeOK /\ journal \in RunState /\ version[w] \in Nat /\ p \in PCs
    BY DEF IInv, TypeOK, PCs, RowPCs, LoadPCs
  <1>4. r \in TaskState /\ r.pc = p /\ r.ctx = journal /\ r.wait = w
    BY <1>3 DEF TaskState
  <1> HIDE DEF r
  <1>5. /\ task' \in [Tasks -> TaskState] /\ task'[t] = r
        /\ \A u \in Tasks : u # t => task'[u] = task[u]
    BY <1>2, <1>3, <1>4, BecomeFacts
  <1>6. journal' = journal /\ journal.at # NoWait /\ journal.seq \in Nat
    BY <1>2, <1>3 DEF store, RunState
  <1>7. LocalOK(t)'
    BY <1>2, <1>4, <1>5 DEF LocalOK, DetachedPCs, ArmedPCs
  <1>8. \A u \in Tasks : u # t => LocalOK(u)'
    BY <1>5, <1>6, Zenon DEF IInv, JournalInv, LocalOK, Current
  <1>9. NotAhead' /\ SnapshotCurrent'
    BY <1>4, <1>5, <1>6 DEF NotAhead, SnapshotCurrent, Current, IInv, JournalInv
  <1>10. SingleOwner'
    BY <1>6 DEF SingleOwner
  <1>11. JournalInv'
    BY <1>2, <1>6, <1>7, <1>8, <1>9, <1>10 DEF JournalInv, IInv, store
  <1>12. p \notin ChargedPCs \cup ArmedPCs \cup {"readying", "invoking"}
    BY DEF ChargedPCs, ArmedPCs
  <1>13. /\ row' = row /\ decision' = decision /\ started' = started
         /\ dispatched' = dispatched /\ audited' = audited
    BY <1>2 DEF store, HistorySame
  <1>14. RowInv'
    BY <1>4, <1>5, <1>6, <1>12, <1>13, SMTT(30)
       DEF IInv, RowInv, AtMostOneDispatch, DispatchAuthorized, RowMatchesJournal
  <1>15. TypeOK'
    BY <1>2, <1>3, <1>5 DEF TypeOK, store, HistorySame
  <1> QED
    BY <1>11, <1>14, <1>15 DEF IInv

(* A crash forgets every task and keeps the store.                         *)
LEMMA CrashStep ==
    ASSUME IInv, Crash
    PROVE  IInv'
  <1>1. task' = [t \in Tasks |-> Idle] /\ UNCHANGED store /\ HistorySame
    BY DEF Crash
  <1>2. task' \in [Tasks -> TaskState] /\ \A t \in Tasks : task'[t].pc = "idle"
    BY <1>1, IdleType
  <1>3. JournalInv'
    BY <1>1, <1>2, Zenon
       DEF IInv, JournalInv, NotAhead, SnapshotCurrent, SingleOwner, LocalOK, WaitPCs, RowPCs,
           LoadPCs, RunningPCs, DetachedPCs, ArmedPCs, store
  <1>4. RowInv'
    BY <1>1, <1>2, Zenon
       DEF IInv, RowInv, ChargedPCs, ArmedPCs, AtMostOneDispatch, DispatchAuthorized,
           RowMatchesJournal, store, HistorySame
  <1>5. TypeOK'
    BY <1>1, <1>2 DEF IInv, TypeOK, store, HistorySame
  <1> QED
    BY <1>3, <1>4, <1>5 DEF IInv

LEMMA InitIInv == Init => IInv
  <1> SUFFICES ASSUME Init
               PROVE  IInv
    OBVIOUS
  <1>1. journal \in RunState
    BY DEF Init, RunState
  <1>2. PICK o \in Tasks :
          task = [t \in Tasks |->
                    IF t = o THEN [pc |-> "own", ctx |-> journal, wait |-> NoWait, seen |-> 0]
                    ELSE Idle]
    BY DEF Init
  <1> DEFINE r == [pc |-> "own", ctx |-> journal, wait |-> NoWait, seen |-> 0]
  <1>4. r \in TaskState /\ r.pc = "own" /\ r.ctx = journal
    BY <1>1 DEF TaskState, PCs, SeqPCs
  <1> HIDE DEF r
  <1>5. /\ task \in [Tasks -> TaskState] /\ task[o] = r
        /\ \A t \in Tasks : t # o => task[t].pc = "idle"
        /\ \A t \in Tasks : task[t].pc \in {"own", "idle"}
    BY <1>2, <1>4, IdleType DEF r
  <1>6. TypeOK
    BY <1>1, <1>5, Zenon DEF Init, TypeOK
  <1>7. JournalInv
    <2>1. NotAhead /\ SnapshotCurrent /\ SingleOwner
      BY <1>1, <1>4, <1>5 DEF NotAhead, SnapshotCurrent, SingleOwner, RunState
    <2>2. \A t \in Tasks : LocalOK(t)
      BY <1>5, Zenon DEF LocalOK, WaitPCs, RowPCs, LoadPCs, RunningPCs, DetachedPCs, ArmedPCs
    <2>3. journal.tools = 0 /\ started = {}
      BY DEF Init
    <2> QED
      BY <2>1, <2>2, <2>3 DEF JournalInv
  <1>8. RowInv
    BY <1>5, SMTT(30) DEF Init, RowInv, ChargedPCs, ArmedPCs, AtMostOneDispatch, DispatchAuthorized,
                RowMatchesJournal
  <1> QED
    BY <1>6, <1>7, <1>8 DEF IInv

LEMMA NextIInv == IInv /\ [Next]_vars => IInv'
  <1> SUFFICES ASSUME IInv, [Next]_vars
               PROVE  IInv'
    OBVIOUS
  <1>1. CASE Crash
    BY <1>1, CrashStep
  <1>2. ASSUME NEW t \in Tasks, Command(t) \/ Work(t) \/ Drop(t)
        PROVE  IInv'
    <2>1. CASE Command(t)
      BY <2>1, CommandStep
    <2>2. CASE Drop(t) \/ StoreRefuses(t)
      BY <2>2, GiveUpStep
    <2>3. CASE Audit(t)
      BY <2>3, AuditStep
    <2>4. CASE Suspend(t)
      BY <2>4, SuspendStep, PublishStep
    <2>5. CASE Decide(t) \/ Abort(t)
      BY <2>5, DecisionSteps, LoadStep DEF Abort
    <2>6. CASE Resume(t)
      BY <2>6, LoadStep, CalmResumeStep, DecisionSteps, ApprovedSteps, InvokeStep DEF Resume
    <2> QED
      BY <1>2, <2>1, <2>2, <2>3, <2>4, <2>5, <2>6 DEF Work
  <1>3. CASE UNCHANGED vars
    <2>1. TypeOK'
      BY <1>3 DEF vars, IInv, TypeOK
    <2>2. \A t \in Tasks : LocalOK(t)' = LocalOK(t)
      BY <1>3 DEF vars, LocalOK, Current
    <2>3. NotAhead' /\ SnapshotCurrent' /\ SingleOwner'
      BY <1>3 DEF vars, IInv, JournalInv, NotAhead, SnapshotCurrent, SingleOwner, Current
    <2>4. JournalInv'
      BY <1>3, <2>2, <2>3 DEF vars, IInv, JournalInv
    <2>5. AtMostOneDispatch' /\ DispatchAuthorized' /\ RowMatchesJournal'
      BY <1>3, Zenon DEF vars, IInv, RowInv, AtMostOneDispatch, DispatchAuthorized, RowMatchesJournal
    <2>6. RowInv'
      BY <1>3, <2>5, Zenon DEF vars, IInv, RowInv
    <2> QED
      BY <2>1, <2>4, <2>6 DEF IInv
  <1> QED
    BY <1>1, <1>2, <1>3 DEF Next

(* Every reachable state satisfies the inductive invariant.                *)
THEOREM Inductive == Spec => []IInv
  BY InitIInv, NextIInv, PTL DEF Spec

(* Store, journal, tasks and history keep their shape.                     *)
THEOREM TypeCorrect == Spec => []TypeOK
  <1>1. IInv => TypeOK
    BY DEF IInv
  <1> QED
    BY <1>1, Inductive, PTL

(* resume_durable_local_write dispatches the write of a wait at most once, *)
(* with any number of tasks racing, and across crashes.                    *)
THEOREM DispatchedOnce == Spec => []AtMostOneDispatch
  <1>1. IInv => AtMostOneDispatch
    BY DEF IInv, RowInv
  <1> QED
    BY <1>1, Inductive, PTL

(* A dispatched write was approved, is started in the journal, and both    *)
(* the grant and the start were audited first.                             *)
THEOREM DispatchedAuthorized == Spec => []DispatchAuthorized
  <1>1. IInv => DispatchAuthorized
    BY DEF IInv, RowInv
  <1> QED
    BY <1>1, Inductive, PTL

(* Approval rows and journal agree.                                        *)
THEOREM RowsMatch == Spec => []RowMatchesJournal
  <1>1. IInv => RowMatchesJournal
    BY DEF IInv, RowInv
  <1> QED
    BY <1>1, Inductive, PTL

(* A context that can still append is a copy of the durable state, and     *)
(* there is only one such context while the run is not suspended.          *)
THEOREM SnapshotsCurrent == Spec => [](SnapshotCurrent /\ SingleOwner)
  <1>1. IInv => SnapshotCurrent /\ SingleOwner
    BY DEF IInv, JournalInv
  <1> QED
    BY <1>1, Inductive, PTL

(* The journal never holds more tool calls than the budget, and a          *)
(* dispatched write has been charged to it.                                *)
THEOREM BudgetKept == Spec => []ToolBudget
  <1>1. IInv => ToolBudget
    BY Zenon DEF IInv, JournalInv, RowInv, ToolBudget, DispatchAuthorized
  <1> QED
    BY <1>1, Inductive, PTL

(* Only Invoke changes dispatched, for the wait of its task.               *)
LEMMA DispatchStep ==
    ASSUME IInv, NEW t \in Tasks, Command(t) \/ Work(t) \/ Drop(t), ~Invoke(t)
    PROVE  dispatched' = dispatched
  <1> USE DEF HistorySame
  <1>1. CASE Audit(t)
    BY <1>1 DEF Audit, AuditRecorded, AuditFails, AuditInterrupted
  <1>2. CASE Suspend(t)
    BY <1>2, Zenon DEF Suspend, BindAction, PrepareApproval, PublishWait, CallbackFails, FailGraph,
                FinishGraph, CompleteNode, EnterNode, PreflightStops
  <1>3. CASE Resume(t)
    BY <1>3 DEF Resume, ResumeLoad, Reload, Deny, DenyCommit, Grant, MarkReady, ResumeGraph,
                StartTool, PortAnswers, PortInterrupted, ToolTerminal, ConsumeRow
  <1>4. CASE Decide(t) \/ Abort(t)
    BY <1>4, Zenon DEF Decide, RecordDecision, Abort, AbortLoad, AbortCommit
  <1>5. CASE Command(t) \/ StoreRefuses(t) \/ Drop(t)
    BY <1>5, Zenon DEF Command, BeginDecision, BeginAbort, BeginResume, Begin, StoreRefuses, Drop
  <1> QED
    BY <1>1, <1>2, <1>3, <1>4, <1>5 DEF Work

(* The write is dispatched only while the run is Running and its tool call *)
(* is pending: no other task can have written since ToolInvocationStarted. *)
THEOREM DispatchedWhileRunning == Spec => DispatchWhileRunning
  <1> DEFINE A == \A w \in Waits : dispatched'[w] # dispatched[w] =>
                    journal.status = "Running" /\ w \in journal.pending
  <1>1. IInv /\ [Next]_vars => [A]_vars
    <2> SUFFICES ASSUME IInv, Next, NEW w \in Waits, dispatched'[w] # dispatched[w]
                 PROVE  journal.status = "Running" /\ w \in journal.pending
      BY DEF A
    <2>1. PICK t \in Tasks : Invoke(t)
      BY DispatchStep DEF Next, Crash, HistorySame
    <2>2. /\ task[t].pc = "invoking" /\ task[t].wait = w
      <3>1. dispatched \in [Waits -> Nat]
        BY DEF IInv, TypeOK
      <3> QED
        BY <2>1, <3>1 DEF Invoke
    <2>3. LocalOK(t) /\ SnapshotCurrent
      BY DEF IInv, JournalInv
    <2>4. task[t].ctx = journal
      BY <2>2, <2>3 DEF LocalOK, ArmedPCs, SnapshotCurrent
    <2> QED
      BY <2>2, <2>3, <2>4 DEF LocalOK, ArmedPCs, RunningPCs
  <1> QED
    BY <1>1, Inductive, PTL DEF Spec, DispatchWhileRunning, A

================================================================================
