--------------------------- MODULE ApprovalOnceProofs ---------------------------
(***************************************************************************)
(* DurableApproval implements ApprovalOnce, for any tasks, waits, budgets  *)
(* and audit policy.  A second invariant says which question is open: the  *)
(* one the run is suspended at, or the one whose resume is under way.      *)
(***************************************************************************)
EXTENDS DurableApprovalProofs

(* Where the context of a task has not seen the end of the run ...         *)
LivePCs == PCs \ {"idle", "cancelled", "abortAudit", "finishAudit"}

(* ... where it is not suspended: the owner of the run, up to the wait it  *)
(* publishes and from the event GraphResumed on ...                        *)
FreePCs ==
    {"own", "bindAudit", "prepare", "prepAudit", "publish",
     "resumedAudit", "startReload", "starting", "startAudit", "invoking", "running",
     "ended", "endedFail", "endAudit", "endReload", "consuming", "deniedAudit",
     "resumed", "nodeAudit", "entering", "enterAudit"}

(* ... of these, with an approved write that is not yet charged ...        *)
OwingPCs == {"resumedAudit", "startReload", "starting"}

(* ... and where it is suspended at the wait the task acts on.             *)
BoundPCs ==
    {"decide", "abort", "aborting", "resume", "denying", "denyAudit", "denyReload",
     "denyCommit", "granting", "grantAudit", "readying", "readyReload", "resuming"}

(* The questions that are open, or approved and not yet charged.           *)
Asked == {w \in Waits : row[w] \in {"Waiting", "DecisionRecordedApprove", "ApprovedReady"}}

Owes(t) == IF task[t].pc \in OwingPCs THEN {task[t].wait} ELSE {}

Place(t) ==
    /\ task[t].pc \in LivePCs => task[t].ctx.status = "Running"
    /\ task[t].pc \in FreePCs => task[t].ctx.at = NoWait
    /\ task[t].pc \in BoundPCs => task[t].ctx.at = task[t].wait

OnceInv ==
    /\ journal.at # NoWait => Asked \subseteq {journal.at}
    /\ \A t \in Tasks : Place(t)
    /\ \A t \in Tasks : task[t].pc \in FreePCs /\ Current(t) => Asked \subseteq Owes(t)

--------------------------------------------------------------------------------
(* The invariant.                                                          *)

(* A step from one place to the next that keeps what the context says.     *)
Onward(t, p) ==
    /\ p \in LivePCs => task[t].pc \in LivePCs
    /\ p \in FreePCs =>
         task[t].pc \in FreePCs /\ (task[t].pc \in OwingPCs => p \in OwingPCs)
    /\ p \in BoundPCs => task[t].pc \in BoundPCs

LEMMA NotIdle ==
    /\ "idle" \notin LivePCs /\ "idle" \notin FreePCs /\ "idle" \notin BoundPCs
    /\ OwingPCs \subseteq FreePCs
  BY DEF LivePCs, FreePCs, BoundPCs, OwingPCs

(* The journal stays.                                                      *)
LEMMA QuietOnce ==
    ASSUME IInv, OnceInv, NEW t \in Tasks, NEW p \in PCs, Moves(t, p), Quiet(t), Onward(t, p),
           Asked' \subseteq Asked
    PROVE  OnceInv'
  <1>1. /\ journal' = journal /\ task'[t].pc = p
        /\ p # "idle" => task'[t].ctx = task[t].ctx /\ task'[t].wait = task[t].wait
        /\ \A u \in Tasks : u # t => task'[u] = task[u]
    BY DEF Quiet, Moves
  <1>2. Place(t)'
    BY <1>1, NotIdle DEF Place, OnceInv, Onward
  <1>3. \A u \in Tasks : Place(u)'
    BY <1>1, <1>2 DEF Place, OnceInv
  <1>4. ASSUME NEW u \in Tasks, task'[u].pc \in FreePCs, Current(u)'
        PROVE  Asked' \subseteq Owes(u)'
    <2>1. task[u].pc \in FreePCs /\ Current(u)
      BY <1>1, <1>4, NotIdle DEF Current, Onward
    <2>2. Asked \subseteq Owes(u)
      BY <2>1 DEF OnceInv
    <2>3. Owes(u) \subseteq Owes(u)'
      BY <1>1, <1>4, NotIdle DEF Owes, Onward
    <2> QED
      BY <2>2, <2>3
  <1> QED
    BY <1>1, <1>3, <1>4 DEF OnceInv

(* The task writes s, and every other context becomes stale.               *)
LEMMA WroteOnce ==
    ASSUME IInv, OnceInv, NEW t \in Tasks, NEW p \in PCs, NEW s, task[t].pc # "idle",
           Moves(t, p), Wrote(t, s), Extends(task[t].ctx, s),
           p \in LivePCs => s.status = "Running",
           p \in FreePCs => /\ s.at = NoWait
                            /\ Asked' \subseteq (IF p \in OwingPCs THEN {task[t].wait} ELSE {}),
           p \in BoundPCs => s.at = task[t].wait,
           s.at # NoWait => Asked' \subseteq {s.at}
    PROVE  OnceInv'
  <1>1. /\ journal' = s /\ task'[t].pc = p
        /\ p # "idle" => task'[t].ctx = s /\ task'[t].wait = task[t].wait
        /\ \A u \in Tasks : u # t => task'[u] = task[u]
    BY DEF Wrote, Moves
  <1>2. /\ task[t].ctx = journal /\ s.seq = journal.seq + 1 /\ journal.seq \in Nat
    BY CtxType DEF Wrote, Extends, IInv, JournalInv, SnapshotCurrent, TypeOK, RunState
  <1>3. \A u \in Tasks : u # t /\ task[u].pc # "idle" => ~Current(u)'
    <2> SUFFICES ASSUME NEW u \in Tasks, u # t, task[u].pc # "idle"
                 PROVE  ~Current(u)'
      OBVIOUS
    <2>1. task[u].ctx.seq \in Nat /\ task[u].ctx.seq <= journal.seq
      BY CtxType DEF IInv, JournalInv, NotAhead, RunState
    <2> QED
      BY <1>1, <1>2, <2>1 DEF Current
  <1>4. Place(t)'
    BY <1>1, NotIdle DEF Place
  <1>5. \A u \in Tasks : Place(u)'
    BY <1>1, <1>4 DEF Place, OnceInv
  <1>6. ASSUME NEW u \in Tasks, task'[u].pc \in FreePCs, Current(u)'
        PROVE  Asked' \subseteq Owes(u)'
    <2>1. u = t
      BY <1>1, <1>3, <1>6, NotIdle
    <2> QED
      BY <1>1, <1>6, <2>1, NotIdle DEF Owes
  <1> QED
    BY <1>1, <1>5, <1>6 DEF OnceInv

(* An event that keeps status and position.                                *)
LEMMA NoteOnce ==
    ASSUME IInv, OnceInv, NEW t \in Tasks, NEW p \in PCs, NEW s, task[t].pc # "idle",
           Moves(t, p), Wrote(t, s), Extends(task[t].ctx, s), Onward(t, p),
           s.status = task[t].ctx.status, s.at = task[t].ctx.at, Asked' \subseteq Asked
    PROVE  OnceInv'
  <1>1. Current(t) /\ task[t].ctx = journal
    BY DEF Wrote, IInv, JournalInv, SnapshotCurrent
  <1>2. p \in LivePCs => s.status = "Running"
    BY DEF Onward, OnceInv, Place
  <1>3. ASSUME p \in FreePCs
        PROVE  /\ s.at = NoWait
               /\ Asked' \subseteq (IF p \in OwingPCs THEN {task[t].wait} ELSE {})
    <2>1. task[t].pc \in FreePCs /\ (task[t].pc \in OwingPCs => p \in OwingPCs)
      BY <1>3 DEF Onward
    <2>2. s.at = NoWait /\ Asked \subseteq Owes(t)
      BY <1>1, <2>1 DEF OnceInv, Place
    <2> QED
      BY <2>1, <2>2 DEF Owes
  <1>4. p \in BoundPCs => s.at = task[t].wait
    BY DEF Onward, OnceInv, Place
  <1>5. s.at # NoWait => Asked' \subseteq {s.at}
    BY <1>1 DEF OnceInv
  <1> QED
    BY <1>2, <1>3, <1>4, <1>5, WroteOnce

(* The end of the run.                                                     *)
LEMMA EndOnce ==
    ASSUME IInv, OnceInv, NEW t \in Tasks, NEW p \in PCs, NEW s, task[t].pc # "idle",
           Moves(t, p), Wrote(t, s), Extends(task[t].ctx, s),
           p \in {"idle", "cancelled", "abortAudit", "finishAudit"},
           s.at = task[t].ctx.at, Asked' \subseteq Asked
    PROVE  OnceInv'
  <1>1. task[t].ctx = journal
    BY DEF Wrote, IInv, JournalInv, SnapshotCurrent
  <1>2. p \notin LivePCs /\ p \notin FreePCs /\ p \notin BoundPCs
    BY DEF LivePCs, FreePCs, BoundPCs
  <1>3. s.at # NoWait => Asked' \subseteq {s.at}
    BY <1>1 DEF OnceInv
  <1> QED
    BY <1>2, <1>3, WroteOnce

--------------------------------------------------------------------------------
(* The refinement mapping.                                                 *)

Maps == [Once!Next]_(Once!vars)

Answers == [w \in Waits |-> AnswerOf(w)]

Written == {w \in Waits : dispatched[w] > 0}

Live == journal.status = "Running"

(* What is not touched keeps its image.                                    *)
LEMMA MapsStutter ==
    ASSUME Answers' = Answers, Written' = Written, Live' = Live
    PROVE  Maps
  BY Zenon DEF Maps, Once!vars, Answers, Written, Live

LEMMA MapsFinish ==
    ASSUME Answers' = Answers, Written' = Written,
           journal.status = "Running", journal'.status = "Finished"
    PROVE  Maps
  <1>1. Live = TRUE /\ Live' = FALSE
    BY DEF Live
  <1>2. Once!Finish
    BY <1>1, Zenon DEF Once!Finish, Answers, Written, Live
  <1> QED
    BY <1>2 DEF Maps, Once!Next

LEMMA SameAnswers ==
    ASSUME UNCHANGED <<row, decision>>
    PROVE  Answers' = Answers /\ Asked' = Asked
  BY DEF Answers, AnswerOf, Asked

LEMMA SameWritten ==
    ASSUME UNCHANGED dispatched
    PROVE  Written' = Written
  BY DEF Written

(* The answer to one wait changes.                                         *)
LEMMA AnswerSet ==
    ASSUME TypeOK, NEW w \in Waits, NEW to, row' = [row EXCEPT ![w] = to],
           \A v \in Waits : v # w => decision'[v] = decision[v]
    PROVE  /\ Answers' = [Answers EXCEPT ![w] = AnswerOf(w)']
           /\ row'[w] = to
           /\ \A v \in Waits : v # w => row'[v] = row[v]
  <1>1. row'[w] = to /\ \A v \in Waits : v # w => row'[v] = row[v]
    BY DEF TypeOK
  <1>2. \A v \in Waits : v # w => AnswerOf(v)' = AnswerOf(v)
    BY <1>1, Zenon DEF AnswerOf
  <1> QED
    BY <1>1, <1>2, Zenon DEF Answers

LEMMA MapsAnswer ==
    ASSUME NEW w \in Waits, NEW a, Answers' = [Answers EXCEPT ![w] = a],
           Written' = Written, journal.status = "Running", Live' = Live,
           \/ /\ AnswerOf(w) = "none" /\ a = "open"
              /\ \A v \in Waits : AnswerOf(v) \notin {"open", "approved"}
           \/ AnswerOf(w) = "open" /\ a \in {"approved", "denied"}
           \/ AnswerOf(w) = "approved" /\ a = "charged"
    PROVE  Maps
  <1>1. Live /\ \A v \in Waits : Answers[v] = AnswerOf(v)
    BY DEF Live, Answers
  <1>2. Once!Set(w, a)
    BY Zenon DEF Once!Set, Answers
  <1>4. CASE AnswerOf(w) = "open" /\ a \in {"approved", "denied"}
    <2>1. Once!Answer(w, a)
      BY <1>1, <1>2, <1>4, Zenon DEF Once!Answer, Answers, Written, Live
    <2> QED
      BY <1>4, <2>1 DEF Maps, Once!Next
  <1>5. CASE AnswerOf(w) = "approved" /\ a = "charged"
    <2>1. Once!Charge(w)
      BY <1>1, <1>2, <1>5, Zenon DEF Once!Charge, Answers, Written, Live
    <2> QED
      BY <2>1 DEF Maps, Once!Next
  <1>6. CASE /\ AnswerOf(w) = "none" /\ a = "open"
             /\ \A v \in Waits : AnswerOf(v) \notin {"open", "approved"}
    <2>1. Once!Open(w)
      BY <1>1, <1>2, <1>6, Zenon DEF Once!Open, Answers, Written, Live
    <2> QED
      BY <2>1 DEF Maps, Once!Next
  <1> QED
    BY <1>4, <1>5, <1>6

LEMMA MapsWithdraw ==
    ASSUME NEW w \in Waits, Answers' = [Answers EXCEPT ![w] = "withdrawn"],
           Written' = Written, journal.status = "Running", journal'.status = "Finished",
           AnswerOf(w) = "open"
    PROVE  Maps
  <1>1. Live /\ Live' = FALSE /\ Answers[w] = "open"
    BY DEF Live, Answers
  <1>2. Once!Set(w, "withdrawn")
    BY Zenon DEF Once!Set, Answers
  <1>3. Once!Withdraw(w)
    BY <1>1, <1>2, Zenon DEF Once!Withdraw, Answers, Written, Live
  <1> QED
    BY <1>3 DEF Maps, Once!Next

LEMMA MapsWrite ==
    ASSUME NEW w \in Waits, Answers' = Answers, w \notin Written,
           Written' = Written \cup {w}, journal.status = "Running", Live' = Live,
           AnswerOf(w) = "charged"
    PROVE  Maps
  <1>1. Live /\ Answers[w] = "charged"
    BY DEF Live, Answers
  <1>2. Once!Write(w)
    BY <1>1, Zenon DEF Once!Write, Answers, Written, Live
  <1> QED
    BY <1>2 DEF Maps, Once!Next

--------------------------------------------------------------------------------
(* The kinds of steps.                                                     *)

(* A step that leaves the rows alone and keeps status and position.        *)
LEMMA PlainOnce ==
    ASSUME IInv, OnceInv, NEW t \in Tasks, NEW p \in PCs, Moves(t, p), Onward(t, p),
           task[t].pc # "idle", UNCHANGED <<row, decision, dispatched>>,
           \/ Quiet(t)
           \/ \E s : /\ Wrote(t, s) /\ Extends(task[t].ctx, s)
                     /\ s.status = task[t].ctx.status /\ s.at = task[t].ctx.at
    PROVE  OnceInv' /\ Maps
  <1>1. Answers' = Answers /\ Asked' = Asked /\ Written' = Written
    BY SameAnswers, SameWritten
  <1>2. CASE Quiet(t)
    <2>1. OnceInv'
      BY <1>1, <1>2, QuietOnce
    <2>2. Live' = Live
      BY <1>2 DEF Quiet, Live
    <2> QED
      BY <1>1, <2>1, <2>2, MapsStutter
  <1>3. ASSUME NEW s, Wrote(t, s), Extends(task[t].ctx, s),
               s.status = task[t].ctx.status, s.at = task[t].ctx.at
        PROVE  OnceInv' /\ Maps
    <2>1. OnceInv'
      BY <1>1, <1>3, NoteOnce
    <2>2. task[t].ctx = journal /\ journal' = s
      BY <1>3 DEF Wrote, IInv, JournalInv, SnapshotCurrent
    <2>3. Live' = Live
      BY <1>3, <2>2 DEF Live
    <2> QED
      BY <1>1, <2>1, <2>3, MapsStutter
  <1> QED
    BY <1>2, <1>3

(* A step that ends the run.                                               *)
LEMMA FinishOnce ==
    ASSUME IInv, OnceInv, NEW t \in Tasks, NEW p \in PCs, Moves(t, p),
           Wrote(t, RunFinished(task[t].ctx)), task[t].pc # "idle",
           p \in {"idle", "cancelled", "abortAudit", "finishAudit"},
           task[t].ctx.status = "Running", UNCHANGED <<row, decision, dispatched>>
    PROVE  OnceInv' /\ Maps
  <1>1. Answers' = Answers /\ Asked' = Asked /\ Written' = Written
    BY SameAnswers, SameWritten
  <1> DEFINE s == RunFinished(task[t].ctx)
  <1>2. /\ task[t].ctx \in RunState /\ Extends(task[t].ctx, s)
        /\ s.at = task[t].ctx.at /\ s.status = "Finished"
    BY CtxType, FinishedFacts, EventsExtend DEF IInv
  <1>3. Wrote(t, s)
    OBVIOUS
  <1> HIDE DEF s
  <1>4. OnceInv'
    BY <1>1, <1>2, <1>3, EndOnce
  <1>5. journal.status = "Running" /\ journal'.status = "Finished"
    BY <1>2, <1>3 DEF Wrote, IInv, JournalInv, SnapshotCurrent
  <1> QED
    BY <1>1, <1>4, <1>5, MapsFinish

LEMMA TerminalizeOnce ==
    ASSUME IInv, OnceInv, NEW t \in Tasks, NEW p \in {"idle", "cancelled"},
           task[t].pc # "idle", Terminalize(t, p), HistorySame
    PROVE  OnceInv' /\ Maps
  <1>1. p \in PCs /\ "idle" \in PCs /\ TypeOK
    BY DEF PCs, SeqPCs, IInv
  <1>2. UNCHANGED <<row, decision, dispatched>>
    BY DEF Terminalize, RowsSame, HistorySame
  <1>3. Onward(t, "idle")
    BY NotIdle DEF Onward
  <1>4. \/ Moves(t, p) /\ Wrote(t, RunFinished(task[t].ctx)) /\ task[t].ctx.status = "Running"
        \/ Moves(t, "idle") /\ Quiet(t)
    <2> DEFINE s == RunFinished(task[t].ctx)
    <2>1. s \in RunState
      BY <1>1, CtxType, FinishedFacts
    <2>2. CASE /\ Append(t, s, TRUE) /\ Become(t, With(t, p, s))
               /\ task[t].ctx.status = "Running"
      <3> HIDE DEF s
      <3>1. Moves(t, p) /\ (p # "idle" => task'[t].ctx = s)
        BY <1>1, <2>1, <2>2, WithFacts, BecomeFacts DEF Moves
      <3>2. Wrote(t, s)
        BY <1>1, <2>2, <3>1 DEF Append, Wrote, TypeOK, Moves
      <3> QED
        BY <2>2, <3>1, <3>2 DEF s
    <2>3. CASE UNCHANGED <<journal, terminal, lastFin>> /\ Become(t, Idle)
      BY <1>1, <2>3, IdleFacts DEF Quiet, Moves
    <2> QED
      BY <2>2, <2>3, Zenon DEF Terminalize
  <1> QED
    BY <1>1, <1>2, <1>3, <1>4, FinishOnce, PlainOnce

LEMMA DegradeOnce ==
    ASSUME IInv, OnceInv, NEW t \in Tasks, NEW p \in PCs, task[t].pc # "idle",
           Degrade(t, p), Onward(t, p), UNCHANGED <<row, decision, dispatched>>
    PROVE  OnceInv' /\ Maps
  <1>1. "idle" \in PCs /\ TypeOK /\ Onward(t, "idle")
    BY NotIdle DEF PCs, IInv, Onward
  <1>2. /\ Extends(task[t].ctx, AuditDegraded(task[t].ctx))
        /\ AuditDegraded(task[t].ctx).status = task[t].ctx.status
        /\ AuditDegraded(task[t].ctx).at = task[t].ctx.at
    BY <1>1, CtxType, DegradedFacts, EventsExtend
  <1> QED
    BY <1>1, <1>2, DegradeFacts, PlainOnce

(* A commit of an event that keeps status and position.                    *)
LEMMA CommitOnce ==
    ASSUME IInv, OnceInv, NEW t \in Tasks, NEW p \in PCs, NEW s, task[t].pc # "idle",
           Commit(t, s, p), s \in RunState, Extends(task[t].ctx, s), Onward(t, p),
           s.status = task[t].ctx.status, s.at = task[t].ctx.at,
           UNCHANGED <<row, decision, dispatched>>
    PROVE  OnceInv' /\ Maps
  <1>1. Moves(t, p) /\ Wrote(t, s)
    BY CommitFacts DEF IInv
  <1> QED
    BY <1>1, PlainOnce

(* Continue elsewhere, or return.                                          *)
LEMMA GoOnce ==
    ASSUME IInv, OnceInv, NEW t \in Tasks, NEW p \in PCs, task[t].pc # "idle",
           Onward(t, p), UNCHANGED <<journal, terminal, lastFin, row, decision, dispatched>>,
           \/ Become(t, At(t, p))
           \/ task[t].wait \in Waits /\ Become(t, Loaded(t, p))
           \/ p = "idle" /\ Become(t, Idle)
    PROVE  OnceInv' /\ Maps
  <1>1. TypeOK
    BY DEF IInv
  <1>2. Moves(t, p) /\ (p # "idle" => task'[t].ctx = task[t].ctx)
    BY <1>1, AtFacts, LoadedStepFacts, IdleFacts
  <1>3. Quiet(t)
    BY <1>2 DEF Quiet, Moves
  <1> QED
    BY <1>2, <1>3, PlainOnce

--------------------------------------------------------------------------------
(* The actions.                                                            *)

USE DEF HistorySame, RowsSame, store

LEMMA AuditOnce ==
    ASSUME IInv, OnceInv, NEW t \in Tasks, Audit(t)
    PROVE  OnceInv' /\ Maps
  <1> DEFINE p == AfterAudit(task[t].pc)
             e == AuditErrorPC(t)
  <1>1. task[t].pc \in AuditPCs /\ task[t].pc # "idle"
    BY DEF Audit, AuditRecorded, AuditFails, AuditInterrupted, AuditPCs
  <1>2. p \in PCs /\ Onward(t, p)
    BY <1>1, ZenonT(60) DEF AuditPCs, AfterAudit, PCs, SeqPCs, RowPCs, LoadPCs, Onward, LivePCs, FreePCs,
                BoundPCs, OwingPCs
  <1>3. e \in PCs /\ Onward(t, e)
    BY <1>1 DEF AuditPCs, AuditErrorPC, SuspendPCs, PCs, SeqPCs, RowPCs, LoadPCs, Onward,
                LivePCs, FreePCs, BoundPCs
  <1>4. CASE AuditRecorded(t)
    BY <1>1, <1>2, <1>4, GoOnce DEF AuditRecorded
  <1>5. CASE AuditFails(t)
    <2>1. /\ UNCHANGED <<row, decision, dispatched>>
          /\ \/ Degrade(t, p) \/ Degrade(t, e)
             \/ UNCHANGED <<journal, terminal, lastFin>> /\ Become(t, At(t, e))
      BY <1>5, Zenon DEF AuditFails
    <2> HIDE DEF p, e
    <2> QED
      BY <1>1, <1>2, <1>3, <2>1, DegradeOnce, GoOnce
  <1>6. CASE AuditInterrupted(t)
    BY <1>1, <1>6, TerminalizeOnce DEF AuditInterrupted
  <1> QED
    BY <1>4, <1>5, <1>6 DEF Audit

LEMMA PublishOnce ==
    ASSUME IInv, OnceInv, NEW t \in Tasks, PublishWait(t)
    PROVE  OnceInv' /\ Maps
  <1> DEFINE c == task[t].ctx
  <1>1. TypeOK /\ c \in RunState /\ task[t].pc = "publish"
    BY CtxType DEF IInv, PublishWait
  <1>2. PICK w \in Waits : /\ row[w] = "absent"
                          /\ Commit(t, GraphSuspended(c, w), "suspAudit")
                          /\ row' = [row EXCEPT ![w] = "Waiting"]
    BY Zenon DEF PublishWait
  <1> DEFINE s == GraphSuspended(c, w)
  <1>3. /\ s \in RunState /\ Extends(c, s) /\ s.at = w /\ s.status = c.status
        /\ "suspAudit" \in PCs
    BY <1>1, PositionFacts, EventsExtend DEF PCs, AuditPCs
  <1>4. Moves(t, "suspAudit") /\ Wrote(t, s)
    BY <1>1, <1>2, <1>3, CommitFacts
  <1>5. c = journal /\ Current(t) /\ UNCHANGED <<decision, dispatched>>
    BY <1>1, <1>4 DEF IInv, JournalInv, SnapshotCurrent, Wrote, PublishWait
  <1>6. c.status = "Running" /\ Asked = {}
    BY <1>1, <1>5 DEF OnceInv, Place, LivePCs, FreePCs, OwingPCs, Owes, PCs, SeqPCs
  <1>7. /\ Answers' = [Answers EXCEPT ![w] = AnswerOf(w)'] /\ row'[w] = "Waiting"
        /\ \A v \in Waits : v # w => row'[v] = row[v]
    BY <1>1, <1>2, <1>5, AnswerSet, Zenon
  <1> HIDE DEF s
  <1>8. Asked' \subseteq {w}
    BY <1>6, <1>7 DEF Asked
  <1>9. "suspAudit" \notin FreePCs /\ "suspAudit" \notin BoundPCs
    BY DEF FreePCs, BoundPCs
  <1>10. OnceInv'
    BY <1>1, <1>3, <1>4, <1>6, <1>8, <1>9, WroteOnce
  <1>11. /\ AnswerOf(w) = "none" /\ AnswerOf(w)' = "open"
         /\ \A v \in Waits : AnswerOf(v) \notin {"open", "approved"}
    BY <1>1, <1>2, <1>6, <1>7 DEF AnswerOf, Asked, TypeOK, Status
  <1>12. Live' = Live /\ Written' = Written /\ journal.status = "Running"
    BY <1>3, <1>4, <1>5, <1>6, SameWritten, Zenon DEF Live, Wrote
  <1> QED
    BY <1>7, <1>10, <1>11, <1>12, MapsAnswer, Zenon

LEMMA SuspendOnce ==
    ASSUME IInv, OnceInv, NEW t \in Tasks, Suspend(t)
    PROVE  OnceInv' /\ Maps
  <1> DEFINE c == task[t].ctx
  <1>0. TypeOK /\ c \in RunState /\ LivePCs \subseteq PCs
    BY CtxType DEF IInv, LivePCs
  <1>1. /\ Noted(c) \in RunState /\ Extends(c, Noted(c))
        /\ Noted(c).status = c.status /\ Noted(c).at = c.at
    BY <1>0, NotedFacts, EventsExtend
  <1>2. /\ {"bindAudit", "prepAudit", "failing", "nodeAudit", "enterAudit", "finishAudit", "idle"}
             \subseteq PCs
        /\ task[t].pc = "own" => Onward(t, "bindAudit")
        /\ task[t].pc = "prepare" => Onward(t, "prepAudit")
        /\ task[t].pc \in {"own", "prepare", "publish"} => Onward(t, "failing")
        /\ task[t].pc = "resumed" => Onward(t, "nodeAudit")
        /\ task[t].pc = "entering" => Onward(t, "enterAudit")
        /\ Onward(t, "idle")
    BY Zenon DEF PCs, AuditPCs, SeqPCs, RowPCs, LoadPCs, Onward, LivePCs, FreePCs, BoundPCs, OwingPCs
  <1>3. CASE BindAction(t)
    BY <1>1, <1>2, <1>3, CommitOnce, Zenon DEF BindAction
  <1>4. CASE PrepareApproval(t)
    <2>1. /\ task[t].pc = "prepare"
          /\ Terminalize(t, "idle") \/ (Commit(t, Prepared(c), "prepAudit") /\ RowsSame)
      BY <1>4 DEF PrepareApproval
    <2>2. UNCHANGED <<dispatched, audited>>
      BY <1>4 DEF PrepareApproval
    <2>3. /\ Prepared(c) \in RunState /\ Extends(c, Prepared(c))
          /\ Prepared(c).status = c.status /\ Prepared(c).at = c.at
      BY <1>0, PreparedFacts, EventsExtend
    <2> QED
      BY <1>2, <2>1, <2>2, <2>3, CommitOnce, TerminalizeOnce, Zenon
  <1>5. CASE CallbackFails(t)
    BY <1>2, <1>5, GoOnce, Zenon DEF CallbackFails
  <1>6. CASE FailGraph(t) \/ FinishGraph(t)
    <2>1. /\ task[t].pc \in {"own", "failing"} /\ UNCHANGED <<row, decision, dispatched>>
          /\ \/ Commit(t, GraphFinished(c), "finishAudit")
             \/ Become(t, Idle) /\ UNCHANGED <<journal, terminal, lastFin>>
      BY <1>6 DEF FailGraph, FinishGraph
    <2>2. GraphFinished(c) = RunFinished(c) /\ RunFinished(c) \in RunState
      BY <1>0, FinishedFacts
    <2>3. c.status = "Running"
      BY <2>1 DEF OnceInv, Place, LivePCs, PCs, SeqPCs
    <2>4. CASE Commit(t, GraphFinished(c), "finishAudit")
      BY <1>0, <1>2, <2>1, <2>2, <2>3, <2>4, CommitFacts, FinishOnce, Zenon
    <2>5. CASE Become(t, Idle) /\ UNCHANGED <<journal, terminal, lastFin>>
      BY <1>2, <2>1, <2>5, GoOnce, Zenon
    <2> QED
      BY <2>1, <2>4, <2>5, Zenon
  <1>7. CASE CompleteNode(t) \/ EnterNode(t)
    BY <1>1, <1>2, <1>7, CommitOnce, Zenon DEF CompleteNode, EnterNode
  <1>8. CASE PreflightStops(t)
    BY <1>8, TerminalizeOnce DEF PreflightStops
  <1> QED
    BY <1>3, <1>4, <1>5, <1>6, <1>7, <1>8, PublishOnce DEF Suspend

(* A compare-and-set on the row of the task's wait.                        *)
AskedStatus == {"Waiting", "DecisionRecordedApprove", "ApprovedReady"}

LEMMA RowOnce ==
    ASSUME IInv, NEW t \in Tasks, NEW w \in Waits, task[t].wait = w,
           NEW from \in AskedStatus \cup {"DecisionRecordedDeny", "Executing"}, NEW to,
           MoveRow(t, from, to), \A v \in Waits : v # w => decision'[v] = decision[v]
    PROVE  /\ row[w] = from /\ row'[w] = to
           /\ Answers' = [Answers EXCEPT ![w] = AnswerOf(w)']
           /\ to \notin AskedStatus => Asked' = Asked \ {w}
           /\ from \in AskedStatus /\ to \in AskedStatus => Asked' = Asked
  <1>1. row[w] = from /\ row' = [row EXCEPT ![w] = to] /\ TypeOK
    BY Zenon DEF MoveRow, IInv
  <1>2. /\ row'[w] = to /\ \A v \in Waits : v # w => row'[v] = row[v]
        /\ Answers' = [Answers EXCEPT ![w] = AnswerOf(w)']
    BY <1>1, AnswerSet, ZenonT(60)
  <1>3. to \notin AskedStatus => Asked' = Asked \ {w}
    BY <1>1, <1>2 DEF Asked, AskedStatus
  <1>4. from \in AskedStatus /\ to \in AskedStatus => Asked' = Asked
    BY <1>1, <1>2 DEF Asked, AskedStatus
  <1> QED
    BY <1>1, <1>2, <1>3, <1>4

LEMMA SameAnswer ==
    ASSUME NEW w \in Waits, Answers' = [Answers EXCEPT ![w] = AnswerOf(w)'],
           AnswerOf(w)' = AnswerOf(w)
    PROVE  Answers' = Answers
  BY Zenon DEF Answers

(* A task that acts on the wait the run is suspended at.                   *)
LEMMA BoundFacts ==
    ASSUME IInv, OnceInv, NEW t \in Tasks, task[t].pc \in BoundPCs, Current(t)
    PROVE  /\ task[t].ctx = journal /\ journal.status = "Running"
           /\ task[t].wait \in Waits /\ journal.at = task[t].wait
           /\ Asked \subseteq {task[t].wait}
  <1>1. task[t].pc \in LivePCs /\ task[t].pc # "idle" /\ task[t].pc \in WaitPCs
    BY DEF BoundPCs, LivePCs, PCs, AuditPCs, SeqPCs, RowPCs, LoadPCs, WaitPCs
  <1>2. task[t].ctx = journal /\ task[t].wait \in Waits
    BY <1>1 DEF IInv, JournalInv, SnapshotCurrent, LocalOK
  <1>3. journal.status = "Running" /\ journal.at = task[t].wait
    BY <1>1, <1>2 DEF OnceInv, Place
  <1>4. journal.at # NoWait
    BY <1>2, <1>3, NoWaitAssumption
  <1> QED
    BY <1>2, <1>3, <1>4 DEF OnceInv

LEMMA DecideOnce ==
    ASSUME IInv, OnceInv, NEW t \in Tasks, Decide(t)
    PROVE  OnceInv' /\ Maps
  <1> DEFINE c == task[t].ctx
  <1>1. PICK o \in {"approve", "deny"} : RecordDecision(t, o)
    BY DEF Decide
  <1>2. /\ task[t].pc = "decide" /\ MoveRow(t, "Waiting", Recorded(o))
        /\ Commit(t, Noted(c), "decAudit") /\ UNCHANGED dispatched
        /\ decision' = [decision EXCEPT ![task[t].wait] = o]
        /\ TypeOK /\ c \in RunState /\ "decAudit" \in PCs
    BY <1>1, CtxType DEF RecordDecision, IInv, PCs, AuditPCs
  <1>3. /\ Noted(c) \in RunState /\ Extends(c, Noted(c))
        /\ Noted(c).status = c.status /\ Noted(c).at = c.at
    BY <1>2, NotedFacts, EventsExtend, Zenon
  <1>4. Moves(t, "decAudit") /\ Wrote(t, Noted(c))
    BY <1>2, <1>3, CommitFacts
  <1>5. PICK w \in Waits : w = task[t].wait /\ c = journal /\ journal.status = "Running"
    BY <1>2, <1>4, BoundFacts, Zenon DEF Wrote, BoundPCs
  <1>6. decision'[w] = o /\ \A v \in Waits : v # w => decision'[v] = decision[v]
    BY <1>2, <1>5, Zenon DEF TypeOK
  <1>7. /\ row[w] = "Waiting" /\ row'[w] = Recorded(o)
        /\ Answers' = [Answers EXCEPT ![w] = AnswerOf(w)']
        /\ Recorded(o) \notin AskedStatus => Asked' = Asked \ {w}
        /\ Recorded(o) \in AskedStatus => Asked' = Asked
    BY <1>2, <1>5, <1>6, RowOnce, SMTT(30) DEF AskedStatus
  <1>8. Asked' \subseteq Asked
    BY <1>7, Zenon
  <1>9. Onward(t, "decAudit")
    BY <1>2, Zenon DEF Onward, LivePCs, FreePCs, BoundPCs, PCs, SeqPCs
  <1>10. OnceInv'
    BY <1>2, <1>3, <1>4, <1>8, <1>9, NoteOnce, Zenon
  <1>11. AnswerOf(w) = "open" /\ AnswerOf(w)' \in {"approved", "denied"}
    BY <1>7 DEF AnswerOf, Recorded
  <1>12. Live' = Live /\ Written' = Written
    BY <1>2, <1>3, <1>4, <1>5, SameWritten, Zenon DEF Live, Wrote
  <1> QED
    BY <1>5, <1>7, <1>10, <1>11, <1>12, MapsAnswer, Zenon

LEMMA AbortOnce ==
    ASSUME IInv, OnceInv, NEW t \in Tasks, Abort(t)
    PROVE  OnceInv' /\ Maps
  <1> DEFINE c == task[t].ctx
             s == RunFinished(c)
  <1>0. /\ TypeOK /\ c \in RunState
        /\ {"aborting", "abortAudit", "idle"} \subseteq PCs
    BY CtxType DEF IInv, PCs, SeqPCs, AuditPCs
  <1>1. CASE AbortLoad(t)
    <2>1. Onward(t, "aborting") /\ Onward(t, "idle") /\ task[t].pc # "idle"
      BY <1>1, Zenon DEF AbortLoad, Onward, LivePCs, FreePCs, BoundPCs, PCs, LoadPCs
    <2>2. Become(t, At(t, "aborting")) \/ Become(t, Idle)
      BY <1>1 DEF AbortLoad
    <2> QED
      BY <1>0, <1>1, <2>1, <2>2, GoOnce DEF AbortLoad
  <1>2. CASE AbortCommit(t)
    <2>1. /\ task[t].pc = "aborting" /\ MoveRow(t, "Waiting", "Consumed") /\ Append(t, s, TRUE)
          /\ Become(t, With(t, "abortAudit", s)) /\ UNCHANGED <<decision, dispatched>>
      BY <1>2, Zenon DEF AbortCommit, HistorySame
    <2>2. s \in RunState /\ Extends(c, s) /\ s.status = "Finished" /\ s.at = c.at
      BY <1>0, FinishedFacts, EventsExtend
    <2> HIDE DEF s
    <2>3. Moves(t, "abortAudit") /\ task'[t].ctx = s
      BY <1>0, <2>1, <2>2, WithFacts, BecomeFacts, SMTT(30) DEF Moves
    <2>4. Wrote(t, s)
      BY <1>0, <2>1, <2>3 DEF Append, Wrote, TypeOK
    <2>5. PICK w \in Waits : w = task[t].wait /\ c = journal /\ journal.status = "Running"
      BY <2>1, <2>4, BoundFacts DEF Wrote, BoundPCs
    <2>6. /\ row[w] = "Waiting" /\ row'[w] = "Consumed"
          /\ Answers' = [Answers EXCEPT ![w] = AnswerOf(w)']
          /\ Asked' = Asked \ {w}
      BY <2>1, <2>5, RowOnce, SMTT(30) DEF AskedStatus
    <2>7. decision[w] = "none"
      BY <2>5, <2>6, Zenon DEF IInv, RowInv, RowMatchesJournal
    <2>8. AnswerOf(w) = "open" /\ AnswerOf(w)' = "withdrawn"
      BY <2>1, <2>6, <2>7 DEF AnswerOf
    <2>9. OnceInv'
      BY <1>0, <2>1, <2>2, <2>3, <2>4, <2>6, EndOnce, Zenon
    <2>10. journal'.status = "Finished" /\ Written' = Written
      BY <2>1, <2>2, <2>4, SameWritten, Zenon DEF Wrote
    <2> QED
      BY <2>5, <2>6, <2>8, <2>9, <2>10, MapsWithdraw, Zenon
  <1> QED
    BY <1>1, <1>2 DEF Abort

LEMMA CalmResumeOnce ==
    ASSUME IInv, OnceInv, NEW t \in Tasks,
           \/ ResumeLoad(t) \/ Reload(t) \/ Deny(t) \/ Grant(t)
           \/ PortAnswers(t) \/ PortInterrupted(t) \/ ToolTerminal(t)
    PROVE  OnceInv' /\ Maps
  <1> DEFINE c == task[t].ctx
             w == task[t].wait
  <1>1. TypeOK /\ c \in RunState /\ LocalOK(t) /\ Onward(t, "idle")
    BY CtxType, NotIdle, Zenon DEF IInv, JournalInv, Onward
  <1>2. /\ {"denying", "granting", "resuming", "idle", "denyCommit", "starting", "consuming",
           "denyAudit", "grantAudit", "ended", "endedFail", "endAudit", "endFailAudit"}
             \subseteq PCs
        /\ task[t].pc = "resume" =>
             Onward(t, "denying") /\ Onward(t, "granting") /\ Onward(t, "resuming")
        /\ task[t].pc \in ReloadPCs => Onward(t, AfterReload(task[t].pc))
    BY DEF PCs, AuditPCs, SeqPCs, RowPCs, LoadPCs, Onward, LivePCs, FreePCs, BoundPCs, OwingPCs,
           ReloadPCs, AfterReload
  <1>3. /\ task[t].pc = "denying" => Onward(t, "denyAudit")
        /\ task[t].pc = "granting" => Onward(t, "grantAudit")
        /\ task[t].pc = "running" => Onward(t, "ended") /\ Onward(t, "endedFail")
        /\ task[t].pc = "ended" => Onward(t, "endAudit")
        /\ task[t].pc = "endedFail" => Onward(t, "endFailAudit")
    BY Zenon DEF PCs, AuditPCs, SeqPCs, RowPCs, LoadPCs, Onward, LivePCs, FreePCs, BoundPCs, OwingPCs
  <1>4. CASE ResumeLoad(t)
    <2>1. /\ task[t].pc = "resume" /\ UNCHANGED <<journal, terminal, lastFin, row, decision, dispatched>>
          /\ \E p \in {"denying", "granting", "resuming", "idle"} : Become(t, Loaded(t, p))
      BY <1>4 DEF ResumeLoad
    <2>2. w \in Waits
      BY <1>1, <2>1, Zenon DEF LocalOK, WaitPCs, LoadPCs
    <2> QED
      BY <1>1, <1>2, <2>1, <2>2, GoOnce, Zenon
  <1>5. CASE Reload(t)
    <2> DEFINE p == AfterReload(task[t].pc)
    <2>1. /\ task[t].pc \in ReloadPCs /\ Become(t, Loaded(t, p))
          /\ UNCHANGED <<journal, terminal, lastFin, row, decision, dispatched>>
      BY <1>5 DEF Reload
    <2>2. w \in Waits /\ task[t].pc # "idle"
      BY <1>1, <2>1, Zenon DEF LocalOK, WaitPCs, LoadPCs, ReloadPCs
    <2>3. p \in PCs /\ Onward(t, p)
      BY <1>2, <2>1 DEF AfterReload
    <2> QED
      BY <2>1, <2>2, <2>3, GoOnce, Zenon
  <1>6. CASE Deny(t) \/ Grant(t)
    <2>1. PICK p \in {"denyAudit", "grantAudit"} :
            /\ Commit(t, Noted(c), p) /\ UNCHANGED <<row, decision, dispatched>>
            /\ task[t].pc = (IF p = "denyAudit" THEN "denying" ELSE "granting")
      BY <1>6, Zenon DEF Deny, Grant
    <2>2. /\ Noted(c) \in RunState /\ Extends(c, Noted(c))
          /\ Noted(c).status = c.status /\ Noted(c).at = c.at
      BY <1>1, NotedFacts, EventsExtend, Zenon
    <2> QED
      BY <1>2, <1>3, <2>1, <2>2, CommitOnce, Zenon
  <1>7. CASE PortAnswers(t)
    BY <1>2, <1>3, <1>7, GoOnce, Zenon DEF PortAnswers
  <1>8. CASE PortInterrupted(t)
    BY <1>8, TerminalizeOnce DEF PortInterrupted
  <1>9. CASE ToolTerminal(t)
    <2>1. PICK p \in {"endAudit", "endFailAudit", "idle"} :
            /\ Commit(t, ToolEnded(c, w), p) /\ UNCHANGED <<row, decision, dispatched>>
            /\ task[t].pc \in {"ended", "endedFail", "cancelled"}
            /\ p = "endAudit" => task[t].pc = "ended"
            /\ p = "endFailAudit" => task[t].pc = "endedFail"
      BY <1>9 DEF ToolTerminal
    <2>2. w \in Waits
      BY <1>1, <2>1, Zenon DEF LocalOK, WaitPCs
    <2>3. /\ ToolEnded(c, w) \in RunState /\ Extends(c, ToolEnded(c, w))
          /\ ToolEnded(c, w).status = c.status /\ ToolEnded(c, w).at = c.at
      BY <1>1, <2>2, ToolEndedFacts, EventsExtend, Zenon
    <2> QED
      BY <1>1, <1>2, <1>3, <2>1, <2>3, CommitOnce, Zenon
  <1> QED
    BY <1>4, <1>5, <1>6, <1>7, <1>8, <1>9

(* The row moves without an event, and without a new answer.               *)
LEMMA QuietRowOnce ==
    ASSUME IInv, OnceInv, NEW t \in Tasks, MarkReady(t) \/ ConsumeRow(t)
    PROVE  OnceInv' /\ Maps
  <1>1. PICK m \in {[pc |-> "readying", from |-> "DecisionRecordedApprove", to |-> "ApprovedReady",
                     next |-> "readyReload"],
                    [pc |-> "consuming", from |-> "Executing", to |-> "Consumed",
                     next |-> "resumed"]} :
          /\ task[t].pc = m.pc /\ MoveRow(t, m.from, m.to) /\ Become(t, At(t, m.next))
          /\ UNCHANGED <<journal, terminal, lastFin, decision, dispatched>>
    BY Zenon DEF MarkReady, ConsumeRow
  <1> DEFINE p == m.next
  <1>2. TypeOK /\ LocalOK(t) /\ p \in PCs /\ task[t].pc # "idle" /\ Onward(t, p)
    BY <1>1, SMTT(30) DEF IInv, JournalInv, PCs, SeqPCs, RowPCs, LoadPCs, Onward, LivePCs, FreePCs, BoundPCs,
                OwingPCs
  <1>3. PICK w \in Waits : w = task[t].wait
    BY <1>1, <1>2, SMTT(30) DEF LocalOK, WaitPCs, RowPCs
  <1>4. Moves(t, p) /\ Quiet(t)
    BY <1>1, <1>2, AtFacts, Zenon DEF Quiet, Moves
  <1>5. /\ row[w] = m.from /\ row'[w] = m.to
        /\ Answers' = [Answers EXCEPT ![w] = AnswerOf(w)'] /\ Asked' \subseteq Asked
    BY <1>1, <1>3, RowOnce, SMTT(30) DEF AskedStatus
  <1>6. OnceInv'
    BY <1>2, <1>4, <1>5, QuietOnce, Zenon
  <1>7. m.from = "Executing" => decision[w] = "approve"
    BY <1>5, Zenon DEF IInv, RowInv, RowMatchesJournal
  <1>8. AnswerOf(w)' = AnswerOf(w)
    BY <1>1, <1>5, <1>7 DEF AnswerOf
  <1>9. Answers' = Answers /\ Written' = Written /\ Live' = Live
    BY <1>1, <1>5, <1>8, SameAnswer, SameWritten, Zenon DEF Live
  <1> QED
    BY <1>6, <1>9, MapsStutter

(* GraphResumed leaves the wait, with the answer known.                    *)
LEMMA LeaveOnce ==
    ASSUME IInv, OnceInv, NEW t \in Tasks, DenyCommit(t) \/ ResumeGraph(t)
    PROVE  OnceInv' /\ Maps
  <1> DEFINE c == task[t].ctx
             s == GraphResumed(c)
  <1>1. PICK m \in {[pc |-> "denyCommit", from |-> "DecisionRecordedDeny", to |-> "Consumed",
                     next |-> "deniedAudit"],
                    [pc |-> "resuming", from |-> "ApprovedReady", to |-> "ApprovedReady",
                     next |-> "resumedAudit"]} :
          /\ task[t].pc = m.pc /\ MoveRow(t, m.from, m.to) /\ Commit(t, s, m.next)
          /\ UNCHANGED <<decision, dispatched>>
    BY Zenon DEF DenyCommit, ResumeGraph
  <1> DEFINE p == m.next
  <1>2. /\ TypeOK /\ c \in RunState /\ p \in PCs /\ task[t].pc # "idle"
        /\ task[t].pc \in BoundPCs /\ p \notin BoundPCs
    BY <1>1, CtxType, SMTT(30) DEF IInv, PCs, AuditPCs, BoundPCs
  <1>3. Current(t)
    BY <1>1, Zenon DEF Commit, Append
  <1>4. PICK w \in Waits : /\ w = task[t].wait /\ c = journal /\ journal.status = "Running"
                          /\ Asked \subseteq {w}
    BY <1>2, <1>3, BoundFacts, Zenon
  <1>5. s \in RunState /\ Extends(c, s) /\ s.status = c.status /\ s.at = NoWait
    BY <1>2, <1>4, PositionFacts, EventsExtend, Zenon
  <1>6. Moves(t, p) /\ Wrote(t, s)
    BY <1>1, <1>2, <1>5, CommitFacts, Zenon
  <1> HIDE DEF s
  <1>7. /\ row[w] = m.from /\ row'[w] = m.to
        /\ Answers' = [Answers EXCEPT ![w] = AnswerOf(w)']
        /\ Asked' \subseteq (IF p \in OwingPCs THEN {task[t].wait} ELSE {})
    BY <1>1, <1>4, RowOnce, SMTT(30) DEF AskedStatus, OwingPCs
  <1>8. OnceInv'
    BY <1>2, <1>4, <1>5, <1>6, <1>7, WroteOnce, Zenon
  <1>9. m.from = "DecisionRecordedDeny" => decision[w] = "deny"
    BY <1>7, Zenon DEF IInv, RowInv, RowMatchesJournal
  <1>10. AnswerOf(w)' = AnswerOf(w)
    BY <1>1, <1>7, <1>9 DEF AnswerOf
  <1>11. Answers' = Answers /\ Written' = Written /\ Live' = Live
    BY <1>1, <1>4, <1>5, <1>6, <1>7, <1>10, SameAnswer, SameWritten, Zenon DEF Live, Wrote
  <1> QED
    BY <1>8, <1>11, MapsStutter

LEMMA StartOnce ==
    ASSUME IInv, OnceInv, NEW t \in Tasks, StartTool(t)
    PROVE  OnceInv' /\ Maps
  <1> DEFINE c == task[t].ctx
             s == ToolStarted(c, task[t].wait)
             p == "startAudit"
  <1>1. task[t].pc = "starting" /\ HistorySame
    BY Zenon DEF StartTool
  <1>2. CASE Terminalize(t, "idle")
    BY <1>1, <1>2, TerminalizeOnce, Zenon
  <1>3. CASE /\ MoveRow(t, "ApprovedReady", "Executing") /\ Commit(t, s, p)
             /\ UNCHANGED decision
    <2>1. /\ TypeOK /\ c \in RunState /\ p \in PCs /\ LocalOK(t) /\ Place(t)
          /\ p \in FreePCs /\ p \notin OwingPCs /\ p \notin BoundPCs
      BY CtxType, Zenon DEF IInv, JournalInv, PCs, AuditPCs, FreePCs, OwingPCs, BoundPCs, OnceInv
    <2>2. PICK w \in Waits : w = task[t].wait
      BY <1>1, <2>1 DEF LocalOK, WaitPCs, RowPCs
    <2>3. /\ s \in RunState /\ Extends(c, s) /\ s.status = c.status /\ s.at = c.at
      BY <2>1, <2>2, ToolStartedFacts, EventsExtend, Zenon
    <2>4. Moves(t, p) /\ Wrote(t, s)
      BY <1>3, <2>1, <2>3, CommitFacts
    <2> HIDE DEF s
    <2>5. c = journal /\ c.status = "Running" /\ c.at = NoWait /\ Current(t)
      BY <1>1, <2>1, <2>4, Zenon
         DEF Wrote, IInv, JournalInv, SnapshotCurrent, Place, LivePCs, FreePCs, PCs, SeqPCs
    <2>6. Asked \subseteq {w}
      BY <1>1, <2>2, <2>5, Zenon DEF OnceInv, Owes, FreePCs, OwingPCs
    <2>7. /\ row[w] = "ApprovedReady" /\ row'[w] = "Executing"
          /\ Answers' = [Answers EXCEPT ![w] = AnswerOf(w)'] /\ Asked' = {}
      BY <1>3, <2>2, <2>6, RowOnce, SMTT(30) DEF AskedStatus
    <2>8. OnceInv'
      BY <1>1, <2>1, <2>3, <2>4, <2>5, <2>7, WroteOnce, Zenon
    <2>9. AnswerOf(w) = "approved" /\ AnswerOf(w)' = "charged"
      BY <2>7 DEF AnswerOf
    <2>10. Live' = Live /\ Written' = Written /\ journal.status = "Running"
      BY <1>1, <2>3, <2>4, <2>5, SameWritten, Zenon DEF Live, Wrote
    <2> QED
      BY <2>7, <2>8, <2>9, <2>10, MapsAnswer, Zenon
  <1> QED
    BY <1>2, <1>3, Zenon DEF StartTool

LEMMA InvokeOnce ==
    ASSUME IInv, OnceInv, NEW t \in Tasks, Invoke(t)
    PROVE  OnceInv' /\ Maps
  <1>1. /\ task[t].pc = "invoking" /\ {"running", "endedFail"} \subseteq PCs
        /\ UNCHANGED <<journal, terminal, lastFin, row, decision>> /\ TypeOK /\ LocalOK(t)
    BY Zenon DEF Invoke, PCs, SeqPCs, IInv, JournalInv
  <1>2. Onward(t, "running") /\ Onward(t, "endedFail")
    BY <1>1, Zenon DEF Onward, LivePCs, FreePCs, BoundPCs, OwingPCs, PCs, SeqPCs
  <1>3. CASE Become(t, At(t, "endedFail")) /\ UNCHANGED dispatched
    BY <1>1, <1>2, <1>3, GoOnce, Zenon
  <1>4. CASE /\ Become(t, At(t, "running"))
             /\ dispatched' = [dispatched EXCEPT ![task[t].wait] = @ + 1]
    <2>1. PICK w \in Waits : w = task[t].wait
      BY <1>1 DEF LocalOK, WaitPCs
    <2>2. Moves(t, "running") /\ Quiet(t)
      BY <1>1, <1>4, AtFacts, Zenon DEF Quiet, Moves
    <2>3. Answers' = Answers /\ Asked' = Asked /\ Live' = Live
      BY <1>1, SameAnswers DEF Live
    <2>4. OnceInv'
      BY <1>1, <1>2, <2>2, <2>3, QuietOnce
    <2>5. journal.status = "Running"
      BY <1>1, Zenon DEF LocalOK, ArmedPCs, RunningPCs, IInv, JournalInv, SnapshotCurrent
    <2>6. row[w] = "Executing" /\ dispatched[w] = 0
      BY <1>1, <2>1, Zenon DEF IInv, RowInv, ChargedPCs, ArmedPCs
    <2>7. AnswerOf(w) = "charged"
      BY <2>6 DEF AnswerOf
    <2>8. dispatched'[w] = 1 /\ \A v \in Waits : v # w => dispatched'[v] = dispatched[v]
      BY <1>1, <1>4, <2>1, <2>6 DEF TypeOK
    <2>9. w \notin Written /\ Written' = Written \cup {w}
      BY <2>6, <2>8 DEF Written
    <2> QED
      BY <2>3, <2>4, <2>5, <2>7, <2>9, MapsWrite
  <1> QED
    BY <1>3, <1>4, Zenon DEF Invoke

(* The store refuses, or the client drops the request.                     *)
LEMMA GiveUpOnce ==
    ASSUME IInv, OnceInv, NEW t \in Tasks, StoreRefuses(t) \/ Drop(t)
    PROVE  OnceInv' /\ Maps
  <1>1. /\ task[t].pc # "idle" /\ Become(t, Idle) /\ "idle" \in PCs /\ Onward(t, "idle")
        /\ UNCHANGED <<journal, terminal, lastFin, row, decision, dispatched>>
    BY NotIdle, Zenon DEF StoreRefuses, Drop, SeqPCs, RowPCs, LoadPCs, HandlerPCs, PCs, Onward
  <1> QED
    BY <1>1, GoOnce, Zenon

(* A command starts where the journal is.                                  *)
LEMMA CommandOnce ==
    ASSUME IInv, OnceInv, NEW t \in Tasks, Command(t)
    PROVE  OnceInv' /\ Maps
  <1>1. PICK w \in Waits, p \in {"decide", "abort", "resume"} : Begin(t, w, p)
    BY DEF Command, BeginDecision, BeginAbort, BeginResume
  <1> DEFINE r == [pc |-> p, ctx |-> journal, wait |-> w, seen |-> version[w]]
  <1>2. /\ journal.status = "Running" /\ journal.at = w /\ Become(t, r)
        /\ UNCHANGED <<journal, row, decision, dispatched>>
    BY <1>1, Zenon DEF Begin, RecoverWaiting
  <1>3. TypeOK /\ journal \in RunState /\ version[w] \in Nat /\ p \in PCs
    BY DEF IInv, TypeOK, PCs, RowPCs, LoadPCs
  <1>4. r \in TaskState /\ r.pc = p /\ r.ctx = journal /\ r.wait = w
    BY <1>3, Zenon DEF TaskState
  <1> HIDE DEF r
  <1>5. task'[t] = r /\ \A u \in Tasks : u # t => task'[u] = task[u]
    BY <1>2, <1>3, <1>4, BecomeFacts
  <1>6. Answers' = Answers /\ Asked' = Asked /\ Written' = Written /\ Live' = Live
    BY <1>2, SameAnswers, SameWritten DEF Live
  <1>7. p \notin FreePCs
    BY DEF FreePCs
  <1>8. \A u \in Tasks : Place(u)'
    BY <1>2, <1>4, <1>5, <1>7, Zenon DEF Place, OnceInv
  <1>9. ASSUME NEW u \in Tasks, task'[u].pc \in FreePCs, Current(u)'
        PROVE  Asked' \subseteq Owes(u)'
    BY <1>2, <1>4, <1>5, <1>6, <1>7, <1>9, Zenon DEF OnceInv, Owes, Current
  <1>10. OnceInv'
    BY <1>2, <1>6, <1>8, <1>9, Zenon DEF OnceInv
  <1> QED
    BY <1>6, <1>10, MapsStutter

LEMMA CrashOnce ==
    ASSUME IInv, OnceInv, Crash
    PROVE  OnceInv' /\ Maps
  <1>1. /\ \A t \in Tasks : task'[t].pc = "idle"
        /\ UNCHANGED <<journal, row, decision, dispatched>>
    BY IdleType DEF Crash
  <1>2. Answers' = Answers /\ Asked' = Asked /\ Written' = Written /\ Live' = Live
    BY <1>1, SameAnswers, SameWritten DEF Live
  <1>3. OnceInv'
    BY <1>1, <1>2, NotIdle, Zenon DEF OnceInv, Place
  <1> QED
    BY <1>2, <1>3, MapsStutter

--------------------------------------------------------------------------------
(* The refinement.                                                         *)

LEMMA InitOnce == Init => OnceInv /\ Once!Init
  <1> SUFFICES ASSUME Init
               PROVE  OnceInv /\ Once!Init
    OBVIOUS
  <1>1. /\ journal.status = "Running" /\ journal.at = NoWait
        /\ \A w \in Waits : row[w] = "absent" /\ dispatched[w] = 0
    BY DEF Init
  <1>2. \A w \in Waits : AnswerOf(w) = "none"
    BY <1>1 DEF AnswerOf
  <1>3. Once!Init
    BY <1>1, <1>2, SMTT(30) DEF Once!Init
  <1>4. PICK o \in Tasks :
          task = [t \in Tasks |->
                    IF t = o THEN [pc |-> "own", ctx |-> journal, wait |-> NoWait, seen |-> 0]
                    ELSE Idle]
    BY Zenon DEF Init
  <1>5. \A t \in Tasks : \/ task[t].pc = "own" /\ task[t].ctx = journal
                         \/ task[t].pc = "idle"
    BY <1>4, IdleType, Zenon
  <1>6. "own" \notin BoundPCs /\ Asked = {}
    BY <1>1 DEF BoundPCs, Asked
  <1> QED
    BY <1>1, <1>3, <1>5, <1>6, NotIdle DEF OnceInv, Place

LEMMA NextOnce == IInv /\ OnceInv /\ [Next]_vars => OnceInv' /\ Maps
  <1> SUFFICES ASSUME IInv, OnceInv, [Next]_vars
               PROVE  OnceInv' /\ Maps
    OBVIOUS
  <1>1. CASE Crash
    BY <1>1, CrashOnce
  <1>2. ASSUME NEW t \in Tasks, Command(t) \/ Work(t) \/ Drop(t)
        PROVE  OnceInv' /\ Maps
    <2>1. CASE Command(t)
      BY <2>1, CommandOnce
    <2>2. CASE Drop(t) \/ StoreRefuses(t)
      BY <2>2, GiveUpOnce
    <2>3. CASE Audit(t)
      BY <2>3, AuditOnce
    <2>4. CASE Suspend(t)
      BY <2>4, SuspendOnce
    <2>5. CASE Decide(t) \/ Abort(t)
      BY <2>5, DecideOnce, AbortOnce
    <2>6. CASE Resume(t)
      BY <2>6, CalmResumeOnce, QuietRowOnce, LeaveOnce, StartOnce, InvokeOnce DEF Resume
    <2> QED
      BY <1>2, <2>1, <2>2, <2>3, <2>4, <2>5, <2>6 DEF Work
  <1>3. CASE UNCHANGED vars
    <2>1. Answers' = Answers /\ Asked' = Asked /\ Written' = Written /\ Live' = Live
      BY <1>3, SameAnswers, SameWritten DEF vars, Live
    <2>2. OnceInv'
      BY <1>3, <2>1, Zenon DEF vars, OnceInv, Place, Owes, Current
    <2> QED
      BY <2>1, <2>2, MapsStutter
  <1> QED
    BY <1>1, <1>2, <1>3 DEF Next

(* Suspending, deciding, aborting and resuming, with all their store       *)
(* steps, audits, crashes and races, implement the one-shot approval: each *)
(* step changes at most one answer, in the order ApprovalOnce allows, or   *)
(* performs one charged write, while the run is live.                      *)
THEOREM ImplementsOneShot == Spec => ImplementsOnce
  <1>1. Init => OnceInv /\ Once!Init
    BY InitOnce
  <1>2. IInv /\ OnceInv /\ [Next]_vars => OnceInv' /\ [Once!Next]_(Once!vars)
    BY NextOnce DEF Maps
  <1> QED
    BY <1>1, <1>2, Inductive, PTL DEF Spec, ImplementsOnce, Once!Spec

================================================================================
