------------------------------ MODULE AgentService ------------------------------
(***************************************************************************)
(* The transport-neutral service (agent-service): sessions, the table of   *)
(* active runs, the background task that executes each run, cancellation,  *)
(* archiving, draining and the restart of the process.                     *)
(*                                                                         *)
(* A request handler is cut where the code awaits or releases the lock of  *)
(* the active table, so handlers, tasks and the drain interleave as they   *)
(* do on the runtime.  The handler of a client that disconnects is dropped *)
(* at its next await.  A run is a session and a start_request_id, because  *)
(* derive_run_id is a digest of both.                                      *)
(***************************************************************************)
EXTENDS Identity, FiniteSets

CONSTANTS
    Sessions,    \* SessionId values
    Requests,    \* start_request_id values
    NoRequest,   \* no run
    Callers,     \* requests the transport serves at the same time
    Connected,   \* the principals the transport verifies
    Offered,     \* the runs clients ask for, as session and request
    WorkflowOf,  \* the workflow each start request names
    Configured,  \* workflows the service was built with
    Outcomes,    \* how workflows end: what recovery then finds
    MaxSessions, \* MAX_SESSIONS
    MaxActive,   \* MAX_ACTIVE_RUNS
    MaxResults,  \* MAX_APPLICATION_RESULTS
    MaxVersion,  \* journal transitions followed per run
    MaxFaults    \* failing calls, disconnects and process deaths

NoOne == "nobody"

Runs == Sessions \X Requests

Settled == {"Completed", "Failed"}
Stored == {"Resumable", "Waiting", "Completed", "Failed", "Manual"}

ASSUME ServiceAssumption ==
    /\ NoRequest \notin Requests
    /\ NoOne \notin People
    /\ Connected \subseteq Principals
    /\ Offered \subseteq Runs
    /\ WorkflowOf \in [Requests -> Workflows]
    /\ Configured \subseteq Workflows
    /\ Outcomes \subseteq Stored
    /\ {MaxSessions, MaxActive, MaxResults, MaxVersion, MaxFaults} \subseteq Nat

VARIABLES
    up,         \* the process is running
    lifecycle,  \* LIFECYCLE_SERVING or LIFECYCLE_DRAINING
    drain,      \* where the drain stands
    owner,      \* durable: owner of a session
    archived,   \* durable: archived sessions
    sessions,   \* the in-memory session set, used for the capacity check
    record,     \* durable: what recover_run finds for a run, and its version
    latest,     \* durable: the last run recorded for a session
    active,     \* the active table: request of the slot of a session
    handle,     \* the cancellation handle in the slot
    tasks,      \* tasks of the TaskTracker
    dispatched, \* ghost: how often workflow.run was spawned for a run
    results,    \* the in-memory table of application results
    call,       \* the request handlers
    faults      \* failures so far

memory == <<lifecycle, drain, sessions, active, handle, tasks, results, call>>
durable == <<owner, archived, record, latest>>
vars == <<up, lifecycle, drain, owner, archived, sessions, record, latest, active, handle,
          tasks, dispatched, results, call, faults>>



Idle == [pc |-> "idle", s |-> NoOne, q |-> NoRequest, seen |-> 0, p |-> NoOne]

(* Where a handler holds the slot of its session.                          *)
StartPCs == {"title", "find", "begin", "audit", "mark", "check", "spawn"}
HoldingPCs == StartPCs \cup {"resumeSpawn"}

Init ==
    /\ up = TRUE
    /\ lifecycle = "Serving"
    /\ drain = "none"
    /\ owner = [s \in Sessions |-> NoOne]
    /\ archived = {}
    /\ sessions = {}
    /\ record = [s \in Sessions |-> [q \in Requests |-> [st |-> "Absent", ver |-> 0]]]
    /\ latest = [s \in Sessions |-> NoRequest]
    /\ active = [s \in Sessions |-> NoRequest]
    /\ handle = [s \in Sessions |-> "none"]
    /\ tasks = {}
    /\ dispatched = [s \in Sessions |-> [q \in Requests |-> 0]]
    /\ results = {}
    /\ call = [c \in Callers |-> Idle]
    /\ faults = 0

--------------------------------------------------------------------------------
(* Shared steps of the handlers.                                           *)

ensure_serving == lifecycle = "Serving"

Occupied == {s \in Sessions : active[s] # NoRequest}

Goto(c, pc) == call' = [call EXCEPT ![c] = [@ EXCEPT !.pc = pc]]

Return(c) == call' = [call EXCEPT ![c] = Idle]

Enter(c, pc, s, q, seen, p) ==
    /\ up
    /\ call[c].pc = "idle"
    /\ call' = [call EXCEPT ![c] = [pc |-> pc, s |-> s, q |-> q, seen |-> seen, p |-> p.id]]

At(c, pc) == up /\ call[c].pc = pc

Fails == faults < MaxFaults /\ faults' = faults + 1

Insert(s, q, h) ==
    /\ active' = [active EXCEPT ![s] = q]
    /\ handle' = [handle EXCEPT ![s] = h]

RemoveSlot(s) == Insert(s, NoRequest, "none")

request_cancel(S) ==
    handle' = [s \in Sessions |-> IF s \in S /\ handle[s] # "none" THEN "cancelled" ELSE handle[s]]

Write(s, q, st) ==
    record' = [record EXCEPT ![s][q] = [st |-> st, ver |-> @.ver + 1]]

(* A run is read, cancelled, resumed or aborted by its owner only; the     *)
(* owner is the one the durable record of the run names.                   *)
MayTouch(p, a, s, q) ==
    /\ record[s][q].st # "Absent"
    /\ authorize(p, a, OwnedRun(WorkflowOf[q], owner[s]))

--------------------------------------------------------------------------------
(* create_session: the capacity is checked before the record is stored and *)
(* the id is added to the set after the audit.                             *)

CreateSession(c, s, p) ==
    /\ ensure_serving
    /\ authorize(p, "CreateSession", Global)
    /\ Cardinality(sessions) < MaxSessions
    /\ owner[s] = NoOne
    /\ \A d \in Callers : call[d].pc = "store" => call[d].s # s
    /\ Enter(c, "store", s, NoRequest, 0, p)
    /\ UNCHANGED <<up, lifecycle, drain, durable, sessions, active, handle, tasks, dispatched,
                   results, faults>>

CreateStore(c) ==
    LET s == call[c].s IN
    /\ At(c, "store")
    /\ \/ /\ owner' = [owner EXCEPT ![s] = call[c].p]
          /\ sessions' = sessions \cup {s}
          /\ UNCHANGED faults
       \/ /\ Fails
          /\ UNCHANGED <<owner, sessions>>
       \/ /\ Fails
          /\ owner' = [owner EXCEPT ![s] = call[c].p]
          /\ UNCHANGED sessions
    /\ Return(c)
    /\ UNCHANGED <<up, lifecycle, drain, archived, record, latest, active, handle, tasks,
                   dispatched, results>>

--------------------------------------------------------------------------------
(* start_run: load and authorize, claim the slot under the lock, title,    *)
(* look the run up, begin it durably, audit, publish the handle, look at   *)
(* the lifecycle again, spawn.                                             *)

StartRun(c, s, q, p) ==
    /\ ensure_serving
    /\ owner[s] = p.id
    /\ s \notin archived
    /\ authorize(p, "StartWorkflow", Workflow(WorkflowOf[q]))
    /\ WorkflowOf[q] \in Configured
    /\ Enter(c, "claim", s, q, 0, p)
    /\ UNCHANGED <<up, lifecycle, drain, durable, sessions, active, handle, tasks, dispatched,
                   results, faults>>

(* Mutant: the lifecycle is not looked at again under the lock.            *)
StartClaimWhileDraining(c) ==
    LET s == call[c].s IN
    /\ At(c, "claim")
    /\ IF s \notin Occupied /\ Cardinality(Occupied) < MaxActive
       THEN Insert(s, call[c].q, "none") /\ Goto(c, "title")
       ELSE Return(c) /\ UNCHANGED <<active, handle>>
    /\ UNCHANGED <<up, lifecycle, drain, durable, sessions, tasks, dispatched, results, faults>>

(* A slot that exists already answers the request (the same run) or        *)
(* refuses it (another one).                                               *)
StartClaim(c) ==
    LET s == call[c].s IN
    /\ At(c, "claim")
    /\ IF ensure_serving /\ s \notin Occupied /\ Cardinality(Occupied) < MaxActive
       THEN Insert(s, call[c].q, "none") /\ Goto(c, "title")
       ELSE Return(c) /\ UNCHANGED <<active, handle>>
    /\ UNCHANGED <<up, lifecycle, drain, durable, sessions, tasks, dispatched, results, faults>>

(* Mutant: the slot is not removed when the title is refused.              *)
StartTitleKeepsSlot(c) ==
    LET s == call[c].s IN
    /\ At(c, "title")
    /\ IF s \in archived THEN Return(c) ELSE Goto(c, "find")
    /\ UNCHANGED <<up, lifecycle, drain, durable, sessions, active, handle, tasks, dispatched,
                   results, faults>>

(* set_title_if_absent refuses an archived session.                        *)
StartTitle(c) ==
    LET s == call[c].s IN
    /\ At(c, "title")
    /\ \/ /\ s \notin archived
          /\ Goto(c, "find")
          /\ UNCHANGED <<active, handle, faults>>
       \/ /\ s \in archived
          /\ RemoveSlot(s)
          /\ Return(c)
          /\ UNCHANGED faults
       \/ /\ Fails
          /\ RemoveSlot(s)
          /\ Return(c)
    /\ UNCHANGED <<up, lifecycle, drain, durable, sessions, tasks, dispatched, results>>

(* A run that is on record is answered from the record.                    *)
StartFind(c) ==
    LET s == call[c].s IN
    /\ At(c, "find")
    /\ \/ /\ record[s][call[c].q].st = "Absent"
          /\ Goto(c, "begin")
          /\ UNCHANGED <<active, handle, faults>>
       \/ /\ record[s][call[c].q].st # "Absent"
          /\ RemoveSlot(s)
          /\ Return(c)
          /\ UNCHANGED faults
       \/ /\ Fails
          /\ RemoveSlot(s)
          /\ Return(c)
    /\ UNCHANGED <<up, lifecycle, drain, durable, sessions, tasks, dispatched, results>>

(* create_run and the RunStarted transition are two commits: with only the *)
(* first one the run recovers as one for manual reconciliation.            *)
Begin(s, q, st) ==
    /\ record[s][q].st = "Absent"
    /\ Write(s, q, st)
    /\ latest' = [latest EXCEPT ![s] = q]

StartBegin(c) ==
    LET s == call[c].s IN
    /\ At(c, "begin")
    /\ \/ /\ Begin(s, call[c].q, "Resumable")
          /\ Goto(c, "audit")
          /\ UNCHANGED <<active, handle, faults>>
       \/ /\ Fails
          /\ Begin(s, call[c].q, "Manual") \/ UNCHANGED <<record, latest>>
          /\ RemoveSlot(s)
          /\ Return(c)
    /\ UNCHANGED <<up, lifecycle, drain, owner, archived, sessions, tasks, dispatched, results>>

(* When the required audit fails the handler returns and leaves the slot.  *)
StartAudit(c) ==
    /\ At(c, "audit")
    /\ \/ Goto(c, "mark") /\ UNCHANGED faults
       \/ Return(c) /\ Fails
    /\ UNCHANGED <<up, lifecycle, drain, durable, sessions, active, handle, tasks, dispatched,
                   results>>

StartMark(c) ==
    /\ At(c, "mark")
    /\ handle' = [handle EXCEPT ![call[c].s] = "live"]
    /\ Goto(c, "check")
    /\ UNCHANGED <<up, lifecycle, drain, durable, sessions, active, tasks, dispatched, results,
                   faults>>

(* Mutant: a start does not look whether a drain began meanwhile.          *)
StartCheckBlind(c) ==
    /\ At(c, "check")
    /\ Goto(c, "spawn")
    /\ UNCHANGED <<up, lifecycle, drain, durable, sessions, active, handle, tasks, dispatched,
                   results, faults>>

StartCheck(c) ==
    /\ At(c, "check")
    /\ request_cancel(IF ensure_serving THEN {} ELSE {call[c].s})
    /\ Goto(c, "spawn")
    /\ UNCHANGED <<up, lifecycle, drain, durable, sessions, active, tasks, dispatched, results,
                   faults>>

Task(c, seen) == [s |-> call[c].s, q |-> call[c].q, seen |-> seen, pc |-> "work"]

StartSpawn(c) ==
    LET s == call[c].s IN
    /\ At(c, "spawn")
    /\ tasks' = tasks \cup {Task(c, 1)}
    /\ dispatched' = [dispatched EXCEPT ![s][call[c].q] = @ + 1]
    /\ Return(c)
    /\ UNCHANGED <<up, lifecycle, drain, durable, sessions, active, handle, results, faults>>

--------------------------------------------------------------------------------
(* resume_run reads the record first and claims the slot afterwards, so    *)
(* what it resumes may be out of date; abort and cancel.                   *)

ResumeRun(c, s, q, p) ==
    /\ ensure_serving
    /\ MayTouch(p, "ResumeRun", s, q)
    /\ record[s][q].st \in {"Waiting", "Resumable"}
    /\ WorkflowOf[q] \in Configured
    /\ Enter(c, "resumeClaim", s, q, record[s][q].ver, p)
    /\ UNCHANGED <<up, lifecycle, drain, durable, sessions, active, handle, tasks, dispatched,
                   results, faults>>

(* Mutant: a resume takes the slot whether or not it is occupied.          *)
ResumeClaimAnyway(c) ==
    LET s == call[c].s IN
    /\ At(c, "resumeClaim")
    /\ IF ensure_serving
       THEN Insert(s, call[c].q, "live") /\ Goto(c, "resumeSpawn")
       ELSE Return(c) /\ UNCHANGED <<active, handle>>
    /\ UNCHANGED <<up, lifecycle, drain, durable, sessions, tasks, dispatched, results, faults>>

ResumeClaim(c) ==
    LET s == call[c].s IN
    /\ At(c, "resumeClaim")
    /\ IF ensure_serving /\ s \notin Occupied /\ Cardinality(Occupied) < MaxActive
       THEN Insert(s, call[c].q, "live") /\ Goto(c, "resumeSpawn")
       ELSE Return(c) /\ UNCHANGED <<active, handle>>
    /\ UNCHANGED <<up, lifecycle, drain, durable, sessions, tasks, dispatched, results, faults>>

(* The audit after the spawn does not take it back.                        *)
ResumeSpawn(c) ==
    /\ At(c, "resumeSpawn")
    /\ tasks' = tasks \cup {Task(c, call[c].seen)}
    /\ Return(c)
    /\ UNCHANGED <<up, lifecycle, drain, durable, sessions, active, handle, dispatched, results,
                   faults>>

AbortWaiting(s, q, p) ==
    /\ up /\ ensure_serving
    /\ MayTouch(p, "AbortWaiting", s, q)
    /\ record[s][q].st = "Waiting"
    /\ Write(s, q, "Failed")
    /\ UNCHANGED <<up, memory, owner, archived, latest, dispatched, faults>>

cancel_active_run(s, q, p) ==
    /\ up
    /\ MayTouch(p, "CancelRun", s, q)
    /\ active[s] = q /\ handle[s] = "live"
    /\ request_cancel({s})
    /\ UNCHANGED <<up, lifecycle, drain, durable, sessions, active, tasks, dispatched, results,
                   call, faults>>

--------------------------------------------------------------------------------
(* archive_conversation: the session, the active table, the latest run and *)
(* the commit are four separate looks at the state.                        *)

ArchiveConversation(c, s, p) ==
    /\ ensure_serving
    /\ owner[s] # NoOne /\ s \notin archived
    /\ authorize(p, "ArchiveSession", OwnedSession(owner[s]))
    /\ Enter(c, "archiveCheck", s, NoRequest, 0, p)
    /\ UNCHANGED <<up, lifecycle, drain, durable, sessions, active, handle, tasks, dispatched,
                   results, faults>>

ArchiveCheck(c) ==
    /\ At(c, "archiveCheck")
    /\ IF call[c].s \in Occupied THEN Return(c) ELSE Goto(c, "archiveList")
    /\ UNCHANGED <<up, lifecycle, drain, durable, sessions, active, handle, tasks, dispatched,
                   results, faults>>

(* Only the latest run is looked at; a run in the active table is Running. *)
ArchiveList(c) ==
    LET s == call[c].s IN
    /\ At(c, "archiveList")
    /\ IF \/ latest[s] = NoRequest
          \/ active[s] # latest[s] /\ record[s][latest[s]].st \in Settled
       THEN Goto(c, "archiveCommit")
       ELSE Return(c)
    /\ UNCHANGED <<up, lifecycle, drain, durable, sessions, active, handle, tasks, dispatched,
                   results, faults>>

ArchiveCommit(c) ==
    LET s == call[c].s IN
    /\ At(c, "archiveCommit")
    /\ \/ /\ s \notin archived
          /\ archived' = archived \cup {s}
          /\ sessions' = sessions \ {s}
          /\ UNCHANGED faults
       \/ /\ s \in archived
          /\ UNCHANGED <<archived, sessions, faults>>
       \/ /\ Fails
          /\ archived' = archived \cup {s}
          /\ UNCHANGED sessions
       \/ /\ Fails
          /\ UNCHANGED <<archived, sessions>>
    /\ Return(c)
    /\ UNCHANGED <<up, lifecycle, drain, owner, record, latest, active, handle, tasks,
                   dispatched, results>>

--------------------------------------------------------------------------------
(* The background task of a run.  The workflow commits transitions against *)
(* the version it started from (see HarnessRun and DurableApproval); a     *)
(* task that resumed an outdated record therefore changes nothing.         *)

Become(t, pc) == tasks' = (tasks \ {t}) \cup {[t EXCEPT !.pc = pc]}

(* Where the task goes after its transition: a workflow that completed     *)
(* returns its result, one that was denied says so, and either returns an  *)
(* error when the audit of the last event fails.                           *)
Ends(st) == IF st \in Settled THEN {"result", "settle"} ELSE {"settle"}

(* Mutant: the transition is not compared with the version it came from.   *)
TaskCommitUnchecked(t, st) ==
    /\ up /\ t.pc = "work"
    /\ record[t.s][t.q].ver < MaxVersion
    /\ Write(t.s, t.q, st)
    /\ \E pc \in Ends(st) : Become(t, pc)
    /\ UNCHANGED <<up, lifecycle, drain, owner, archived, sessions, latest, active, handle,
                   dispatched, results, call, faults>>

(* The workflow journals what it did and ends: suspended, completed,       *)
(* failed, or with an effect nobody can tell the outcome of.               *)
TaskCommit(t, st) ==
    /\ up /\ t.pc = "work"
    /\ record[t.s][t.q].ver = t.seen
    /\ record[t.s][t.q].st \in {"Waiting", "Resumable"}
    /\ record[t.s][t.q].ver < MaxVersion
    /\ Write(t.s, t.q, st)
    /\ \E pc \in Ends(st) : Become(t, pc)
    /\ UNCHANGED <<up, lifecycle, drain, owner, archived, sessions, latest, active, handle,
                   dispatched, results, call, faults>>

(* The workflow ends without a transition of its own.                      *)
TaskYield(t) ==
    /\ up /\ t.pc = "work"
    /\ Become(t, "settle")
    /\ UNCHANGED <<up, lifecycle, drain, durable, sessions, active, handle, dispatched, results,
                   call, faults>>

(* A full table is emptied before a new result goes in.                    *)
store_result(t) ==
    LET r == <<t.s, t.q>> IN
    /\ up /\ t.pc = "result"
    /\ results' = (IF Cardinality(results) >= MaxResults /\ r \notin results
                   THEN {} ELSE results) \cup {r}
    /\ Become(t, "settle")
    /\ UNCHANGED <<up, lifecycle, drain, durable, sessions, active, handle, dispatched, call,
                   faults>>

(* The slot is removed by session, whoever holds it.                       *)
TaskSettle(t) ==
    /\ up /\ t.pc = "settle"
    /\ RemoveSlot(t.s)
    /\ tasks' = tasks \ {t}
    /\ UNCHANGED <<up, lifecycle, drain, durable, sessions, dispatched, results, call, faults>>

--------------------------------------------------------------------------------
(* drain, the end of the process and its restart.                          *)

DrainBegin ==
    /\ up /\ drain = "none"
    /\ lifecycle' = "Draining"
    /\ drain' = "collect"
    /\ UNCHANGED <<up, durable, sessions, active, handle, tasks, dispatched, results, call,
                   faults>>

DrainCollect ==
    /\ up /\ drain = "collect"
    /\ request_cancel(Sessions)
    /\ drain' = "wait"
    /\ UNCHANGED <<up, lifecycle, durable, sessions, active, tasks, dispatched, results, call,
                   faults>>

(* The tracker is closed: waiting ends when no task is left, or at the     *)
(* deadline.                                                               *)
DrainWait ==
    /\ up /\ drain = "wait"
    /\ \/ tasks = {} /\ drain' = "tally" /\ UNCHANGED faults
       \/ tasks # {} /\ drain' = "failed" /\ Fails
    /\ UNCHANGED <<up, lifecycle, durable, sessions, active, handle, tasks, dispatched, results,
                   call>>

DrainTally ==
    /\ up /\ drain = "tally"
    /\ drain' = IF Occupied = {} THEN "ok" ELSE "failed"
    /\ UNCHANGED <<up, lifecycle, durable, sessions, active, handle, tasks, dispatched, results,
                   call, faults>>

Reset ==
    /\ lifecycle' = "Serving"
    /\ drain' = "none"
    /\ sessions' = {}
    /\ active' = [s \in Sessions |-> NoRequest]
    /\ handle' = [s \in Sessions |-> "none"]
    /\ tasks' = {}
    /\ results' = {}
    /\ call' = [c \in Callers |-> Idle]

(* The server stops once the drain has reported and no handler is left.    *)
Exit ==
    /\ up /\ drain \in {"ok", "failed"}
    /\ \A c \in Callers : call[c].pc = "idle"
    /\ up' = FALSE
    /\ Reset
    /\ UNCHANGED <<durable, dispatched, faults>>

Crash ==
    /\ up /\ Fails
    /\ up' = FALSE
    /\ Reset
    /\ UNCHANGED <<durable, dispatched>>

(* AgentService::new and discover_runs, which knows the sessions with runs.*)
Restart ==
    /\ ~up
    /\ up' = TRUE
    /\ sessions' = {s \in Sessions : latest[s] # NoRequest}
    /\ UNCHANGED <<lifecycle, drain, durable, active, handle, tasks, dispatched, results, call,
                   faults>>

(* The client goes away: the handler is dropped where it awaits and its    *)
(* slot stays.  The commit it was waiting for still happens, or does not.  *)
(* Nothing is awaited between claim and spawn of a resume, nor between the *)
(* lifecycle check and the spawn of a start.                               *)
Disconnect(c) ==
    /\ up /\ Fails
    /\ call[c].pc \notin {"idle", "spawn", "resumeSpawn"}
    /\ call[c].pc = "check" => ~ensure_serving
    /\ \/ UNCHANGED <<record, latest>>
       \/ /\ call[c].pc = "begin"
          /\ \E st \in {"Manual", "Resumable"} : Begin(call[c].s, call[c].q, st)
    /\ \/ UNCHANGED owner
       \/ call[c].pc = "store" /\ owner' = [owner EXCEPT ![call[c].s] = call[c].p]
    /\ \/ UNCHANGED archived
       \/ call[c].pc = "archiveCommit" /\ archived' = archived \cup {call[c].s}
    /\ Return(c)
    /\ UNCHANGED <<up, lifecycle, drain, sessions, active, handle, tasks, dispatched, results>>

--------------------------------------------------------------------------------

Handler(c) ==
    \/ CreateStore(c)
    \/ StartClaim(c) \/ StartTitle(c) \/ StartFind(c) \/ StartBegin(c) \/ StartAudit(c)
    \/ StartMark(c) \/ StartCheck(c) \/ StartSpawn(c)
    \/ ResumeClaim(c) \/ ResumeSpawn(c)
    \/ ArchiveCheck(c) \/ ArchiveList(c) \/ ArchiveCommit(c)

Arrival ==
    \E c \in Callers, p \in Connected, s \in Sessions :
        \/ CreateSession(c, s, p)
        \/ ArchiveConversation(c, s, p)
        \/ \E q \in Requests : <<s, q>> \in Offered /\ StartRun(c, s, q, p)
        \/ \E q \in Requests : ResumeRun(c, s, q, p)

Owner == \E p \in Connected, s \in Sessions, q \in Requests :
             AbortWaiting(s, q, p) \/ cancel_active_run(s, q, p)

TaskStep(s) ==
    \E t \in tasks :
        /\ t.s = s
        /\ \/ \E st \in Outcomes : TaskCommit(t, st)
           \/ TaskYield(t) \/ store_result(t) \/ TaskSettle(t)

DrainStep == DrainBegin \/ DrainCollect \/ DrainWait \/ DrainTally

Next ==
    \/ \E c \in Callers : Handler(c)
    \/ Arrival
    \/ Owner
    \/ \E s \in Sessions : TaskStep(s)
    \/ DrainStep
    \/ Exit
    \/ Crash
    \/ Restart
    \/ \E c \in Callers : Disconnect(c)

Spec == Init /\ [][Next]_vars

--------------------------------------------------------------------------------

Holds(c, s) == call[c].pc \in HoldingPCs /\ call[c].s = s

(* A slot has at most one owner, the handler that claimed it or the task   *)
(* that handler spawned, and it names the run that owner works on: slots   *)
(* are removed by session id alone, so a second owner would have its slot  *)
(* removed under it and a third run could start beside it.                 *)
OneOwner ==
    \A s \in Sessions :
        /\ \A c \in Callers : Holds(c, s) => active[s] = call[c].q
        /\ \A t \in tasks : t.s = s => active[s] = t.q
        /\ \A c, d \in Callers : Holds(c, s) /\ Holds(d, s) => c = d
        /\ \A t, u \in tasks : t.s = s /\ u.s = s => t = u
        /\ \A c \in Callers, t \in tasks : ~(Holds(c, s) /\ t.s = s)

(* Once the drain has collected the handles, every task in flight and      *)
(* every task spawned afterwards has been asked to cancel.                 *)
DrainCancelsAll ==
    drain \in {"wait", "tally", "ok", "failed"} =>
        \A t \in tasks : handle[t.s] = "cancelled"

(* A resume that read the record before another resume, an abort or the    *)
(* first execution finished it never changes what they made durable.       *)
FinishedForever ==
    [][\A s \in Sessions, q \in Requests :
           record[s][q].st \in Settled => record'[s][q] = record[s][q]]_vars

Supervisor == INSTANCE RunSupervisor WITH holder <- active, quiesced <- drain = "ok"

(* The service supervises runs as RunSupervisor promises: one active run   *)
(* per session, the global limit, at most one dispatch per run for ever,   *)
(* and silence after a successful drain.                                   *)
ImplementsSupervisor == Supervisor!Spec

Orphaned(s) ==
    /\ \A c \in Callers : ~Holds(c, s)
    /\ \A t \in tasks : t.s # s

(* A slot without an owner blocks its session, counts against the limit    *)
(* and makes every later drain fail: only a failing audit or a disconnect  *)
(* may leave one, never an ordering of handlers, tasks and the drain.      *)
OrphanedOnlyByFault ==
    \A s \in Sessions : active[s] # NoRequest /\ Orphaned(s) => faults > 0

(* A client disconnect never cancels a run (README.md): when the handler   *)
(* of a start is dropped and the run it began is on record, someone is     *)
(* left to execute it.                                                     *)
DisconnectKeepsRun ==
    [][\A c \in Callers : Disconnect(c) =>
           \A s \in Sessions :
               active'[s] # NoRequest /\ record'[s][active'[s]].st = "Resumable"
                   => ~Orphaned(s)']_vars

================================================================================
