--------------------------- MODULE AgentServiceProofs --------------------------
(***************************************************************************)
(* Proofs about the service, for any sessions, requests, callers and       *)
(* limits.  The invariant says who owns a slot of the active table, what   *)
(* its cancellation handle is worth at each point of a handler, and that a *)
(* run whose start is not finished was never dispatched.                   *)
(***************************************************************************)
EXTENDS AgentService, TLAPS

PCs ==
    HoldingPCs \cup {"idle", "store", "claim", "resumeClaim",
                     "archiveCheck", "archiveList", "archiveCommit"}

RunPCs == HoldingPCs \cup {"claim", "resumeClaim"}

Calls ==
    [pc : PCs, s : Sessions \cup {NoOne}, q : Requests \cup {NoRequest}, seen : Nat,
     p : People \cup {NoOne}]

Tasks == [s : Sessions, q : Requests, seen : Nat, pc : {"work", "result", "settle"}]

Records == [st : Stored \cup {"Absent"}, ver : Nat]

(* A handler past its first step has a session, one of a run a request.    *)
WellFormed(r) ==
    /\ r.pc # "idle" => r.s \in Sessions
    /\ r.pc \in RunPCs => r.q \in Requests

Shape ==
    /\ active \in [Sessions -> Requests \cup {NoRequest}]
    /\ handle \in [Sessions -> {"none", "live", "cancelled"}]
    /\ record \in [Sessions -> [Requests -> Records]]
    /\ dispatched \in [Sessions -> [Requests -> Nat]]
    /\ tasks \in SUBSET Tasks
    /\ call \in [Callers -> Calls]
    /\ \A c \in Callers : WellFormed(call[c])
    /\ faults \in Nat

(* The handle is published before the spawn.                               *)
Published ==
    /\ \A c \in Callers :
           call[c].pc \in {"check", "spawn", "resumeSpawn"} => handle[call[c].s] # "none"
    /\ \A t \in tasks : handle[t.s] # "none"

Collected == {"wait", "tally", "ok", "failed"}

(* A drain stops admission first, then cancels, and succeeds when empty.   *)
Draining ==
    /\ drain # "none" => lifecycle # "Serving"
    /\ drain \in Collected =>
           /\ \A t \in tasks : handle[t.s] = "cancelled"
           /\ \A c \in Callers :
                  call[c].pc \in {"spawn", "resumeSpawn"} => handle[call[c].s] = "cancelled"
    /\ drain = "ok" => \A s \in Sessions : active[s] = NoRequest

(* What is not on record, or is being started, was not dispatched.         *)
Fresh ==
    /\ \A s \in Sessions, q \in Requests : record[s][q].st = "Absent" => dispatched[s][q] = 0
    /\ \A c \in Callers :
           call[c].pc \in {"audit", "mark", "check", "spawn"} =>
               /\ dispatched[call[c].s][call[c].q] = 0
               /\ record[call[c].s][call[c].q].st # "Absent"

ServiceInv ==
    Shape /\ OneOwner /\ Published /\ Draining /\ Fresh /\ OrphanedOnlyByFault

--------------------------------------------------------------------------------
(* Facts about the steps of handlers and tasks.                            *)

LEMMA Constants ==
    /\ NoRequest \notin Requests
    /\ \A p \in Connected : p.id \in People
  BY ServiceAssumption DEF Principals

LEMMA IdleCall == Idle \in Calls /\ Idle.pc = "idle" /\ WellFormed(Idle)
  BY DEF Idle, Calls, PCs, WellFormed, RunPCs, HoldingPCs, StartPCs

(* A new value of one handler.                                             *)
LEMMA CallSet ==
    ASSUME call \in [Callers -> Calls], NEW c \in Callers, NEW r \in Calls,
           call' = [call EXCEPT ![c] = r]
    PROVE  /\ call' \in [Callers -> Calls]
           /\ call'[c] = r
           /\ \A d \in Callers : d # c => call'[d] = call[d]
  OBVIOUS

LEMMA GotoSets ==
    ASSUME Shape, NEW c \in Callers, NEW pc \in PCs, Goto(c, pc)
    PROVE  /\ call' \in [Callers -> Calls]
           /\ call'[c].pc = pc /\ call'[c].s = call[c].s /\ call'[c].q = call[c].q
           /\ call'[c].seen = call[c].seen
           /\ \A d \in Callers : d # c => call'[d] = call[d]
<1>1. call[c] \in Calls /\ call \in [Callers -> Calls]
  BY DEF Shape
<1> DEFINE r == [call[c] EXCEPT !.pc = pc]
<1>2. /\ r \in Calls /\ r.pc = pc /\ r.s = call[c].s /\ r.q = call[c].q
      /\ r.seen = call[c].seen
  BY <1>1 DEF Calls
<1>3. call' = [call EXCEPT ![c] = r]
  BY DEF Goto
<1> HIDE DEF r
<1> QED
  BY <1>1, <1>2, <1>3, CallSet

LEMMA ReturnSets ==
    ASSUME Shape, NEW c \in Callers, Return(c)
    PROVE  /\ call' \in [Callers -> Calls]
           /\ call'[c] = Idle
           /\ \A d \in Callers : d # c => call'[d] = call[d]
<1>1. call \in [Callers -> Calls] /\ call' = [call EXCEPT ![c] = Idle]
  BY DEF Shape, Return
<1> QED
  BY <1>1, CallSet, IdleCall

(* A slot that is inserted or removed.                                     *)
LEMMA SlotSets ==
    ASSUME Shape, NEW s \in Sessions, NEW q \in Requests \cup {NoRequest},
           NEW h \in {"none", "live", "cancelled"}, Insert(s, q, h)
    PROVE  /\ active' \in [Sessions -> Requests \cup {NoRequest}]
           /\ handle' \in [Sessions -> {"none", "live", "cancelled"}]
           /\ active'[s] = q /\ handle'[s] = h
           /\ \A r \in Sessions : r # s => active'[r] = active[r] /\ handle'[r] = handle[r]
  BY DEF Shape, Insert

LEMMA RecordSets ==
    ASSUME Shape, NEW s \in Sessions, NEW q \in Requests, NEW st \in Stored, Write(s, q, st)
    PROVE  /\ record' \in [Sessions -> [Requests -> Records]]
           /\ record'[s][q].st = st
           /\ \A r \in Sessions, p \in Requests :
                  r # s \/ p # q => record'[r][p] = record[r][p]
<1>1. record \in [Sessions -> [Requests -> Records]]
  BY DEF Shape
<1> DEFINE x == [st |-> st, ver |-> record[s][q].ver + 1]
<1>2. x \in Records /\ x.st = st
  BY <1>1 DEF Records
<1>3. record' = [record EXCEPT ![s] = [record[s] EXCEPT ![q] = x]]
  BY DEF Write
<1> HIDE DEF x
<1>4. record[s] \in [Requests -> Records]
  BY <1>1
<1>5. [record[s] EXCEPT ![q] = x] \in [Requests -> Records]
  BY <1>2, <1>4
<1> QED
  BY <1>1, <1>2, <1>3, <1>4, <1>5

(* A record is never taken back.                                           *)
RecordKept ==
    /\ record' \in [Sessions -> [Requests -> Records]]
    /\ \A s \in Sessions, q \in Requests :
           record'[s][q].st = "Absent" => record[s][q].st = "Absent"

LEMMA WriteKeeps ==
    ASSUME Shape, NEW s \in Sessions, NEW q \in Requests, NEW st \in Stored, Write(s, q, st)
    PROVE  RecordKept
<1>1. st # "Absent"
  BY DEF Stored
<1> QED
  BY <1>1, RecordSets DEF RecordKept

LEMMA UnchangedKeeps ==
    ASSUME Shape, UNCHANGED record
    PROVE  RecordKept
  BY DEF Shape, RecordKept

--------------------------------------------------------------------------------
(* Handlers that hold no slot, give theirs up, lose it or go on with it.   *)

FaultsGrow == faults' \in Nat /\ faults <= faults'

(* A handler that has begun its run has it on record.                      *)
LEMMA FreshKept ==
    ASSUME Shape, Fresh, RecordKept, UNCHANGED dispatched,
           \A d \in Callers : call'[d].pc \in {"audit", "mark", "check", "spawn"} =>
               \/ call'[d] = call[d]
               \/ /\ dispatched[call'[d].s][call'[d].q] = 0
                  /\ record'[call'[d].s][call'[d].q].st # "Absent"
    PROVE  Fresh'
<1>1. \A d \in Callers : call[d].pc \in {"audit", "mark", "check", "spawn"} =>
                            call[d].s \in Sessions /\ call[d].q \in Requests
  BY DEF Shape, WellFormed, RunPCs, HoldingPCs, StartPCs
<1>2. \A s \in Sessions, q \in Requests : record'[s][q].st = "Absent" => dispatched'[s][q] = 0
  BY DEF Fresh, RecordKept
<1>3. ASSUME NEW d \in Callers, call'[d].pc \in {"audit", "mark", "check", "spawn"}
      PROVE  /\ dispatched'[call'[d].s][call'[d].q] = 0
             /\ record'[call'[d].s][call'[d].q].st # "Absent"
  <2>1. CASE call'[d] = call[d]
    BY <1>1, <1>3, <2>1 DEF Fresh, RecordKept
  <2>2. CASE call'[d] # call[d]
    BY <1>3, <2>2
  <2> QED
    BY <2>1, <2>2
<1> QED
  BY <1>2, <1>3 DEF Fresh

LEMMA QuietStep ==
    ASSUME ServiceInv, NEW c \in Callers, RecordKept, FaultsGrow,
           UNCHANGED <<lifecycle, drain, active, handle, tasks, dispatched>>,
           call' \in [Callers -> Calls], WellFormed(call'[c]),
           \A d \in Callers : d # c => call'[d] = call[d],
           call[c].pc \notin HoldingPCs, call'[c].pc \notin HoldingPCs
    PROVE  ServiceInv'
<1>0. Shape /\ OneOwner /\ Published /\ Draining /\ Fresh /\ OrphanedOnlyByFault
  BY DEF ServiceInv
<1>1. Shape'
  BY <1>0 DEF Shape, RecordKept, FaultsGrow
<1>2. \A d \in Callers : call'[d].pc \in HoldingPCs => d # c /\ call'[d] = call[d]
  OBVIOUS
<1>3. \A d \in Callers, s \in Sessions : Holds(d, s)' <=> Holds(d, s)
  BY <1>2 DEF Holds
<1>4. OneOwner'
  BY <1>0, <1>2, <1>3 DEF OneOwner, Holds
<1>5. \A d \in Callers : call'[d].pc \in {"audit", "mark", "check", "spawn", "resumeSpawn"} =>
                            call'[d] = call[d]
  BY <1>2 DEF HoldingPCs, StartPCs
<1>6. Published'
  BY <1>0, <1>5 DEF Published
<1>7. Draining'
  BY <1>0, <1>5 DEF Draining
<1>8. Fresh'
  BY <1>0, <1>5, FreshKept
<1>9. OrphanedOnlyByFault'
  BY <1>0, <1>3 DEF OrphanedOnlyByFault, Orphaned, FaultsGrow, Shape
<1> QED
  BY <1>1, <1>4, <1>6, <1>7, <1>8, <1>9 DEF ServiceInv

(* The holder of a slot is alone with it.                                  *)
LEMMA Alone ==
    ASSUME ServiceInv, NEW c \in Callers, call[c].pc \in HoldingPCs
    PROVE  /\ call[c].s \in Sessions /\ call[c].q \in Requests
           /\ active[call[c].s] = call[c].q /\ drain # "ok"
           /\ \A d \in Callers : d # c /\ call[d].pc \in HoldingPCs => call[d].s # call[c].s
           /\ \A t \in tasks : t.s # call[c].s
<1>0. Shape /\ OneOwner /\ Draining
  BY DEF ServiceInv
<1>1. call[c].s \in Sessions /\ call[c].q \in Requests
  BY <1>0 DEF Shape, WellFormed, RunPCs, HoldingPCs, StartPCs
<1>2. Holds(c, call[c].s)
  BY DEF Holds
<1>3. active[call[c].s] = call[c].q
  BY <1>0, <1>1, <1>2 DEF OneOwner
<1>4. drain # "ok"
  BY <1>0, <1>1, <1>3, Constants DEF Draining
<1>5. \A d \in Callers : d # c /\ call[d].pc \in HoldingPCs => call[d].s # call[c].s
  BY <1>0, <1>1, <1>2 DEF OneOwner, Holds
<1>6. \A t \in tasks : t.s # call[c].s
  BY <1>0, <1>1, <1>2 DEF OneOwner
<1> QED
  BY <1>1, <1>3, <1>4, <1>5, <1>6

LEMMA LeaveStep ==
    ASSUME ServiceInv, NEW c \in Callers, call[c].pc \in HoldingPCs,
           RemoveSlot(call[c].s), Return(c), RecordKept, FaultsGrow,
           UNCHANGED <<lifecycle, drain, tasks, dispatched>>
    PROVE  ServiceInv'
<1> DEFINE s == call[c].s
<1>0. Shape /\ OneOwner /\ Published /\ Draining /\ Fresh /\ OrphanedOnlyByFault
  BY DEF ServiceInv
<1>1. /\ s \in Sessions
      /\ \A d \in Callers : d # c /\ call[d].pc \in HoldingPCs => call[d].s # s
      /\ \A t \in tasks : t.s # s
  BY Alone
<1>2. /\ active' \in [Sessions -> Requests \cup {NoRequest}]
      /\ handle' \in [Sessions -> {"none", "live", "cancelled"}]
      /\ active'[s] = NoRequest
      /\ \A r \in Sessions : r # s => active'[r] = active[r] /\ handle'[r] = handle[r]
  <2>1. Insert(s, NoRequest, "none") /\ NoRequest \in Requests \cup {NoRequest}
    BY DEF RemoveSlot
  <2>2. "none" \in {"none", "live", "cancelled"}
    OBVIOUS
  <2> QED
    BY <1>0, <1>1, <2>1, <2>2, SlotSets
<1>3. /\ call' \in [Callers -> Calls] /\ call'[c] = Idle
      /\ \A d \in Callers : d # c => call'[d] = call[d]
  BY <1>0, ReturnSets
<1>4. "idle" \notin HoldingPCs
  BY DEF HoldingPCs, StartPCs
<1>5. \A d \in Callers : call'[d].pc \in HoldingPCs =>
                            d # c /\ call'[d] = call[d] /\ call[d].s # s
  BY <1>1, <1>3, <1>4, IdleCall
<1>6. \A d \in Callers, r \in Sessions : Holds(d, r)' <=> Holds(d, r) /\ r # s
  BY <1>1, <1>3, <1>4, <1>5, IdleCall DEF Holds
<1>7. Shape'
  BY <1>0, <1>2, <1>3, IdleCall, Zenon DEF Shape, RecordKept, FaultsGrow
<1>8. OneOwner'
  BY <1>0, <1>1, <1>2, <1>5, <1>6 DEF OneOwner, Holds
<1>9. \A d \in Callers : call'[d].pc \in {"audit", "mark", "check", "spawn", "resumeSpawn"} =>
                            /\ call'[d] = call[d] /\ call[d].s # s /\ call[d].s \in Sessions
  BY <1>0, <1>5 DEF HoldingPCs, StartPCs, Shape, WellFormed
<1>10. \A t \in tasks : t.s \in Sessions /\ t.s # s
  BY <1>0, <1>1 DEF Shape, Tasks
<1>11. Published'
  BY <1>0, <1>2, <1>9, <1>10 DEF Published
<1>12. Draining'
  BY <1>0, <1>2, <1>9, <1>10 DEF Draining
<1>13. Fresh'
  BY <1>0, <1>9, FreshKept
<1>14. OrphanedOnlyByFault'
  BY <1>0, <1>2, <1>6, SMTT(30) DEF OrphanedOnlyByFault, Orphaned, FaultsGrow, Shape
<1> QED
  BY <1>7, <1>8, <1>11, <1>12, <1>13, <1>14 DEF ServiceInv

LEMMA AbandonStep ==
    ASSUME ServiceInv, NEW c \in Callers, call[c].pc \in HoldingPCs,
           Return(c), RecordKept, faults' \in Nat, faults' > 0,
           UNCHANGED <<lifecycle, drain, active, handle, tasks, dispatched>>
    PROVE  ServiceInv'
<1>0. Shape /\ OneOwner /\ Published /\ Draining /\ Fresh
  BY DEF ServiceInv
<1>3. /\ call' \in [Callers -> Calls] /\ call'[c] = Idle
      /\ \A d \in Callers : d # c => call'[d] = call[d]
  BY <1>0, ReturnSets
<1>4. "idle" \notin HoldingPCs
  BY DEF HoldingPCs, StartPCs
<1>5. \A d \in Callers : call'[d].pc \in HoldingPCs => d # c /\ call'[d] = call[d]
  BY <1>3, <1>4, IdleCall
<1>6. \A d \in Callers, r \in Sessions : Holds(d, r)' => Holds(d, r)
  BY <1>3, <1>5 DEF Holds
<1>7. Shape'
  BY <1>0, <1>3, IdleCall DEF Shape, RecordKept
<1>8. OneOwner'
  BY <1>0, <1>5, <1>6 DEF OneOwner, Holds
<1>9. \A d \in Callers : call'[d].pc \in {"audit", "mark", "check", "spawn", "resumeSpawn"} =>
                            call'[d] = call[d]
  BY <1>5 DEF HoldingPCs, StartPCs
<1>11. Published'
  BY <1>0, <1>9 DEF Published
<1>12. Draining'
  BY <1>0, <1>9 DEF Draining
<1>13. Fresh'
  BY <1>0, <1>9, FreshKept
<1>14. OrphanedOnlyByFault'
  BY Zenon DEF OrphanedOnlyByFault
<1> QED
  BY <1>7, <1>8, <1>11, <1>12, <1>13, <1>14 DEF ServiceInv

(* A handler goes on and keeps its slot.                                   *)
LEMMA AdvanceStep ==
    ASSUME ServiceInv, NEW c \in Callers, call[c].pc \in HoldingPCs,
           NEW pc \in {"find", "begin", "audit", "mark"}, Goto(c, pc),
           pc \in {"audit", "mark"} => /\ dispatched[call[c].s][call[c].q] = 0
                                      /\ record'[call[c].s][call[c].q].st # "Absent",
           RecordKept,
           UNCHANGED <<lifecycle, drain, active, handle, tasks, dispatched, faults>>
    PROVE  ServiceInv'
<1>0. Shape /\ OneOwner /\ Published /\ Draining /\ Fresh /\ OrphanedOnlyByFault
  BY DEF ServiceInv
<1>1. pc \in PCs /\ pc \in HoldingPCs /\ pc # "idle"
  BY DEF PCs, HoldingPCs, StartPCs
<1>2. /\ call' \in [Callers -> Calls]
      /\ call'[c].pc = pc /\ call'[c].s = call[c].s /\ call'[c].q = call[c].q
      /\ \A d \in Callers : d # c => call'[d] = call[d]
  BY <1>0, <1>1, GotoSets
<1>3. \A d \in Callers : call'[d].s = call[d].s /\ call'[d].q = call[d].q
  BY <1>2
<1>4. \A d \in Callers, r \in Sessions : Holds(d, r)' <=> Holds(d, r)
  BY <1>1, <1>2, <1>3 DEF Holds
<1>5. Shape'
  <2>1. WellFormed(call'[c])
    BY <1>2, Alone, Zenon DEF WellFormed
  <2> QED
    BY <1>0, <1>2, <2>1 DEF Shape, RecordKept
<1>6. OneOwner'
  BY <1>0, <1>3, <1>4 DEF OneOwner
<1>7. \A d \in Callers : call'[d].pc \in {"check", "spawn", "resumeSpawn"} =>
                            call'[d] = call[d]
  BY <1>2, Zenon
<1>8. Published'
  BY <1>0, <1>7 DEF Published
<1>9. Draining'
  BY <1>0, <1>7 DEF Draining
<1>10. Fresh'
  BY <1>0, <1>2, FreshKept, Zenon
<1>11. OrphanedOnlyByFault'
  BY <1>0, <1>4 DEF OrphanedOnlyByFault, Orphaned
<1> QED
  BY <1>5, <1>6, <1>8, <1>9, <1>10, <1>11 DEF ServiceInv

(* A free slot is claimed, by a start or by a resume.                      *)
LEMMA ClaimStep ==
    ASSUME ServiceInv, NEW c \in Callers, call[c].pc \in {"claim", "resumeClaim"},
           ensure_serving, call[c].s \notin Occupied,
           NEW pc, NEW h,
           \/ pc = "title" /\ h = "none"
           \/ pc = "resumeSpawn" /\ h = "live",
           Insert(call[c].s, call[c].q, h), Goto(c, pc),
           UNCHANGED <<lifecycle, drain, record, tasks, dispatched, faults>>
    PROVE  ServiceInv'
<1> DEFINE s == call[c].s
           q == call[c].q
<1>0. Shape /\ OneOwner /\ Published /\ Draining /\ Fresh /\ OrphanedOnlyByFault
  BY Zenon DEF ServiceInv
<1>1. s \in Sessions /\ q \in Requests
  BY <1>0 DEF Shape, WellFormed, RunPCs
<1>2. active[s] = NoRequest /\ drain = "none"
  BY <1>0, <1>1 DEF Occupied, Draining, ensure_serving
<1>3. /\ \A d \in Callers : ~Holds(d, s)
      /\ \A t \in tasks : t.s # s
  <2>1. ASSUME NEW d \in Callers, Holds(d, s) PROVE FALSE
    <3>1. active[s] = call[d].q /\ call[d].q \in Requests
      BY <1>0, <1>1, <2>1, ZenonT(60) DEF OneOwner, Holds, Shape, WellFormed, RunPCs
    <3> QED
      BY <1>2, <3>1, Constants, Zenon
  <2>2. ASSUME NEW t \in tasks, t.s = s PROVE FALSE
    <3>1. active[s] = t.q /\ t.q \in Requests
      BY <1>0, <1>1, <2>2 DEF OneOwner, Shape, Tasks
    <3> QED
      BY <1>2, <3>1, Constants, Zenon
  <2> QED
    BY <2>1, <2>2, Zenon
<1>4. pc \in PCs /\ pc \in HoldingPCs /\ pc # "idle" /\ h \in {"none", "live", "cancelled"}
  BY DEF PCs, HoldingPCs, StartPCs
<1>5. /\ call' \in [Callers -> Calls]
      /\ call'[c].pc = pc /\ call'[c].s = s /\ call'[c].q = q
      /\ \A d \in Callers : d # c => call'[d] = call[d]
  BY <1>0, <1>4, GotoSets
<1>6. /\ active' \in [Sessions -> Requests \cup {NoRequest}]
      /\ handle' \in [Sessions -> {"none", "live", "cancelled"}]
      /\ active'[s] = q /\ handle'[s] = h
      /\ \A r \in Sessions : r # s => active'[r] = active[r] /\ handle'[r] = handle[r]
  <2>1. q \in Requests \cup {NoRequest}
    BY <1>1
  <2> QED
    BY <1>0, <1>1, <1>4, <2>1, SlotSets
<1>7. call[c].pc \notin HoldingPCs
  BY DEF HoldingPCs, StartPCs
<1>8. \A d \in Callers, r \in Sessions : Holds(d, r)' <=> Holds(d, r) \/ (d = c /\ r = s)
  BY <1>4, <1>5, <1>7 DEF Holds
<1>9. Shape'
  <2>1. WellFormed(call'[c])
    BY <1>1, <1>5 DEF WellFormed
  <2> QED
    BY <1>0, <1>5, <1>6, <2>1 DEF Shape
<1>10. OneOwner'
  <2> SUFFICES ASSUME NEW r \in Sessions
               PROVE  /\ \A d \in Callers : Holds(d, r)' => active'[r] = call'[d].q
                      /\ \A t \in tasks' : t.s = r => active'[r] = t.q
                      /\ \A d, e \in Callers : Holds(d, r)' /\ Holds(e, r)' => d = e
                      /\ \A t, u \in tasks' : t.s = r /\ u.s = r => t = u
                      /\ \A d \in Callers, t \in tasks' : ~(Holds(d, r)' /\ t.s = r)
    BY Zenon DEF OneOwner, Holds
  <2>1. CASE r = s
    BY <1>3, <1>5, <1>6, <1>8, <2>1, ZenonT(60)
  <2>2. CASE r # s
    <3>1. \A d \in Callers : Holds(d, r)' => Holds(d, r) /\ call'[d] = call[d]
      BY <1>5, <1>7, <1>8, <2>2, Zenon DEF Holds
    <3>2. active'[r] = active[r] /\ tasks' = tasks
      BY <1>6, <2>2, Zenon
    <3>3. /\ \A d \in Callers : Holds(d, r) => active[r] = call[d].q
          /\ \A t \in tasks : t.s = r => active[r] = t.q
          /\ \A d, e \in Callers : Holds(d, r) /\ Holds(e, r) => d = e
          /\ \A t, u \in tasks : t.s = r /\ u.s = r => t = u
          /\ \A d \in Callers, t \in tasks : ~(Holds(d, r) /\ t.s = r)
      BY <1>0, Zenon DEF OneOwner
    <3> QED
      BY <3>1, <3>2, <3>3, Zenon
  <2> QED
    BY <2>1, <2>2, Zenon
<1>11. \A d \in Callers : d # c /\ call[d].pc \in {"check", "spawn", "resumeSpawn"} =>
                              call[d].s \in Sessions /\ call[d].s # s
  BY <1>0, <1>3, Zenon DEF Shape, WellFormed, Holds, HoldingPCs, StartPCs
<1>12. \A t \in tasks : t.s \in Sessions /\ t.s # s
  BY <1>0, <1>3, Zenon DEF Shape, Tasks
<1>13. Published'
  <2>1. \A t \in tasks' : handle'[t.s] # "none"
    BY <1>0, <1>6, <1>12 DEF Published
  <2>2. ASSUME NEW d \in Callers, call'[d].pc \in {"check", "spawn", "resumeSpawn"}
        PROVE  handle'[call'[d].s] # "none"
    <3>1. CASE d = c
      BY <1>5, <1>6, <2>2, <3>1, Zenon
    <3>2. CASE d # c
      BY <1>0, <1>5, <1>6, <1>11, <2>2, <3>2, Zenon DEF Published
    <3> QED
      BY <3>1, <3>2
  <2> QED
    BY <2>1, <2>2, Zenon DEF Published
<1>14. Draining'
  BY <1>0, <1>2, Zenon DEF Draining, Collected
<1>15. Fresh'
  BY <1>0, <1>5, Zenon DEF Fresh
<1>16. OrphanedOnlyByFault'
  <2> SUFFICES ASSUME NEW r \in Sessions, active'[r] # NoRequest, Orphaned(r)'
               PROVE  faults' > 0
    BY Zenon DEF OrphanedOnlyByFault
  <2>1. \A d \in Callers : ~Holds(d, r)'
    BY Zenon DEF Orphaned
  <2>2. r # s
    BY <1>1, <1>8, <2>1
  <2>3. Orphaned(r) /\ active[r] # NoRequest
    BY <1>6, <1>8, <2>1, <2>2, Zenon DEF Orphaned
  <2> QED
    BY <1>0, <2>3 DEF OrphanedOnlyByFault
<1> QED
  BY <1>9, <1>10, <1>13, <1>14, <1>15, <1>16, Zenon DEF ServiceInv

(* The handle is published, and cancelled at once when a drain has begun.  *)
LEMMA MarkStep ==
    ASSUME ServiceInv, NEW c \in Callers, NEW pc \in {"check", "spawn"},
           Goto(c, pc),
           UNCHANGED <<lifecycle, drain, record, active, tasks, dispatched, faults>>,
           call[c].pc \in {"mark", "check"},
           handle' \in [Sessions -> {"none", "live", "cancelled"}],
           handle'[call[c].s] # "none",
           pc = "spawn" /\ drain \in Collected => handle'[call[c].s] = "cancelled",
           \A r \in Sessions : r # call[c].s => handle'[r] = handle[r]
    PROVE  ServiceInv'
<1> DEFINE s == call[c].s
<1>0. Shape /\ OneOwner /\ Published /\ Draining /\ Fresh /\ OrphanedOnlyByFault
  BY DEF ServiceInv
<1>1. call[c].pc \in HoldingPCs /\ pc \in PCs /\ pc \in HoldingPCs /\ pc # "idle"
  BY Zenon DEF PCs, HoldingPCs, StartPCs
<1>2. /\ call[c].s \in Sessions /\ call[c].q \in Requests
      /\ \A d \in Callers : d # c /\ call[d].pc \in HoldingPCs => call[d].s # s
      /\ \A t \in tasks : t.s # s
  BY <1>1, Alone
<1>3. /\ call' \in [Callers -> Calls]
      /\ call'[c].pc = pc /\ call'[c].s = s /\ call'[c].q = call[c].q
      /\ \A d \in Callers : d # c => call'[d] = call[d]
  BY <1>0, <1>1, GotoSets
<1>4. \A d \in Callers : call'[d].s = call[d].s /\ call'[d].q = call[d].q
  BY <1>3, Zenon
<1>5. \A d \in Callers, r \in Sessions : Holds(d, r)' <=> Holds(d, r)
  BY <1>1, <1>3, <1>4 DEF Holds
<1>6. Shape'
  <2>1. WellFormed(call'[c])
    BY <1>2, <1>3, Zenon DEF WellFormed
  <2> QED
    BY <1>0, <1>3, <2>1 DEF Shape
<1>7. OneOwner'
  BY <1>0, <1>4, <1>5, SMTT(30) DEF OneOwner
<1>8. \A d \in Callers : d # c /\ call[d].pc \in {"check", "spawn", "resumeSpawn"} =>
                             call[d].s \in Sessions /\ call[d].s # s
  BY <1>0, <1>2, Zenon DEF Shape, WellFormed, HoldingPCs, StartPCs
<1>9. \A t \in tasks : t.s \in Sessions /\ t.s # s
  BY <1>0, <1>2, Zenon DEF Shape, Tasks
<1>10. Published'
  BY <1>0, <1>3, <1>8, <1>9 DEF Published
<1>11. Draining'
  <2>1. ASSUME drain \in Collected PROVE \A t \in tasks' : handle'[t.s] = "cancelled"
    BY <1>0, <1>9, <2>1, Zenon DEF Draining
  <2>2. ASSUME drain \in Collected, NEW d \in Callers, call'[d].pc \in {"spawn", "resumeSpawn"}
        PROVE  handle'[call'[d].s] = "cancelled"
    <3>1. CASE d = c
      BY <1>3, <2>2, <3>1, Zenon
    <3>2. CASE d # c
      BY <1>0, <1>3, <1>8, <2>2, <3>2, Zenon DEF Draining
    <3> QED
      BY <3>1, <3>2
  <2> QED
    BY <1>0, <2>1, <2>2 DEF Draining
<1>12. Fresh'
  BY <1>0, <1>3, SMTT(30) DEF Fresh
<1>13. OrphanedOnlyByFault'
  BY <1>0, <1>5, Zenon DEF OrphanedOnlyByFault, Orphaned
<1> QED
  BY <1>6, <1>7, <1>10, <1>11, <1>12, <1>13, Zenon DEF ServiceInv

(* The slot passes from the handler to the task it spawns.                 *)
LEMMA SpawnStep ==
    ASSUME ServiceInv, NEW c \in Callers, call[c].pc \in {"spawn", "resumeSpawn"},
           NEW n \in Nat, tasks' = tasks \cup {Task(c, n)}, Return(c),
           dispatched' \in [Sessions -> [Requests -> Nat]],
           \A r \in Sessions, p \in Requests :
               r # call[c].s \/ p # call[c].q => dispatched'[r][p] = dispatched[r][p],
           UNCHANGED dispatched \/ call[c].pc = "spawn",
           UNCHANGED <<lifecycle, drain, record, active, handle, faults>>
    PROVE  ServiceInv'
<1> DEFINE s == call[c].s
           t0 == Task(c, n)
<1>0. Shape /\ OneOwner /\ Published /\ Draining /\ Fresh /\ OrphanedOnlyByFault
  BY DEF ServiceInv
<1>1. call[c].pc \in HoldingPCs
  BY Zenon DEF HoldingPCs, StartPCs
<1>2. /\ call[c].s \in Sessions /\ call[c].q \in Requests /\ active[s] = call[c].q
      /\ \A d \in Callers : d # c /\ call[d].pc \in HoldingPCs => call[d].s # s
      /\ \A t \in tasks : t.s # s
  BY <1>1, Alone, Zenon
<1>3. /\ call' \in [Callers -> Calls] /\ call'[c] = Idle
      /\ \A d \in Callers : d # c => call'[d] = call[d]
  BY <1>0, ReturnSets
<1>4. "idle" \notin HoldingPCs
  BY Zenon DEF HoldingPCs, StartPCs
<1>5. \A d \in Callers : call'[d].pc \in HoldingPCs =>
                            d # c /\ call'[d] = call[d] /\ call[d].s # s
  BY <1>2, <1>3, <1>4, IdleCall, Zenon
<1>6. \A d \in Callers, r \in Sessions : Holds(d, r)' <=> Holds(d, r) /\ r # s
  BY <1>2, <1>3, <1>4, <1>5, IdleCall, Zenon DEF Holds
<1>7. t0 \in Tasks /\ t0.s = s /\ t0.q = call[c].q
  BY <1>2, Zenon DEF Task, Tasks
<1> HIDE DEF t0
<1>8. tasks' = tasks \cup {t0}
  BY Zenon DEF t0
<1>9. Shape'
  BY <1>0, <1>3, <1>7, <1>8, IdleCall, Zenon DEF Shape
<1>10. OneOwner'
  <2> SUFFICES ASSUME NEW r \in Sessions
               PROVE  /\ \A d \in Callers : Holds(d, r)' => active'[r] = call'[d].q
                      /\ \A t \in tasks' : t.s = r => active'[r] = t.q
                      /\ \A d, e \in Callers : Holds(d, r)' /\ Holds(e, r)' => d = e
                      /\ \A t, u \in tasks' : t.s = r /\ u.s = r => t = u
                      /\ \A d \in Callers, t \in tasks' : ~(Holds(d, r)' /\ t.s = r)
    BY Zenon DEF OneOwner, Holds
  <2>1. CASE r = s
    BY <1>2, <1>6, <1>7, <1>8, <2>1, Zenon
  <2>2. CASE r # s
    <3>1. \A d \in Callers : Holds(d, r)' => Holds(d, r) /\ call'[d] = call[d]
      BY <1>5, <1>6, Zenon DEF Holds
    <3>2. \A t \in tasks' : t.s = r => t \in tasks
      BY <1>7, <1>8, <2>2
    <3> QED
      BY <1>0, <3>1, <3>2, SMTT(30) DEF OneOwner
  <2> QED
    BY <2>1, <2>2, Zenon
<1>11. \A d \in Callers : call'[d].pc \in {"audit", "mark", "check", "spawn", "resumeSpawn"} =>
                             /\ call'[d] = call[d] /\ call[d].s # s
                             /\ call[d].s \in Sessions /\ call[d].q \in Requests
  BY <1>0, <1>5, Zenon DEF HoldingPCs, StartPCs, Shape, WellFormed, RunPCs
<1>12. Published'
  BY <1>0, <1>7, <1>8, <1>11 DEF Published
<1>13. Draining'
  BY <1>0, <1>7, <1>8, <1>11 DEF Draining
<1>14. Fresh'
  <2>1. ASSUME NEW r \in Sessions, NEW p \in Requests, record[r][p].st = "Absent"
        PROVE  dispatched'[r][p] = 0
    BY <1>0, <2>1, ZenonT(60) DEF Fresh
  <2>2. ASSUME NEW d \in Callers, call'[d].pc \in {"audit", "mark", "check", "spawn"}
        PROVE  /\ dispatched'[call'[d].s][call'[d].q] = 0
               /\ record'[call'[d].s][call'[d].q].st # "Absent"
    BY <1>0, <1>11, <2>2, SMTT(30) DEF Fresh
  <2> QED
    BY <2>1, <2>2, Zenon DEF Fresh
<1>15. OrphanedOnlyByFault'
  <2> SUFFICES ASSUME NEW r \in Sessions, active'[r] # NoRequest, Orphaned(r)'
               PROVE  faults' > 0
    BY Zenon DEF OrphanedOnlyByFault
  <2>1. r # s
    BY <1>7, <1>8 DEF Orphaned
  <2>2. Orphaned(r)
    BY <1>6, <1>8, <2>1 DEF Orphaned
  <2> QED
    BY <1>0, <2>2 DEF OrphanedOnlyByFault
<1> QED
  BY <1>9, <1>10, <1>12, <1>13, <1>14, <1>15, Zenon DEF ServiceInv

--------------------------------------------------------------------------------
(* Tasks, the owner's commands, the drain and the end of the process.      *)

LEMMA BecomeStep ==
    ASSUME ServiceInv, NEW t \in tasks, NEW pc \in {"result", "settle"}, Become(t, pc),
           RecordKept,
           UNCHANGED <<lifecycle, drain, active, handle, dispatched, call, faults>>
    PROVE  ServiceInv'
<1> DEFINE u0 == [t EXCEPT !.pc = pc]
<1>0. Shape /\ OneOwner /\ Published /\ Draining /\ Fresh /\ OrphanedOnlyByFault
  BY DEF ServiceInv
<1>1. t \in Tasks
  BY <1>0 DEF Shape
<1>2. u0 \in Tasks /\ u0.s = t.s /\ u0.q = t.q /\ t.s \in Sessions
  BY <1>1 DEF Tasks
<1>3. tasks' = (tasks \ {t}) \cup {u0}
  BY DEF Become
<1> HIDE DEF u0
<1>4. \A u \in tasks' : u = u0 \/ (u \in tasks /\ u # t)
  BY <1>3
<1>5. Shape'
  BY <1>0, <1>2, <1>3 DEF Shape, RecordKept
<1>6. \A d \in Callers, r \in Sessions : Holds(d, r)' <=> Holds(d, r)
  BY DEF Holds
<1>7. OneOwner'
  <2> SUFFICES ASSUME NEW r \in Sessions
               PROVE  /\ \A d \in Callers : Holds(d, r)' => active'[r] = call'[d].q
                      /\ \A v \in tasks' : v.s = r => active'[r] = v.q
                      /\ \A d, e \in Callers : Holds(d, r)' /\ Holds(e, r)' => d = e
                      /\ \A v, w \in tasks' : v.s = r /\ w.s = r => v = w
                      /\ \A d \in Callers, v \in tasks' : ~(Holds(d, r)' /\ v.s = r)
    BY DEF OneOwner, Holds
  <2>1. \A d \in Callers : Holds(d, r)' => active'[r] = call'[d].q
    BY <1>0, <1>6, Zenon DEF OneOwner
  <2>2. \A v \in tasks' : v.s = r => active'[r] = v.q
    BY <1>0, <1>2, <1>4 DEF OneOwner
  <2>3. \A d, e \in Callers : Holds(d, r)' /\ Holds(e, r)' => d = e
    BY <1>0, <1>6 DEF OneOwner
  <2>4. \A v, w \in tasks' : v.s = r /\ w.s = r => v = w
    BY <1>0, <1>2, <1>4 DEF OneOwner
  <2>5. \A d \in Callers, v \in tasks' : ~(Holds(d, r)' /\ v.s = r)
    BY <1>0, <1>2, <1>4, <1>6 DEF OneOwner
  <2> QED
    BY <2>1, <2>2, <2>3, <2>4, <2>5, Zenon
<1>8. Published'
  BY <1>0, <1>2, <1>4, Zenon DEF Published
<1>9. Draining'
  BY <1>0, <1>2, <1>4, Zenon DEF Draining
<1>10. Fresh'
  BY <1>0, FreshKept, Zenon
<1>11. OrphanedOnlyByFault'
  <2>1. \A r \in Sessions : Orphaned(r)' => Orphaned(r)
    BY <1>2, <1>3, <1>6 DEF Orphaned
  <2> QED
    BY <1>0, <2>1 DEF OrphanedOnlyByFault
<1> QED
  BY <1>5, <1>7, <1>8, <1>9, <1>10, <1>11 DEF ServiceInv

LEMMA SettleStep ==
    ASSUME ServiceInv, NEW t \in tasks, TaskSettle(t)
    PROVE  ServiceInv' /\ drain # "ok" /\ t.s \in Sessions
<1> DEFINE s == t.s
<1>0. Shape /\ OneOwner /\ Published /\ Draining /\ Fresh /\ OrphanedOnlyByFault
  BY DEF ServiceInv
<1>1. s \in Sessions /\ t.q \in Requests
  BY <1>0 DEF Shape, Tasks
<1>2. /\ \A d \in Callers : ~Holds(d, s)
      /\ \A u \in tasks : u.s = s => u = t
      /\ active[s] = t.q
  BY <1>0, <1>1 DEF OneOwner
<1>3. /\ tasks' = tasks \ {t}
      /\ UNCHANGED <<lifecycle, drain, record, dispatched, call, faults>>
  BY DEF TaskSettle, durable
<1>4. /\ active' \in [Sessions -> Requests \cup {NoRequest}]
      /\ handle' \in [Sessions -> {"none", "live", "cancelled"}]
      /\ active'[s] = NoRequest
      /\ \A r \in Sessions : r # s => active'[r] = active[r] /\ handle'[r] = handle[r]
  <2>1. Insert(s, NoRequest, "none") /\ NoRequest \in Requests \cup {NoRequest}
    BY DEF TaskSettle, RemoveSlot
  <2>2. "none" \in {"none", "live", "cancelled"}
    OBVIOUS
  <2> QED
    BY <1>0, <1>1, <2>1, <2>2, SlotSets
<1>5. Shape'
  BY <1>0, <1>3, <1>4 DEF Shape
<1>6. \A d \in Callers, r \in Sessions : Holds(d, r)' <=> Holds(d, r)
  BY <1>3 DEF Holds
<1>7. \A u \in tasks' : u \in tasks /\ u.s # s /\ u.s \in Sessions
  BY <1>0, <1>2, <1>3 DEF Shape, Tasks
<1>8. OneOwner'
  <2> SUFFICES ASSUME NEW r \in Sessions
               PROVE  /\ \A d \in Callers : Holds(d, r)' => active'[r] = call'[d].q
                      /\ \A v \in tasks' : v.s = r => active'[r] = v.q
                      /\ \A d, e \in Callers : Holds(d, r)' /\ Holds(e, r)' => d = e
                      /\ \A v, w \in tasks' : v.s = r /\ w.s = r => v = w
                      /\ \A d \in Callers, v \in tasks' : ~(Holds(d, r)' /\ v.s = r)
    BY Zenon DEF OneOwner, Holds
  <2>1. CASE r = s
    BY <1>2, <1>6, <1>7, <2>1
  <2>2. CASE r # s
    BY <1>0, <1>3, <1>4, <1>6, <1>7, <2>2, ZenonT(60) DEF OneOwner
  <2> QED
    BY <2>1, <2>2, Zenon
<1>9. \A d \in Callers : call[d].pc \in {"check", "spawn", "resumeSpawn"} =>
                             call[d].s \in Sessions /\ call[d].s # s
  BY <1>0, <1>2, Zenon DEF Shape, WellFormed, Holds, HoldingPCs, StartPCs
<1>10. Published'
  BY <1>0, <1>3, <1>4, <1>7, <1>9 DEF Published
<1>11. Draining'
  BY <1>0, <1>3, <1>4, <1>7, <1>9, Zenon DEF Draining
<1>12. Fresh'
  BY <1>0, <1>3, UnchangedKeeps, FreshKept
<1>13. OrphanedOnlyByFault'
  <2>1. \A r \in Sessions : active'[r] # NoRequest /\ Orphaned(r)' =>
                               active[r] # NoRequest /\ Orphaned(r)
    BY <1>3, <1>4, <1>6, Zenon DEF Orphaned
  <2> QED
    BY <1>0, <1>3, <2>1, Zenon DEF OrphanedOnlyByFault
<1>14. drain # "ok"
  BY <1>0, <1>1, <1>2, Constants, Zenon DEF Draining
<1> QED
  BY <1>1, <1>5, <1>8, <1>10, <1>11, <1>12, <1>13, <1>14 DEF ServiceInv

(* Cancellation: handles that exist are set, no handle comes or goes.      *)
LEMMA CancelStep ==
    ASSUME ServiceInv, NEW S, request_cancel(S), NEW d0, drain' = d0,
           \/ d0 = drain
           \/ d0 = "wait" /\ drain # "none" /\ Sessions \subseteq S,
           UNCHANGED <<lifecycle, record, active, tasks, dispatched, call, faults>>
    PROVE  ServiceInv'
<1>0. Shape /\ OneOwner /\ Published /\ Draining /\ Fresh /\ OrphanedOnlyByFault
  BY DEF ServiceInv
<1>1. /\ handle' \in [Sessions -> {"none", "live", "cancelled"}]
      /\ \A s \in Sessions : /\ handle[s] # "none" => handle'[s] # "none"
                             /\ handle[s] = "cancelled" => handle'[s] = "cancelled"
                             /\ handle[s] # "none" /\ s \in S => handle'[s] = "cancelled"
  BY <1>0 DEF request_cancel, Shape
<1>2. Shape'
  BY <1>0, <1>1, Zenon DEF Shape
<1>3. OneOwner' /\ OrphanedOnlyByFault'
  BY <1>0, Zenon DEF OneOwner, OrphanedOnlyByFault, Orphaned, Holds
<1>4. /\ \A t \in tasks : t.s \in Sessions
      /\ \A c \in Callers : call[c].pc \in {"check", "spawn", "resumeSpawn"} =>
                               call[c].s \in Sessions
  BY <1>0 DEF Shape, Tasks, WellFormed
<1>5. Published'
  BY <1>0, <1>1, <1>4, Zenon DEF Published
<1>6. Draining'
  <2>1. CASE d0 = drain
    BY <1>0, <1>1, <1>4, <2>1 DEF Draining
  <2>2. CASE d0 = "wait" /\ drain # "none" /\ Sessions \subseteq S
    BY <1>0, <1>1, <1>4, <2>2, Zenon DEF Draining, Published
  <2> QED
    BY <2>1, <2>2
<1>7. Fresh'
  BY <1>0, Zenon DEF Fresh
<1> QED
  BY <1>2, <1>3, <1>5, <1>6, <1>7, Zenon DEF ServiceInv

(* The drain goes on, or nothing but the record, the faults or the process *)
(* changes.                                                                *)
LEMMA StillStep ==
    ASSUME ServiceInv, RecordKept, FaultsGrow,
           UNCHANGED <<active, handle, tasks, dispatched, call>>,
           drain' # "none" => lifecycle' # "Serving",
           drain' \in Collected => drain \in Collected,
           drain' = "ok" => drain = "ok" \/ Occupied = {}
    PROVE  ServiceInv'
<1>0. Shape /\ OneOwner /\ Published /\ Draining /\ Fresh /\ OrphanedOnlyByFault
  BY DEF ServiceInv
<1>1. Shape'
  BY <1>0 DEF Shape, RecordKept, FaultsGrow
<1>2. OneOwner'
  BY <1>0, ZenonT(60) DEF OneOwner, Holds
<1>3. OrphanedOnlyByFault'
  BY <1>0, SMTT(30) DEF OrphanedOnlyByFault, Orphaned, Holds, FaultsGrow, Shape
<1>4. Published'
  BY <1>0 DEF Published
<1>5. Draining'
  BY <1>0 DEF Draining, Occupied
<1>6. Fresh'
  BY <1>0, FreshKept
<1> QED
  BY <1>1, <1>2, <1>3, <1>4, <1>5, <1>6 DEF ServiceInv

LEMMA ResetStep ==
    ASSUME ServiceInv, Reset, FaultsGrow, UNCHANGED <<record, dispatched>>
    PROVE  ServiceInv'
<1>0. Shape /\ Fresh
  BY DEF ServiceInv
<1>1. /\ call' = [c \in Callers |-> Idle] /\ tasks' = {} /\ drain' = "none"
      /\ active' = [s \in Sessions |-> NoRequest]
      /\ handle' = [s \in Sessions |-> "none"]
  BY DEF Reset
<1>2. Shape'
  BY <1>0, <1>1, IdleCall DEF Shape, FaultsGrow
<1>3. \A c \in Callers, s \in Sessions : ~Holds(c, s)'
  BY <1>1, IdleCall DEF Holds, HoldingPCs, StartPCs
<1>4. OneOwner' /\ OrphanedOnlyByFault'
  BY <1>1, <1>3, Zenon DEF OneOwner, OrphanedOnlyByFault, Holds
<1>5. Published' /\ Draining'
  BY <1>1, IdleCall, Zenon DEF Published, Draining, Collected
<1>6. Fresh'
  BY <1>0, <1>1, IdleCall DEF Fresh
<1> QED
  BY <1>2, <1>4, <1>5, <1>6 DEF ServiceInv

--------------------------------------------------------------------------------
(* What the steps are for RunSupervisor.                                   *)

Maps == [Supervisor!Next]_(Supervisor!vars)

LEMMA MapsStutter ==
    ASSUME UNCHANGED <<active, dispatched>>, drain' = "ok" <=> drain = "ok"
    PROVE  Maps
  BY DEF Maps, Supervisor!vars

LEMMA MapsClaim ==
    ASSUME NEW s \in Sessions, NEW q \in Requests, NEW h, Insert(s, q, h), drain # "ok",
           s \notin Occupied, Cardinality(Occupied) < MaxActive,
           UNCHANGED <<dispatched, drain>>
    PROVE  Maps
<1>1. Occupied = Supervisor!Held
  BY DEF Occupied, Supervisor!Held
<1>2. Supervisor!Cardinality(Supervisor!Held) < MaxActive
  <2>1. \A S : Supervisor!Cardinality(S) = Cardinality(S)
    BY DEF Supervisor!Cardinality, Cardinality
  <2> QED
    BY <1>1, <2>1
<1>3. active[s] = NoRequest /\ active' = [active EXCEPT ![s] = q]
  BY DEF Occupied, Insert
<1>4. Supervisor!Claim(s, q)
  BY <1>2, <1>3, Zenon DEF Supervisor!Claim
<1> QED
  BY <1>4 DEF Maps, Supervisor!Next

LEMMA MapsRelease ==
    ASSUME NEW s \in Sessions, RemoveSlot(s), drain # "ok", UNCHANGED <<dispatched, drain>>
    PROVE  Maps
<1>1. Supervisor!Release(s)
  BY DEF Supervisor!Release, RemoveSlot, Insert
<1> QED
  BY <1>1 DEF Maps, Supervisor!Next

LEMMA MapsDispatch ==
    ASSUME NEW s \in Sessions, NEW q \in Requests, active[s] = q, drain # "ok",
           dispatched[s][q] = 0, dispatched' = [dispatched EXCEPT ![s][q] = 1],
           UNCHANGED <<active, drain>>
    PROVE  Maps
<1>1. Supervisor!Dispatch(s, q)
  BY DEF Supervisor!Dispatch
<1> QED
  BY <1>1 DEF Maps, Supervisor!Next

LEMMA MapsQuiesce ==
    ASSUME Occupied = {}, drain' = "ok", UNCHANGED <<active, dispatched>>
    PROVE  Maps
<1>1. Supervisor!Quiesce
  BY DEF Supervisor!Quiesce, Supervisor!Held, Occupied
<1> QED
  BY <1>1 DEF Maps, Supervisor!Next

LEMMA MapsExit ==
    ASSUME Reset, UNCHANGED dispatched
    PROVE  Maps
<1>1. Supervisor!Exit
  BY DEF Supervisor!Exit, Reset
<1> QED
  BY <1>1 DEF Maps, Supervisor!Next

--------------------------------------------------------------------------------
(* Every step keeps the invariant and is a step of RunSupervisor.          *)

LEMMA FailsGrow ==
    ASSUME Shape
    PROVE  /\ Fails => FaultsGrow /\ faults' > 0
           /\ UNCHANGED faults => FaultsGrow
  BY DEF Shape, Fails, FaultsGrow

(* A request that is let in.                                               *)
LEMMA EnterStep ==
    ASSUME ServiceInv, NEW c \in Callers, NEW pc, NEW s \in Sessions,
           NEW q \in Requests \cup {NoRequest}, NEW seen \in Nat, NEW p \in Connected,
           \/ pc \in {"store", "archiveCheck"}
           \/ pc \in {"claim", "resumeClaim"} /\ q \in Requests,
           Enter(c, pc, s, q, seen, p),
           UNCHANGED <<lifecycle, drain, record, active, handle, tasks, dispatched, faults>>
    PROVE  ServiceInv' /\ Maps
<1> DEFINE r == [pc |-> pc, s |-> s, q |-> q, seen |-> seen, p |-> p.id]
<1>0. Shape
  BY DEF ServiceInv
<1>1. r \in Calls /\ WellFormed(r) /\ r.pc \notin HoldingPCs
  BY Constants, Zenon DEF Calls, PCs, WellFormed, RunPCs, HoldingPCs, StartPCs
<1>2. call' = [call EXCEPT ![c] = r] /\ call[c].pc \notin HoldingPCs
  BY DEF Enter, HoldingPCs, StartPCs
<1> HIDE DEF r
<1>3. /\ call' \in [Callers -> Calls] /\ call'[c] = r
      /\ \A d \in Callers : d # c => call'[d] = call[d]
  BY <1>0, <1>1, <1>2, CallSet DEF Shape
<1>4. RecordKept /\ FaultsGrow
  BY <1>0, UnchangedKeeps, FailsGrow, Zenon
<1> QED
  BY <1>1, <1>2, <1>3, <1>4, QuietStep, MapsStutter

(* A handler without a slot that goes on or answers.                       *)
LEMMA UnslottedStep ==
    ASSUME ServiceInv, NEW c \in Callers, call[c].pc \notin HoldingPCs,
           \/ Return(c)
           \/ /\ Goto(c, "archiveList") \/ Goto(c, "archiveCommit")
              /\ call[c].pc # "idle",
           UNCHANGED faults \/ Fails,
           UNCHANGED <<lifecycle, drain, record, active, handle, tasks, dispatched>>
    PROVE  ServiceInv' /\ Maps
<1>0. Shape
  BY DEF ServiceInv
<1>1. RecordKept /\ FaultsGrow
  BY <1>0, UnchangedKeeps, FailsGrow, Zenon
<1>2. CASE Return(c)
  <2>1. /\ call' \in [Callers -> Calls] /\ call'[c] = Idle
        /\ \A d \in Callers : d # c => call'[d] = call[d]
    BY <1>0, <1>2, ReturnSets
  <2>2. WellFormed(Idle) /\ Idle.pc \notin HoldingPCs
    BY IdleCall, Zenon DEF HoldingPCs, StartPCs
  <2> QED
    BY <1>1, <2>1, <2>2, QuietStep, MapsStutter, Zenon
<1>3. ASSUME NEW pc \in {"archiveList", "archiveCommit"}, Goto(c, pc), call[c].pc # "idle"
      PROVE  ServiceInv' /\ Maps
  <2>1. pc \in PCs /\ pc \notin HoldingPCs /\ pc \notin RunPCs
    BY DEF PCs, HoldingPCs, StartPCs, RunPCs
  <2>2. /\ call' \in [Callers -> Calls]
        /\ call'[c].pc = pc /\ call'[c].s = call[c].s
        /\ \A d \in Callers : d # c => call'[d] = call[d]
    BY <1>0, <1>3, <2>1, GotoSets, Zenon
  <2>3. WellFormed(call'[c])
    BY <1>0, <1>3, <2>1, <2>2 DEF Shape, WellFormed
  <2> QED
    BY <1>1, <2>1, <2>2, <2>3, QuietStep, MapsStutter, Zenon
<1> QED
  BY <1>2, <1>3, Zenon

LEMMA HandlerStep ==
    ASSUME ServiceInv, NEW c \in Callers, Handler(c)
    PROVE  ServiceInv' /\ Maps
<1> USE DEF durable
<1>0. Shape /\ Fresh
  BY Zenon DEF ServiceInv
<1>f. (UNCHANGED faults => FaultsGrow) /\ (Fails => FaultsGrow /\ faults' > 0)
  BY <1>0, FailsGrow
<1>r. UNCHANGED record => RecordKept
  BY <1>0, UnchangedKeeps
<1>h. StartPCs \subseteq HoldingPCs /\ "resumeSpawn" \in HoldingPCs
  BY DEF HoldingPCs
<1>s. {"title", "find", "begin", "audit", "mark", "check", "spawn"} = StartPCs
  BY DEF StartPCs
(* What a handler that leaves its slot has to show.                        *)
<1>l. ASSUME call[c].pc \in HoldingPCs, RemoveSlot(call[c].s), Return(c), RecordKept,
             FaultsGrow, UNCHANGED <<lifecycle, drain, tasks, dispatched>>
      PROVE  ServiceInv' /\ Maps
  <2>1. call[c].s \in Sessions /\ drain # "ok"
    BY <1>l, Alone, Zenon
  <2> QED
    BY <1>l, <2>1, LeaveStep, MapsRelease
<1>1. CASE CreateStore(c) \/ ArchiveCheck(c) \/ ArchiveList(c) \/ ArchiveCommit(c)
  <2>1. call[c].pc \notin HoldingPCs /\ call[c].pc # "idle"
    BY <1>1, Zenon DEF CreateStore, ArchiveCheck, ArchiveList, ArchiveCommit, At, HoldingPCs, StartPCs
  <2>2. /\ Return(c) \/ Goto(c, "archiveList") \/ Goto(c, "archiveCommit")
        /\ UNCHANGED faults \/ Fails
        /\ UNCHANGED <<lifecycle, drain, record, active, handle, tasks, dispatched>>
    BY <1>1, Zenon DEF CreateStore, ArchiveCheck, ArchiveList, ArchiveCommit
  <2> QED
    BY <2>1, <2>2, UnslottedStep, Zenon
<1>2. CASE StartClaim(c) \/ ResumeClaim(c)
  <2>1. /\ call[c].pc \in {"claim", "resumeClaim"}
        /\ UNCHANGED <<lifecycle, drain, record, tasks, dispatched, faults>>
    BY <1>2, Zenon DEF StartClaim, ResumeClaim, At
  <2>2. call[c].pc \notin HoldingPCs /\ call[c].s \in Sessions /\ call[c].q \in Requests
    BY <1>0, <2>1 DEF Shape, WellFormed, RunPCs, HoldingPCs, StartPCs
  <2>3. CASE Return(c) /\ UNCHANGED <<active, handle>>
    BY <2>1, <2>2, <2>3, UnslottedStep, Zenon
  <2>4. ASSUME NEW pc, NEW h, Insert(call[c].s, call[c].q, h), Goto(c, pc),
               (pc = "title" /\ h = "none") \/ (pc = "resumeSpawn" /\ h = "live"),
               ensure_serving, call[c].s \notin Occupied, Cardinality(Occupied) < MaxActive
        PROVE  ServiceInv' /\ Maps
    <3>1. drain # "ok"
      BY <2>4, Zenon DEF ServiceInv, Draining, ensure_serving
    <3> QED
      BY <2>1, <2>2, <2>4, <3>1, ClaimStep, MapsClaim, Zenon
  <2>5. CASE /\ StartClaim(c) /\ ensure_serving /\ call[c].s \notin Occupied
             /\ Cardinality(Occupied) < MaxActive
    <3>1. Insert(call[c].s, call[c].q, "none") /\ Goto(c, "title")
      BY <2>5 DEF StartClaim
    <3> QED
      BY <2>4, <2>5, <3>1, Zenon
  <2>6. CASE /\ ResumeClaim(c) /\ ensure_serving /\ call[c].s \notin Occupied
             /\ Cardinality(Occupied) < MaxActive
    <3>1. Insert(call[c].s, call[c].q, "live") /\ Goto(c, "resumeSpawn")
      BY <2>6, Zenon DEF ResumeClaim
    <3> QED
      BY <2>4, <2>6, <3>1
  <2>7. CASE ~(/\ ensure_serving /\ call[c].s \notin Occupied
               /\ Cardinality(Occupied) < MaxActive)
    BY <1>2, <2>3, <2>7, Zenon DEF StartClaim, ResumeClaim
  <2> QED
    BY <1>2, <2>5, <2>6, <2>7
<1>3. CASE StartTitle(c)
  <2>1. call[c].pc \in HoldingPCs /\ UNCHANGED <<lifecycle, drain, record, tasks, dispatched>>
    BY <1>3, <1>h, <1>s, Zenon DEF StartTitle, At
  <2>2. CASE Goto(c, "find") /\ UNCHANGED <<active, handle, faults>>
    BY <1>r, <2>1, <2>2, AdvanceStep, MapsStutter, Zenon
  <2>3. CASE RemoveSlot(call[c].s) /\ Return(c) /\ (UNCHANGED faults \/ Fails)
    BY <1>f, <1>r, <1>l, <2>1, <2>3
  <2> QED
    BY <1>3, <2>2, <2>3 DEF StartTitle
<1>4. CASE StartFind(c)
  <2>1. call[c].pc \in HoldingPCs /\ UNCHANGED <<lifecycle, drain, record, tasks, dispatched>>
    BY <1>4, <1>h, <1>s, Zenon DEF StartFind, At
  <2>2. CASE Goto(c, "begin") /\ UNCHANGED <<active, handle, faults>>
    BY <1>r, <2>1, <2>2, AdvanceStep, MapsStutter, Zenon
  <2>3. CASE RemoveSlot(call[c].s) /\ Return(c) /\ (UNCHANGED faults \/ Fails)
    BY <1>f, <1>r, <1>l, <2>1, <2>3, Zenon
  <2> QED
    BY <1>4, <2>2, <2>3, Zenon DEF StartFind
<1>5. CASE StartBegin(c)
  <2>1. call[c].pc \in HoldingPCs /\ UNCHANGED <<lifecycle, drain, tasks, dispatched>>
    BY <1>5, <1>h, <1>s, Zenon DEF StartBegin, At
  <2>2. call[c].s \in Sessions /\ call[c].q \in Requests
    BY <2>1, Alone, Zenon
  <2>3. "Resumable" \in Stored /\ "Manual" \in Stored /\ "Absent" \notin Stored
    BY Zenon DEF Stored
  <2>4. CASE /\ Begin(call[c].s, call[c].q, "Resumable") /\ Goto(c, "audit")
             /\ UNCHANGED <<active, handle, faults>>
    <3>1. RecordKept
      BY <1>0, <2>2, <2>3, <2>4, WriteKeeps, Zenon DEF Begin
    <3>2. record'[call[c].s][call[c].q].st # "Absent"
      BY <1>0, <2>2, <2>3, <2>4, RecordSets, ZenonT(60) DEF Begin
    <3>3. dispatched[call[c].s][call[c].q] = 0
      BY <1>0, <2>2, <2>4, Zenon DEF Begin, Fresh
    <3> QED
      BY <2>1, <2>4, <3>1, <3>2, <3>3, AdvanceStep, MapsStutter, Zenon
  <2>5. CASE /\ Fails /\ RemoveSlot(call[c].s) /\ Return(c)
             /\ Begin(call[c].s, call[c].q, "Manual") \/ UNCHANGED <<record, latest>>
    <3>1. RecordKept
      BY <1>0, <1>r, <2>2, <2>3, <2>5, WriteKeeps, Zenon DEF Begin
    <3> QED
      BY <1>f, <1>l, <2>1, <2>5, <3>1, Zenon
  <2> QED
    BY <1>5, <2>4, <2>5 DEF StartBegin
<1>6. CASE StartAudit(c)
  <2>1. /\ call[c].pc = "audit" /\ call[c].pc \in HoldingPCs
        /\ UNCHANGED <<lifecycle, drain, record, active, handle, tasks, dispatched>>
    BY <1>6, <1>h, <1>s, Zenon DEF StartAudit, At
  <2>2. CASE Goto(c, "mark") /\ UNCHANGED faults
    <3>1. /\ dispatched[call[c].s][call[c].q] = 0
          /\ record'[call[c].s][call[c].q].st # "Absent"
      BY <1>0, <2>1, Zenon DEF Fresh
    <3> QED
      BY <1>r, <2>1, <2>2, <3>1, AdvanceStep, MapsStutter, Zenon
  <2>3. CASE Return(c) /\ Fails
    BY <1>f, <1>r, <2>1, <2>3, AbandonStep, MapsStutter, Zenon DEF FaultsGrow
  <2> QED
    BY <1>6, <2>2, <2>3 DEF StartAudit
<1>7. CASE StartMark(c)
  <2>1. /\ call[c].pc = "mark" /\ call[c].pc \in HoldingPCs /\ Goto(c, "check")
        /\ handle' = [handle EXCEPT ![call[c].s] = "live"]
        /\ UNCHANGED <<lifecycle, drain, record, active, tasks, dispatched, faults>>
    BY <1>7, <1>h, <1>s DEF StartMark, At
  <2>2. call[c].s \in Sessions
    BY <2>1, Alone, Zenon
  <2>3. /\ handle' \in [Sessions -> {"none", "live", "cancelled"}]
        /\ handle'[call[c].s] # "none"
        /\ \A r \in Sessions : r # call[c].s => handle'[r] = handle[r]
    BY <1>0, <2>1, <2>2, Zenon DEF Shape
  <2> QED
    BY <2>1, <2>3, MarkStep, MapsStutter, Zenon
<1>8. CASE StartCheck(c)
  <2>1. /\ call[c].pc = "check" /\ call[c].pc \in HoldingPCs /\ Goto(c, "spawn")
        /\ request_cancel(IF ensure_serving THEN {} ELSE {call[c].s})
        /\ UNCHANGED <<lifecycle, drain, record, active, tasks, dispatched, faults>>
    BY <1>8, <1>h, <1>s, Zenon DEF StartCheck, At
  <2>2. call[c].s \in Sessions /\ handle[call[c].s] # "none"
    BY <2>1, Alone, Zenon DEF ServiceInv, Published
  <2>3. drain \in Collected => ~ensure_serving
    BY DEF ServiceInv, Draining, Collected, ensure_serving
  <2>4. /\ handle' \in [Sessions -> {"none", "live", "cancelled"}]
        /\ handle'[call[c].s] # "none"
        /\ drain \in Collected => handle'[call[c].s] = "cancelled"
        /\ \A r \in Sessions : r # call[c].s => handle'[r] = handle[r]
    BY <1>0, <2>1, <2>2, <2>3, Zenon DEF Shape, request_cancel
  <2> QED
    BY <2>1, <2>4, MarkStep, MapsStutter, Zenon
<1>9. CASE StartSpawn(c)
  <2> DEFINE s == call[c].s
             q == call[c].q
  <2>1. /\ call[c].pc = "spawn" /\ call[c].pc \in HoldingPCs /\ Return(c)
        /\ tasks' = tasks \cup {Task(c, 1)}
        /\ dispatched' = [dispatched EXCEPT ![s][q] = @ + 1]
        /\ UNCHANGED <<lifecycle, drain, record, active, handle, faults>>
    BY <1>9, <1>h, <1>s, Zenon DEF StartSpawn, At
  <2>2. s \in Sessions /\ q \in Requests /\ active[s] = q /\ drain # "ok"
    BY <2>1, Alone, Zenon
  <2>3. dispatched[s][q] = 0 /\ dispatched \in [Sessions -> [Requests -> Nat]]
    BY <1>0, <2>1, Zenon DEF Fresh, Shape
  <2>n. dispatched[s][q] + 1 = 1
    BY <2>3
  <2>4. dispatched' = [dispatched EXCEPT ![s][q] = 1]
    BY <2>1, <2>n, Zenon
  <2>5. /\ dispatched' \in [Sessions -> [Requests -> Nat]]
        /\ \A r \in Sessions, p \in Requests :
               r # s \/ p # q => dispatched'[r][p] = dispatched[r][p]
    BY <2>2, <2>3, <2>4, Zenon
  <2>6. 1 \in Nat
    OBVIOUS
  <2> QED
    BY <2>1, <2>2, <2>3, <2>4, <2>5, <2>6, SpawnStep, MapsDispatch, Zenon
<1>10. CASE ResumeSpawn(c)
  <2>1. /\ call[c].pc = "resumeSpawn" /\ Return(c)
        /\ tasks' = tasks \cup {Task(c, call[c].seen)}
        /\ UNCHANGED <<lifecycle, drain, record, active, handle, dispatched, faults>>
    BY <1>10, Zenon DEF ResumeSpawn, At
  <2>2. call[c].seen \in Nat /\ dispatched' \in [Sessions -> [Requests -> Nat]]
    BY <1>0, <2>1 DEF Shape, Calls
  <2> QED
    BY <2>1, <2>2, SpawnStep, MapsStutter, Zenon
<1> QED
  BY <1>1, <1>2, <1>3, <1>4, <1>5, <1>6, <1>7, <1>8, <1>9, <1>10 DEF Handler

LEMMA ArrivalStep ==
    ASSUME ServiceInv, Arrival
    PROVE  ServiceInv' /\ Maps
<1> USE DEF durable
<1>0. Shape
  BY DEF ServiceInv
<1>1. PICK c \in Callers, p \in Connected, s \in Sessions :
          \/ CreateSession(c, s, p)
          \/ ArchiveConversation(c, s, p)
          \/ \E q \in Requests : <<s, q>> \in Offered /\ StartRun(c, s, q, p)
          \/ \E q \in Requests : ResumeRun(c, s, q, p)
  BY Zenon DEF Arrival
<1>2. NoRequest \in Requests \cup {NoRequest} /\ 0 \in Nat
  OBVIOUS
<1>3. CASE CreateSession(c, s, p)
  <2>1. /\ Enter(c, "store", s, NoRequest, 0, p)
        /\ UNCHANGED <<lifecycle, drain, record, active, handle, tasks, dispatched, faults>>
    BY <1>3, Zenon DEF CreateSession
  <2> QED
    BY <1>2, <2>1, EnterStep
<1>4. CASE ArchiveConversation(c, s, p)
  <2>1. /\ Enter(c, "archiveCheck", s, NoRequest, 0, p)
        /\ UNCHANGED <<lifecycle, drain, record, active, handle, tasks, dispatched, faults>>
    BY <1>4 DEF ArchiveConversation
  <2> QED
    BY <1>2, <2>1, EnterStep
<1>5. ASSUME NEW q \in Requests, StartRun(c, s, q, p) PROVE ServiceInv' /\ Maps
  <2>1. /\ Enter(c, "claim", s, q, 0, p) /\ q \in Requests \cup {NoRequest}
        /\ UNCHANGED <<lifecycle, drain, record, active, handle, tasks, dispatched, faults>>
    BY <1>5, Zenon DEF StartRun
  <2> QED
    BY <1>2, <2>1, EnterStep
<1>6. ASSUME NEW q \in Requests, ResumeRun(c, s, q, p) PROVE ServiceInv' /\ Maps
  <2>1. /\ Enter(c, "resumeClaim", s, q, record[s][q].ver, p)
        /\ q \in Requests \cup {NoRequest} /\ record[s][q].ver \in Nat
        /\ UNCHANGED <<lifecycle, drain, record, active, handle, tasks, dispatched, faults>>
    BY <1>0, <1>6 DEF ResumeRun, Shape, Records
  <2> QED
    BY <2>1, EnterStep
<1> QED
  BY <1>1, <1>3, <1>4, <1>5, <1>6, Zenon

LEMMA TasksStep ==
    ASSUME ServiceInv, NEW t \in tasks,
           \/ \E st \in Outcomes : TaskCommit(t, st)
           \/ TaskYield(t) \/ store_result(t) \/ TaskSettle(t)
    PROVE  ServiceInv' /\ Maps
<1> USE DEF durable
<1>0. Shape /\ t.s \in Sessions /\ t.q \in Requests
  BY DEF ServiceInv, Shape, Tasks
<1>1. ASSUME NEW st \in Outcomes, TaskCommit(t, st) PROVE ServiceInv' /\ Maps
  <2>1. st \in Stored /\ Write(t.s, t.q, st)
    BY <1>1, ServiceAssumption, Zenon DEF TaskCommit
  <2>2. RecordKept
    BY <1>0, <2>1, WriteKeeps
  <2>3. PICK pc \in Ends(st) : Become(t, pc)
    BY <1>1, Zenon DEF TaskCommit
  <2>4. pc \in {"result", "settle"}
    BY <2>3 DEF Ends
  <2>5. UNCHANGED <<lifecycle, drain, active, handle, dispatched, call, faults>>
    BY <1>1, Zenon DEF TaskCommit
  <2> QED
    BY <2>2, <2>3, <2>4, <2>5, BecomeStep, MapsStutter
<1>2. CASE TaskYield(t) \/ store_result(t)
  <2>1. /\ Become(t, "settle")
        /\ UNCHANGED <<lifecycle, drain, record, active, handle, dispatched, call, faults>>
    BY <1>2, Zenon DEF TaskYield, store_result
  <2>2. RecordKept
    BY <1>0, <2>1, UnchangedKeeps
  <2> QED
    BY <2>1, <2>2, BecomeStep, MapsStutter
<1>3. CASE TaskSettle(t)
  <2>1. ServiceInv' /\ drain # "ok"
    BY <1>3, SettleStep
  <2>2. RemoveSlot(t.s) /\ UNCHANGED <<dispatched, drain>>
    BY <1>3 DEF TaskSettle
  <2> QED
    BY <1>0, <2>1, <2>2, MapsRelease
<1> QED
  BY <1>1, <1>2, <1>3, Zenon

LEMMA DrainsStep ==
    ASSUME ServiceInv, DrainStep
    PROVE  ServiceInv' /\ Maps
<1> USE DEF durable
<1>0. Shape /\ Draining
  BY DEF ServiceInv
<1>1. CASE DrainBegin
  <2>1. /\ drain = "none" /\ drain' = "collect" /\ lifecycle' = "Draining"
        /\ UNCHANGED <<active, handle, tasks, dispatched, call, record, faults>>
    BY <1>1 DEF DrainBegin
  <2>2. RecordKept /\ FaultsGrow
    BY <1>0, <2>1, UnchangedKeeps, FailsGrow
  <2>3. "collect" \notin Collected
    BY DEF Collected
  <2> QED
    BY <2>1, <2>2, <2>3, StillStep, MapsStutter
<1>2. CASE DrainCollect
  <2>1. /\ drain = "collect" /\ drain' = "wait" /\ request_cancel(Sessions)
        /\ UNCHANGED <<lifecycle, record, active, tasks, dispatched, call, faults>>
    BY <1>2 DEF DrainCollect
  <2> QED
    BY <2>1, CancelStep, MapsStutter
<1>3. CASE DrainWait
  <2>1. /\ drain = "wait" /\ drain' \in {"tally", "failed"} /\ (UNCHANGED faults \/ Fails)
        /\ UNCHANGED <<lifecycle, active, handle, tasks, dispatched, call, record>>
    BY <1>3 DEF DrainWait
  <2>2. RecordKept /\ FaultsGrow
    BY <1>0, <2>1, UnchangedKeeps, FailsGrow, Zenon
  <2>3. drain \in Collected /\ lifecycle' # "Serving"
    BY <1>0, <2>1 DEF Collected, Draining
  <2> QED
    BY <2>1, <2>2, <2>3, StillStep, MapsStutter
<1>4. CASE DrainTally
  <2>1. /\ drain = "tally" /\ drain' = (IF Occupied = {} THEN "ok" ELSE "failed")
        /\ UNCHANGED <<lifecycle, active, handle, tasks, dispatched, call, record, faults>>
    BY <1>4 DEF DrainTally
  <2>2. RecordKept /\ FaultsGrow
    BY <1>0, <2>1, UnchangedKeeps, FailsGrow
  <2>3. drain \in Collected /\ lifecycle' # "Serving"
    BY <1>0, <2>1 DEF Collected, Draining
  <2>4. ServiceInv'
    BY <2>1, <2>2, <2>3, StillStep, Zenon
  <2>5. CASE Occupied = {}
    BY <2>1, <2>4, <2>5, MapsQuiesce
  <2>6. CASE Occupied # {}
    BY <2>1, <2>4, <2>6, MapsStutter
  <2> QED
    BY <2>5, <2>6
<1> QED
  BY <1>1, <1>2, <1>3, <1>4 DEF DrainStep

LEMMA DisconnectStep ==
    ASSUME ServiceInv, NEW c \in Callers, Disconnect(c)
    PROVE  ServiceInv' /\ Maps
<1>0. Shape
  BY DEF ServiceInv
<1>1. /\ Fails /\ Return(c)
      /\ UNCHANGED <<lifecycle, drain, active, handle, tasks, dispatched>>
      /\ \/ UNCHANGED record
         \/ /\ call[c].pc = "begin"
            /\ \E st \in {"Manual", "Resumable"} : Begin(call[c].s, call[c].q, st)
  BY Zenon DEF Disconnect
<1>2. CASE call[c].pc \in HoldingPCs
  <2>1. call[c].s \in Sessions /\ call[c].q \in Requests
    BY <1>2, Alone, Zenon
  <2>2. {"Manual", "Resumable"} \subseteq Stored
    BY Zenon DEF Stored
  <2>3. RecordKept
    BY <1>0, <1>1, <2>1, <2>2, WriteKeeps, UnchangedKeeps, Zenon DEF Begin
  <2>4. faults' \in Nat /\ faults' > 0
    BY <1>0, <1>1, FailsGrow DEF FaultsGrow
  <2> QED
    BY <1>1, <1>2, <2>3, <2>4, AbandonStep, MapsStutter, Zenon
<1>3. CASE call[c].pc \notin HoldingPCs
  <2>1. UNCHANGED record
    BY <1>1, <1>3 DEF HoldingPCs, StartPCs
  <2> QED
    BY <1>1, <1>3, <2>1, UnslottedStep, Zenon
<1> QED
  BY <1>2, <1>3

LEMMA NextStep ==
    ASSUME ServiceInv, [Next]_vars
    PROVE  ServiceInv' /\ Maps
<1> USE DEF durable
<1>0. Shape /\ Draining
  BY Zenon DEF ServiceInv
<1>1. ASSUME NEW p, NEW s \in Sessions, NEW q \in Requests, AbortWaiting(s, q, p)
      PROVE  ServiceInv' /\ Maps
  <2>1. /\ Write(s, q, "Failed") /\ "Failed" \in Stored
        /\ UNCHANGED <<lifecycle, drain, active, handle, tasks, dispatched, call, faults>>
    BY <1>1, Zenon DEF AbortWaiting, memory, Stored
  <2>2. RecordKept /\ FaultsGrow
    BY <1>0, <2>1, WriteKeeps, FailsGrow, Zenon
  <2> QED
    BY <1>0, <2>1, <2>2, StillStep, MapsStutter, Zenon DEF Draining
<1>2. ASSUME NEW p, NEW s \in Sessions, NEW q \in Requests, cancel_active_run(s, q, p)
      PROVE  ServiceInv' /\ Maps
  <2>1. /\ request_cancel({s})
        /\ UNCHANGED <<lifecycle, drain, record, active, tasks, dispatched, call, faults>>
    BY <1>2 DEF cancel_active_run
  <2> QED
    BY <2>1, CancelStep, MapsStutter
<1>3. CASE Exit \/ Crash
  <2>1. Reset /\ UNCHANGED <<record, dispatched>> /\ (UNCHANGED faults \/ Fails)
    BY <1>3 DEF Exit, Crash
  <2>2. FaultsGrow
    BY <1>0, <2>1, FailsGrow
  <2> QED
    BY <2>1, <2>2, ResetStep, MapsExit, Zenon
<1>4. CASE Restart \/ UNCHANGED vars
  <2>1. UNCHANGED <<lifecycle, drain, record, active, handle, tasks, dispatched, call, faults>>
    BY <1>4 DEF Restart, vars
  <2>2. RecordKept /\ FaultsGrow
    BY <1>0, <2>1, UnchangedKeeps, FailsGrow
  <2> QED
    BY <1>0, <2>1, <2>2, StillStep, MapsStutter, Zenon DEF Draining
<1> QED
  BY <1>1, <1>2, <1>3, <1>4, HandlerStep, ArrivalStep, TasksStep, DrainsStep, DisconnectStep
  DEF Next, Owner, TaskStep

--------------------------------------------------------------------------------
LEMMA Initially ==
    ASSUME Init
    PROVE  ServiceInv /\ Supervisor!Init
<1>1. Shape
  BY IdleCall DEF Init, Shape, Records
<1>2. \A c \in Callers : call[c].pc = "idle" /\ "idle" \notin HoldingPCs
  BY IdleCall, Zenon DEF Init, HoldingPCs, StartPCs
<1>3. OneOwner
  BY <1>2, Zenon DEF Init, OneOwner, Holds
<1>4. Published /\ Draining /\ Fresh
  BY <1>2, Zenon DEF Init, Published, Draining, Fresh, Collected
<1>5. OrphanedOnlyByFault
  BY DEF Init, OrphanedOnlyByFault
<1>6. Supervisor!Init
  BY DEF Init, Supervisor!Init
<1> QED
  BY <1>1, <1>3, <1>4, <1>5, <1>6 DEF ServiceInv

(* The inductive invariant of the service.                                 *)
THEOREM ServiceInvariant == Spec => []ServiceInv
<1>1. ServiceInv /\ [Next]_vars => ServiceInv'
  BY NextStep
<1> QED
  BY <1>1, Initially, PTL DEF Spec

(* At every moment a slot of the active table has at most one owner, the   *)
(* handler that claimed it or the task it spawned, and names its run.      *)
THEOREM SlotHasOneOwner == Spec => []OneOwner
<1>1. ServiceInv => OneOwner
  BY DEF ServiceInv
<1> QED
  BY <1>1, ServiceInvariant, PTL

(* After the drain collected the handles no task runs uncancelled, also    *)
(* not one whose handler was between its checks and the spawn.             *)
THEOREM DrainReachesEveryTask == Spec => []DrainCancelsAll
<1>1. ServiceInv => DrainCancelsAll
  BY DEF ServiceInv, Draining, DrainCancelsAll, Collected
<1> QED
  BY <1>1, ServiceInvariant, PTL

(* A slot without an owner needs a failed audit or a dropped handler.      *)
THEOREM OrphansNeedFaults == Spec => []OrphanedOnlyByFault
<1>1. ServiceInv => OrphanedOnlyByFault
  BY DEF ServiceInv
<1> QED
  BY <1>1, ServiceInvariant, PTL

(* The service implements RunSupervisor: one active run per session within *)
(* the global limit, one dispatch per run, silence after a drain.          *)
THEOREM SupervisesRuns == Spec => ImplementsSupervisor
<1>1. ServiceInv /\ [Next]_vars => [Supervisor!Next]_(Supervisor!vars)
  BY NextStep DEF Maps
<1> QED
  BY <1>1, Initially, ServiceInvariant, PTL DEF Spec, ImplementsSupervisor, Supervisor!Spec

Final == \A s \in Sessions, q \in Requests :
            record[s][q].st \in Settled => record'[s][q] = record[s][q]

LEMMA WriteIsFinal ==
    ASSUME Shape, NEW s \in Sessions, NEW q \in Requests, NEW st \in Stored, Write(s, q, st),
           record[s][q].st \notin Settled
    PROVE  Final
BY RecordSets DEF Final

LEMMA FinishedStep ==
    ASSUME ServiceInv, [Next]_vars
    PROVE  Final
<1> USE DEF durable
<1>0. Shape
  BY DEF ServiceInv
<1>1. UNCHANGED record => Final
  BY DEF Final
<1>2. /\ {"Failed", "Manual", "Resumable"} \subseteq Stored
      /\ "Absent" \notin Settled /\ "Waiting" \notin Settled /\ "Resumable" \notin Settled
  BY DEF Stored, Settled
<1>3. ASSUME NEW c \in Callers, Handler(c) PROVE Final
  <2>1. CASE StartBegin(c)
    <3>1. /\ call[c].pc = "begin"
          /\ \/ UNCHANGED record
             \/ \E st \in {"Manual", "Resumable"} : Begin(call[c].s, call[c].q, st)
      BY <2>1, Zenon DEF StartBegin, At
    <3>2. call[c].s \in Sessions /\ call[c].q \in Requests
      BY <1>0, <3>1 DEF Shape, WellFormed, RunPCs, HoldingPCs, StartPCs
    <3> QED
      BY <1>0, <1>1, <1>2, <3>1, <3>2, WriteIsFinal, Zenon DEF Begin
  <2>2. CASE ~StartBegin(c)
    BY <1>1, <1>3, <2>2, Zenon
    DEF Handler, CreateStore, StartClaim, StartTitle, StartFind, StartAudit, StartMark, StartCheck,
        StartSpawn, ResumeClaim, ResumeSpawn, ArchiveCheck, ArchiveList, ArchiveCommit
  <2> QED
    BY <2>1, <2>2
<1>4. ASSUME NEW p, NEW s \in Sessions, NEW q \in Requests, AbortWaiting(s, q, p) PROVE Final
  BY <1>0, <1>2, <1>4, WriteIsFinal, Zenon DEF AbortWaiting
<1>5. ASSUME NEW t \in tasks, NEW st \in Outcomes, TaskCommit(t, st) PROVE Final
  <2>1. t.s \in Sessions /\ t.q \in Requests /\ st \in Stored
    BY <1>0, ServiceAssumption, Zenon DEF Shape, Tasks
  <2> QED
    BY <1>0, <1>2, <1>5, <2>1, WriteIsFinal, Zenon DEF TaskCommit
<1>6. ASSUME NEW c \in Callers, Disconnect(c) PROVE Final
  <2>1. \/ UNCHANGED record
        \/ /\ call[c].pc = "begin"
           /\ \E st \in {"Manual", "Resumable"} : Begin(call[c].s, call[c].q, st)
    BY <1>6, Zenon DEF Disconnect
  <2>2. CASE call[c].pc = "begin"
    <3>1. call[c].s \in Sessions /\ call[c].q \in Requests
      BY <1>0, <2>2 DEF Shape, WellFormed, RunPCs, HoldingPCs, StartPCs
    <3> QED
      BY <1>0, <1>1, <1>2, <2>1, <3>1, WriteIsFinal, Zenon DEF Begin
  <2> QED
    BY <1>1, <2>1, <2>2, Zenon
<1>7. ASSUME NEW t \in tasks, TaskYield(t) \/ store_result(t) \/ TaskSettle(t) PROVE Final
  BY <1>1, <1>7, Zenon DEF TaskYield, store_result, TaskSettle
<1>8. CASE Arrival
  <2>1. PICK c \in Callers, p \in Connected, s \in Sessions :
            \/ CreateSession(c, s, p)
            \/ ArchiveConversation(c, s, p)
            \/ \E q \in Requests : <<s, q>> \in Offered /\ StartRun(c, s, q, p)
            \/ \E q \in Requests : ResumeRun(c, s, q, p)
    BY <1>8 DEF Arrival
  <2>2. UNCHANGED record
    BY <2>1, Zenon DEF CreateSession, ArchiveConversation, StartRun, ResumeRun
  <2> QED
    BY <1>1, <2>2
<1>9. ASSUME NEW p, NEW s \in Sessions, NEW q \in Requests, cancel_active_run(s, q, p)
      PROVE  Final
  BY <1>1, <1>9, Zenon DEF cancel_active_run
<1>10. CASE DrainStep \/ Exit \/ Crash \/ Restart \/ UNCHANGED vars
  BY <1>1, <1>10, Zenon
  DEF DrainStep, DrainBegin, DrainCollect, DrainWait, DrainTally, Exit, Crash, Restart, vars
<1> QED
  BY <1>3, <1>4, <1>5, <1>6, <1>7, <1>8, <1>9, <1>10 DEF Next, Owner, TaskStep

(* What a run's record says once it is completed or failed no resume,      *)
(* abort or late task changes, whatever it had read before.                *)
THEOREM FinishedStays == Spec => FinishedForever
<1>1. ServiceInv /\ [Next]_vars => [Final]_vars
  BY FinishedStep
<1>2. Spec => [][Final]_vars
  BY <1>1, ServiceInvariant, PTL DEF Spec
<1> QED
  BY <1>2 DEF FinishedForever, Final

================================================================================
