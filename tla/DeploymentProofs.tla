---------------------------- MODULE DeploymentProofs ---------------------------
(***************************************************************************)
(* Proofs about the data directory, for any deployments and any number of  *)
(* transitions and faults.  The lock keeps the daemon and the operator     *)
(* command apart; what each of them may find in the files then follows     *)
(* from where the other one stopped, which is what the inductive invariant *)
(* records.                                                                *)
(***************************************************************************)
EXTENDS Deployment, TLAPS

(* The lock says who is running.                                           *)
Exclusion ==
    /\ lock = "daemon" <=> daemon # "down"
    /\ lock = "operator" <=> operator # "idle"

(* What the daemon has opened, and what a command has done so far.         *)
Progress ==
    /\ daemon \in Opened \/ leaving => db.state = "whole"
    /\ daemon \in Opened \ {"audit"} \/ leaving => audit.state \in {"whole", "partial"}
    /\ daemon \notin {"serving", "draining"} => unaudited = 0
    /\ leaving => "late" \in causes
    /\ operator = "restoredb" => db = Absent
    /\ operator \in {"restoredb", "restoreaudit"} => audit = Absent
    /\ operator = "restoreaudit" => db = backup.db
    /\ operator \in {"restoredb", "restoreaudit"} => backup.manifest.present
    /\ operator \in {"copydb", "copyaudit", "manifest"} => ~backup.manifest.present

(* Only a copy that failed leaves a file cut short.                        *)
NotCut ==
    "copy" \notin causes =>
        \A f \in {db, audit, backup.db, backup.audit} : f.state \in {"absent", "whole"}

(* Without a late daemon and a failed copy the records follow the          *)
(* transitions, in the directory and in a backup being made or finished.   *)
Follows ==
    "late" \notin causes /\ "copy" \notin causes =>
        /\ audit.n + unaudited <= db.n
        /\ operator = "copyaudit" => backup.db = db
        /\ operator = "manifest" \/ backup.manifest.present => backup.audit.n <= backup.db.n

DeployInv == DeployTypeOK /\ Exclusion /\ Progress /\ NotCut /\ Follows

--------------------------------------------------------------------------------
USE DeploymentAssumption

(* What belongs to every content of a file.                                *)
LEMMA FileFacts ==
    /\ Absent \in Files /\ Empty \in Files /\ Partial \in Files
    /\ \A n \in Nat : Whole(n, {}) \in Files
    /\ \A f \in Files :
          /\ f.n \in Nat /\ f.state \in {"absent", "empty", "whole", "partial"}
          /\ f.state \in {"absent", "empty"} => f.n = 0
          /\ [f EXCEPT !.n = f.n + 1].n = f.n + 1
          /\ [f EXCEPT !.n = f.n + 1].state = f.state
          /\ f.state \in {"whole", "partial"} => [f EXCEPT !.n = f.n + 1] \in Files
          /\ \A b \in Builds : \A c \in ContractsOf[b] :
                /\ Grown(f, c) \in Files
                /\ Grown(f, c).n = f.n + 1 /\ Grown(f, c).state = "whole"
  BY DEF Files, Contracts, Absent, Empty, Partial, Whole, Grown

(* The part of it that counting needs.                                     *)
LEMMA FileSizes ==
    \A f \in Files : f.n \in Nat /\ (f.state \in {"absent", "empty"} => f.n = 0)
  BY FileFacts, Zenon

(* A transition makes the database one longer, a record the audit file.    *)
LEMMA GrowthFacts ==
    ASSUME DeployTypeOK
    PROVE  /\ Commit \/ LateCommit =>
                 db' \in Files /\ db'.n = db.n + 1 /\ db'.state = "whole"
           /\ Record \/ LateRecord =>
                 /\ audit'.n = audit.n + 1 /\ audit'.state = audit.state
                 /\ audit.state \in {"whole", "partial"} => audit' \in Files
<1>1. ASSUME Commit \/ LateCommit
      PROVE  db' \in Files /\ db'.n = db.n + 1 /\ db'.state = "whole"
  <2>1. PICK c \in ContractsOf[build] : db' = Grown(db, c)
    BY <1>1 DEF Commit, LateCommit
  <2>2. db \in Files /\ build \in Builds
    BY DEF DeployTypeOK
  <2>3. Grown(db, c) \in Files /\ Grown(db, c).n = db.n + 1 /\ Grown(db, c).state = "whole"
    BY <2>1, <2>2, FileFacts, ZenonT(60)
  <2> QED
    BY <2>1, <2>3
<1>2. ASSUME Record \/ LateRecord
      PROVE  /\ audit'.n = audit.n + 1 /\ audit'.state = audit.state
             /\ audit.state \in {"whole", "partial"} => audit' \in Files
  <2>1. audit' = [audit EXCEPT !.n = audit.n + 1]
    BY <1>2 DEF Record, LateRecord
  <2> QED
    BY <2>1, FileFacts DEF DeployTypeOK
<1> QED
  BY <1>1, <1>2

(* The lock excludes: a command never runs beside a daemon.                *)
LEMMA ExclusionStep ==
    ASSUME DeployInv, [DeployNext]_deployVars
    PROVE  Exclusion'
<1> USE DEF DeployInv, Exclusion, Opened
<1>1. CASE Launch
  BY <1>1 DEF Launch, NoFault, daemonOnly, lateVars
<1>2. CASE StartFails
  BY <1>2 DEF StartFails, NoFault, daemonOnly, lateVars
<1>3. CASE initialize
  BY <1>3 DEF initialize, NoFault, daemonOnly, Whole, lateVars
<1>4. CASE OpenAudit
  BY <1>4 DEF OpenAudit, NoFault, daemonOnly, Whole, lateVars
<1>5. CASE ProbeModel
  BY <1>5 DEF ProbeModel, NoFault, daemonOnly, lateVars
<1>6. CASE ProbeLocalWrite
  BY <1>6 DEF ProbeLocalWrite, NoFault, daemonOnly, lateVars
<1>7. CASE Serve
  BY <1>7 DEF Serve, NoFault, daemonOnly, lateVars
<1>8. CASE Commit
  BY <1>8 DEF Commit, NoFault, daemonOnly, lateVars
<1>9. CASE Record
  BY <1>9 DEF Record, NoFault, daemonOnly, lateVars
<1>10. CASE Signal
  BY <1>10 DEF Signal, NoFault, daemonOnly, lateVars
<1>11. CASE Leave
  BY <1>11 DEF Leave, NoFault, daemonOnly, lateVars
<1>12. CASE LateCommit
  BY <1>12 DEF LateCommit, NoFault
<1>13. CASE LateRecord
  BY <1>13 DEF LateRecord, NoFault
<1>14. CASE Left
  BY <1>14 DEF Left, NoFault
<1>15. CASE LeaveBusy
  BY <1>15 DEF LeaveBusy, Fault
<1>16. CASE DaemonCrash
  BY <1>16 DEF DaemonCrash, Fault, daemonOnly, lateVars
<1>17. CASE create_backup
  BY <1>17 DEF create_backup, NoFault, operatorOnly, Acquire, NoBackup,
       lateVars, Absent, NoManifest
<1>18. CASE BackupDb
  BY <1>18 DEF BackupDb, NoFault, operatorOnly, validate_inspection, lateVars
<1>19. CASE BackupAudit
  BY <1>19 DEF BackupAudit, NoFault, operatorOnly, lateVars
<1>20. CASE write_manifest
  BY <1>20 DEF write_manifest, NoFault, operatorOnly, Release, lateVars
<1>21. CASE BackupFails
  BY <1>21 DEF BackupFails, NoFault, operatorOnly, Release, NoBackup,
       lateVars, Absent, NoManifest
<1>22. CASE restore_backup
  BY <1>22 DEF restore_backup, NoFault, operatorOnly, Acquire, Absent,
       verify_backup, lateVars, validate_inspection
<1>23. CASE RestoreDb
  BY <1>23 DEF RestoreDb, NoFault, operatorOnly, lateVars
<1>24. CASE RestoreDbFails
  BY <1>24 DEF RestoreDbFails, Fault, operatorOnly, Release, Absent, Empty,
       Partial, lateVars
<1>25. CASE RestoreAudit
  BY <1>25 DEF RestoreAudit, NoFault, operatorOnly, lateVars
<1>26. CASE RestoreAuditFails
  BY <1>26 DEF RestoreAuditFails, Fault, operatorOnly, Release, Absent,
       Empty, Partial, lateVars
<1>27. CASE RestoreInspect
  BY <1>27 DEF RestoreInspect, NoFault, operatorOnly, Release, lateVars
<1>28. CASE OperatorCrash
  BY <1>28 DEF OperatorCrash, Fault, operatorOnly, Release, Empty, Partial,
       lateVars
<1>29. CASE Wipe
  BY <1>29 DEF Wipe, NoFault, operatorOnly, Quiet, Absent, lateVars
<1>30. CASE Redeploy
  BY <1>30 DEF Redeploy, NoFault, lateVars, Quiet
<1>31. ASSUME NEW answered \in BOOLEAN, ProbeKnowledge(answered) PROVE Exclusion'
  BY <1>31 DEF ProbeKnowledge, NoFault, daemonOnly, lateVars
<1>32. CASE UNCHANGED deployVars
  BY <1>32 DEF deployVars
<1> QED
  BY <1>1, <1>2, <1>3, <1>4, <1>5, <1>6, <1>7, <1>8, <1>9, <1>10, <1>11,
       <1>12, <1>13, <1>14, <1>15, <1>16, <1>17, <1>18, <1>19, <1>20, <1>21,
       <1>22, <1>23, <1>24, <1>25, <1>26, <1>27, <1>28, <1>29, <1>30, <1>31,
       <1>32 DEF DeployNext, Daemon, DaemonEnds, Operator

(* Every step keeps the shape of the variables.                            *)
LEMMA TypedStep ==
    ASSUME DeployInv, [DeployNext]_deployVars
    PROVE  DeployTypeOK'
<1> USE FileFacts DEF DeployInv, DeployTypeOK, Manifests, Opened, Progress
<1>1. CASE Launch
  BY <1>1 DEF Launch, NoFault, daemonOnly, lateVars
<1>2. CASE StartFails
  BY <1>2 DEF StartFails, NoFault, daemonOnly, lateVars
<1>3. CASE initialize
  BY <1>3 DEF initialize, NoFault, daemonOnly, lateVars
<1>4. CASE OpenAudit
  BY <1>4 DEF OpenAudit, NoFault, daemonOnly, lateVars
<1>5. CASE ProbeModel
  BY <1>5 DEF ProbeModel, NoFault, daemonOnly, lateVars
<1>6. CASE ProbeLocalWrite
  BY <1>6 DEF ProbeLocalWrite, NoFault, daemonOnly, lateVars
<1>7. CASE Serve
  BY <1>7 DEF Serve, NoFault, daemonOnly, lateVars
<1>8. CASE Commit
  BY <1>8, GrowthFacts DEF Commit, NoFault, daemonOnly, lateVars
<1>9. CASE Record
  BY <1>9, GrowthFacts DEF Record, NoFault, daemonOnly, lateVars
<1>10. CASE Signal
  BY <1>10 DEF Signal, NoFault, daemonOnly, lateVars
<1>11. CASE Leave
  BY <1>11 DEF Leave, NoFault, daemonOnly, lateVars
<1>12. CASE LateCommit
  BY <1>12, GrowthFacts DEF LateCommit, NoFault
<1>13. CASE LateRecord
  BY <1>13, GrowthFacts DEF LateRecord, NoFault
<1>14. CASE Left
  BY <1>14, ZenonT(60) DEF Left, NoFault
<1>15. CASE LeaveBusy
  BY <1>15 DEF LeaveBusy, Fault
<1>16. CASE DaemonCrash
  BY <1>16 DEF DaemonCrash, Fault, daemonOnly, lateVars
<1>17. CASE create_backup
  BY <1>17, Zenon DEF create_backup, NoFault, operatorOnly, Acquire, NoBackup,
       lateVars, NoManifest
<1>18. CASE BackupDb
  BY <1>18 DEF BackupDb, NoFault, operatorOnly, validate_inspection, lateVars
<1>19. CASE BackupAudit
  BY <1>19 DEF BackupAudit, NoFault, operatorOnly, lateVars
<1>20. CASE write_manifest
  <2>1. ContractsOf[build] \in SUBSET Contracts
    BY DEF Contracts
  <2> QED
    BY <1>20, <2>1, Zenon DEF write_manifest, Release, NoFault, operatorOnly, lateVars
<1>21. CASE BackupFails
  BY <1>21 DEF BackupFails, NoFault, operatorOnly, Release, NoBackup,
       lateVars, NoManifest
<1>22. CASE restore_backup
  BY <1>22 DEF restore_backup, NoFault, operatorOnly, Acquire, verify_backup,
       lateVars, validate_inspection
<1>23. CASE RestoreDb
  BY <1>23 DEF RestoreDb, NoFault, operatorOnly, lateVars
<1>24. CASE RestoreDbFails
  BY <1>24 DEF RestoreDbFails, Fault, operatorOnly, Release, lateVars
<1>25. CASE RestoreAudit
  BY <1>25 DEF RestoreAudit, NoFault, operatorOnly, lateVars
<1>26. CASE RestoreAuditFails
  BY <1>26 DEF RestoreAuditFails, Fault, operatorOnly, Release, lateVars
<1>27. CASE RestoreInspect
  BY <1>27 DEF RestoreInspect, NoFault, operatorOnly, Release, lateVars
<1>28. CASE OperatorCrash
  BY <1>28 DEF OperatorCrash, Fault, operatorOnly, Release, lateVars
<1>29. CASE Wipe
  BY <1>29 DEF Wipe, NoFault, operatorOnly, Quiet, lateVars
<1>30. CASE Redeploy
  BY <1>30 DEF Redeploy, NoFault, lateVars, Quiet
<1>31. ASSUME NEW answered \in BOOLEAN, ProbeKnowledge(answered) PROVE DeployTypeOK'
  BY <1>31 DEF ProbeKnowledge, NoFault, daemonOnly, lateVars
<1>32. CASE UNCHANGED deployVars
  BY <1>32 DEF deployVars
<1> QED
  BY <1>1, <1>2, <1>3, <1>4, <1>5, <1>6, <1>7, <1>8, <1>9, <1>10, <1>11,
       <1>12, <1>13, <1>14, <1>15, <1>16, <1>17, <1>18, <1>19, <1>20, <1>21,
       <1>22, <1>23, <1>24, <1>25, <1>26, <1>27, <1>28, <1>29, <1>30, <1>31,
       <1>32 DEF DeployNext, Daemon, DaemonEnds, Operator

(* Daemon and command leave the files as the next one expects them.        *)
LEMMA ProgressStep ==
    ASSUME DeployInv, [DeployNext]_deployVars
    PROVE  Progress'
<1> USE FileFacts DEF DeployInv, DeployTypeOK, Manifests, Opened, Progress, Exclusion,
        Absent
<1>1. CASE Launch
  BY <1>1 DEF Launch, NoFault, daemonOnly, lateVars
<1>2. CASE StartFails
  BY <1>2 DEF StartFails, NoFault, daemonOnly, lateVars
<1>3. CASE initialize
  BY <1>3 DEF initialize, NoFault, daemonOnly, Whole, lateVars
<1>4. CASE OpenAudit
  BY <1>4, Zenon DEF OpenAudit, NoFault, daemonOnly, Whole, lateVars
<1>5. CASE ProbeModel
  BY <1>5 DEF ProbeModel, NoFault, daemonOnly, lateVars
<1>6. CASE ProbeLocalWrite
  BY <1>6 DEF ProbeLocalWrite, NoFault, daemonOnly, lateVars
<1>7. CASE Serve
  BY <1>7 DEF Serve, NoFault, daemonOnly, lateVars
<1>8. CASE Commit
  BY <1>8, GrowthFacts DEF Commit, NoFault, daemonOnly, lateVars
<1>9. CASE Record
  BY <1>9, GrowthFacts DEF Record, NoFault, daemonOnly, lateVars
<1>10. CASE Signal
  BY <1>10 DEF Signal, NoFault, daemonOnly, lateVars
<1>11. CASE Leave
  BY <1>11 DEF Leave, NoFault, daemonOnly, lateVars
<1>12. CASE LateCommit
  BY <1>12, GrowthFacts DEF LateCommit, NoFault
<1>13. CASE LateRecord
  BY <1>13, GrowthFacts DEF LateRecord, NoFault
<1>14. CASE Left
  BY <1>14 DEF Left, NoFault
<1>15. CASE LeaveBusy
  BY <1>15 DEF LeaveBusy, Fault
<1>16. CASE DaemonCrash
  BY <1>16 DEF DaemonCrash, Fault, daemonOnly, lateVars
<1>17. CASE create_backup
  BY <1>17 DEF create_backup, NoFault, operatorOnly, Acquire, NoBackup,
       lateVars, NoManifest
<1>18. CASE BackupDb
  BY <1>18 DEF BackupDb, NoFault, operatorOnly, validate_inspection, lateVars
<1>19. CASE BackupAudit
  BY <1>19 DEF BackupAudit, NoFault, operatorOnly, lateVars
<1>20. CASE write_manifest
  BY <1>20 DEF write_manifest, NoFault, operatorOnly, Release, lateVars
<1>21. CASE BackupFails
  BY <1>21 DEF BackupFails, NoFault, operatorOnly, Release, NoBackup,
       lateVars, NoManifest
<1>22. CASE restore_backup
  BY <1>22 DEF restore_backup, NoFault, operatorOnly, Acquire, verify_backup,
       lateVars, validate_inspection
<1>23. CASE RestoreDb
  BY <1>23 DEF RestoreDb, NoFault, operatorOnly, lateVars
<1>24. CASE RestoreDbFails
  BY <1>24 DEF RestoreDbFails, Fault, operatorOnly, Release, Empty, Partial,
       lateVars
<1>25. CASE RestoreAudit
  BY <1>25 DEF RestoreAudit, NoFault, operatorOnly, lateVars
<1>26. CASE RestoreAuditFails
  BY <1>26 DEF RestoreAuditFails, Fault, operatorOnly, Release, Empty,
       Partial, lateVars
<1>27. CASE RestoreInspect
  BY <1>27 DEF RestoreInspect, NoFault, operatorOnly, Release, lateVars
<1>28. CASE OperatorCrash
  BY <1>28 DEF OperatorCrash, Fault, operatorOnly, Release, Empty, Partial,
       lateVars
<1>29. CASE Wipe
  BY <1>29 DEF Wipe, NoFault, operatorOnly, Quiet, lateVars
<1>30. CASE Redeploy
  BY <1>30 DEF Redeploy, NoFault, lateVars, Quiet
<1>31. ASSUME NEW answered \in BOOLEAN, ProbeKnowledge(answered) PROVE Progress'
  BY <1>31 DEF ProbeKnowledge, NoFault, daemonOnly, lateVars
<1>32. CASE UNCHANGED deployVars
  BY <1>32 DEF deployVars
<1> HIDE FileFacts DEF DeployInv, DeployTypeOK, Manifests, Opened, Progress, Exclusion,
        Absent
<1> QED
  BY <1>1, <1>2, <1>3, <1>4, <1>5, <1>6, <1>7, <1>8, <1>9, <1>10, <1>11,
       <1>12, <1>13, <1>14, <1>15, <1>16, <1>17, <1>18, <1>19, <1>20, <1>21,
       <1>22, <1>23, <1>24, <1>25, <1>26, <1>27, <1>28, <1>29, <1>30, <1>31,
       <1>32, Zenon DEF DeployNext, Daemon, DaemonEnds, Operator

(* Only a failing copy cuts a file short.                                  *)
LEMMA NotCutStep ==
    ASSUME DeployInv, [DeployNext]_deployVars
    PROVE  NotCut'
<1> USE FileFacts DEF DeployInv, DeployTypeOK, Manifests, NotCut
<1>1. CASE Launch
  BY <1>1 DEF Launch, NoFault, daemonOnly, lateVars
<1>2. CASE StartFails
  BY <1>2 DEF StartFails, NoFault, daemonOnly, lateVars
<1>3. CASE initialize
  BY <1>3 DEF initialize, NoFault, daemonOnly, Whole, lateVars
<1>4. CASE OpenAudit
  BY <1>4 DEF OpenAudit, NoFault, daemonOnly, Whole, lateVars
<1>5. CASE ProbeModel
  BY <1>5 DEF ProbeModel, NoFault, daemonOnly, lateVars
<1>6. CASE ProbeLocalWrite
  BY <1>6 DEF ProbeLocalWrite, NoFault, daemonOnly, lateVars
<1>7. CASE Serve
  BY <1>7 DEF Serve, NoFault, daemonOnly, lateVars
<1>8. CASE Commit
  BY <1>8, GrowthFacts DEF Commit, NoFault, daemonOnly, lateVars
<1>9. CASE Record
  BY <1>9, GrowthFacts, Zenon DEF Record, NoFault, daemonOnly, lateVars
<1>10. CASE Signal
  BY <1>10 DEF Signal, NoFault, daemonOnly, lateVars
<1>11. CASE Leave
  BY <1>11 DEF Leave, NoFault, daemonOnly, lateVars
<1>12. CASE LateCommit
  BY <1>12, GrowthFacts DEF LateCommit, NoFault
<1>13. CASE LateRecord
  BY <1>13, GrowthFacts, Zenon DEF LateRecord, NoFault
<1>14. CASE Left
  BY <1>14 DEF Left, NoFault
<1>15. CASE LeaveBusy
  BY <1>15 DEF LeaveBusy, Fault
<1>16. CASE DaemonCrash
  BY <1>16 DEF DaemonCrash, Fault, daemonOnly, lateVars
<1>17. CASE create_backup
  BY <1>17 DEF create_backup, NoFault, operatorOnly, Acquire, NoBackup,
       lateVars, Absent, NoManifest
<1>18. CASE BackupDb
  BY <1>18 DEF BackupDb, NoFault, operatorOnly, validate_inspection, lateVars
<1>19. CASE BackupAudit
  BY <1>19 DEF BackupAudit, NoFault, operatorOnly, lateVars
<1>20. CASE write_manifest
  BY <1>20 DEF write_manifest, NoFault, operatorOnly, Release, lateVars
<1>21. CASE BackupFails
  BY <1>21 DEF BackupFails, NoFault, operatorOnly, Release, NoBackup,
       lateVars, Absent, NoManifest
<1>22. CASE restore_backup
  BY <1>22 DEF restore_backup, NoFault, operatorOnly, Acquire, Absent,
       verify_backup, lateVars, validate_inspection
<1>23. CASE RestoreDb
  BY <1>23 DEF RestoreDb, NoFault, operatorOnly, lateVars
<1>24. CASE RestoreDbFails
  BY <1>24 DEF RestoreDbFails, Fault, operatorOnly, Release, Absent, Empty,
       Partial, lateVars
<1>25. CASE RestoreAudit
  BY <1>25 DEF RestoreAudit, NoFault, operatorOnly, lateVars
<1>26. CASE RestoreAuditFails
  BY <1>26 DEF RestoreAuditFails, Fault, operatorOnly, Release, Absent,
       Empty, Partial, lateVars
<1>27. CASE RestoreInspect
  BY <1>27 DEF RestoreInspect, NoFault, operatorOnly, Release, lateVars
<1>28. CASE OperatorCrash
  BY <1>28 DEF OperatorCrash, Fault, operatorOnly, Release, Empty, Partial,
       lateVars
<1>29. CASE Wipe
  BY <1>29 DEF Wipe, NoFault, operatorOnly, Quiet, Absent, lateVars
<1>30. CASE Redeploy
  BY <1>30 DEF Redeploy, NoFault, lateVars, Quiet
<1>31. ASSUME NEW answered \in BOOLEAN, ProbeKnowledge(answered) PROVE NotCut'
  BY <1>31 DEF ProbeKnowledge, NoFault, daemonOnly, lateVars
<1>32. CASE UNCHANGED deployVars
  BY <1>32 DEF deployVars
<1> QED
  BY <1>1, <1>2, <1>3, <1>4, <1>5, <1>6, <1>7, <1>8, <1>9, <1>10, <1>11,
       <1>12, <1>13, <1>14, <1>15, <1>16, <1>17, <1>18, <1>19, <1>20, <1>21,
       <1>22, <1>23, <1>24, <1>25, <1>26, <1>27, <1>28, <1>29, <1>30, <1>31,
       <1>32 DEF DeployNext, Daemon, DaemonEnds, Operator

(* Records follow transitions, copies included.                            *)
LEMMA FollowsStep ==
    ASSUME DeployInv, [DeployNext]_deployVars
    PROVE  Follows'
<1> USE FileSizes DEF DeployInv, DeployTypeOK, Manifests, Opened, Progress, Exclusion,
        Follows, Absent
<1>1. CASE Launch
  BY <1>1 DEF Launch, NoFault, daemonOnly, lateVars
<1>2. CASE StartFails
  BY <1>2 DEF StartFails, NoFault, daemonOnly, lateVars
<1>3. CASE initialize
  BY <1>3 DEF initialize, NoFault, daemonOnly, Whole, lateVars
<1>4. CASE OpenAudit
  BY <1>4 DEF OpenAudit, NoFault, daemonOnly, Whole, lateVars
<1>5. CASE ProbeModel
  BY <1>5 DEF ProbeModel, NoFault, daemonOnly, lateVars
<1>6. CASE ProbeLocalWrite
  BY <1>6 DEF ProbeLocalWrite, NoFault, daemonOnly, lateVars
<1>7. CASE Serve
  BY <1>7 DEF Serve, NoFault, daemonOnly, lateVars
<1>8. CASE Commit
  BY <1>8, GrowthFacts DEF Commit, NoFault, daemonOnly, lateVars
<1>9. CASE Record
  BY <1>9, GrowthFacts DEF Record, NoFault, daemonOnly, lateVars
<1>10. CASE Signal
  BY <1>10 DEF Signal, NoFault, daemonOnly, lateVars
<1>11. CASE Leave
  BY <1>11 DEF Leave, NoFault, daemonOnly, lateVars
<1>12. CASE LateCommit
  BY <1>12, GrowthFacts DEF LateCommit, NoFault
<1>13. CASE LateRecord
  BY <1>13, GrowthFacts DEF LateRecord, NoFault
<1>14. CASE Left
  BY <1>14 DEF Left, NoFault
<1>15. CASE LeaveBusy
  BY <1>15 DEF LeaveBusy, Fault
<1>16. CASE DaemonCrash
  BY <1>16 DEF DaemonCrash, Fault, daemonOnly, lateVars
<1>17. CASE create_backup
  BY <1>17 DEF create_backup, NoFault, operatorOnly, Acquire, NoBackup,
       lateVars, NoManifest
<1>18. CASE BackupDb
  BY <1>18 DEF BackupDb, NoFault, operatorOnly, validate_inspection, lateVars
<1>19. CASE BackupAudit
  BY <1>19 DEF BackupAudit, NoFault, operatorOnly, lateVars
<1>20. CASE write_manifest
  BY <1>20 DEF write_manifest, NoFault, operatorOnly, Release, lateVars
<1>21. CASE BackupFails
  BY <1>21 DEF BackupFails, NoFault, operatorOnly, Release, NoBackup,
       lateVars, NoManifest
<1>22. CASE restore_backup
  BY <1>22 DEF restore_backup, NoFault, operatorOnly, Acquire, verify_backup,
       lateVars, validate_inspection
<1>23. CASE RestoreDb
  BY <1>23 DEF RestoreDb, NoFault, operatorOnly, lateVars
<1>24. CASE RestoreDbFails
  BY <1>24 DEF RestoreDbFails, Fault, operatorOnly, Release, Empty, Partial,
       lateVars
<1>25. CASE RestoreAudit
  BY <1>25 DEF RestoreAudit, NoFault, operatorOnly, lateVars
<1>26. CASE RestoreAuditFails
  BY <1>26 DEF RestoreAuditFails, Fault, operatorOnly, Release, Empty,
       Partial, lateVars
<1>27. CASE RestoreInspect
  BY <1>27 DEF RestoreInspect, NoFault, operatorOnly, Release, lateVars
<1>28. CASE OperatorCrash
  BY <1>28 DEF OperatorCrash, Fault, operatorOnly, Release, Empty, Partial,
       lateVars
<1>29. CASE Wipe
  BY <1>29 DEF Wipe, NoFault, operatorOnly, Quiet, lateVars
<1>30. CASE Redeploy
  BY <1>30 DEF Redeploy, NoFault, lateVars, Quiet
<1>31. ASSUME NEW answered \in BOOLEAN, ProbeKnowledge(answered) PROVE Follows'
  BY <1>31 DEF ProbeKnowledge, NoFault, daemonOnly, lateVars
<1>32. CASE UNCHANGED deployVars
  BY <1>32 DEF deployVars
<1> QED
  BY <1>1, <1>2, <1>3, <1>4, <1>5, <1>6, <1>7, <1>8, <1>9, <1>10, <1>11,
       <1>12, <1>13, <1>14, <1>15, <1>16, <1>17, <1>18, <1>19, <1>20, <1>21,
       <1>22, <1>23, <1>24, <1>25, <1>26, <1>27, <1>28, <1>29, <1>30, <1>31,
       <1>32, Zenon DEF DeployNext, Daemon, DaemonEnds, Operator

(* The inductive invariant holds in every reachable state.                 *)
THEOREM DeployInvariant == DeploySpec => []DeployInv
<1>1. DeployInit => DeployInv
  <2> SUFFICES ASSUME DeployInit PROVE DeployInv
    OBVIOUS
  <2>1. DeployTypeOK
    BY FileFacts, Zenon DEF DeployInit, DeployTypeOK, Manifests, NoBackup, NoManifest
  <2>2. Exclusion /\ Progress /\ NotCut /\ Follows
    BY DEF DeployInit, Opened, Progress, Exclusion, NotCut, Follows, NoBackup,
           NoManifest, Absent
  <2> QED
    BY <2>1, <2>2 DEF DeployInv
<1>2. DeployInv /\ [DeployNext]_deployVars => DeployInv'
  BY ExclusionStep, TypedStep, ProgressStep, NotCutStep, FollowsStep DEF DeployInv
<1> QED
  BY <1>1, <1>2, PTL DEF DeploySpec

(* Every variable keeps its type.                                          *)
THEOREM DeployTypeCorrect == DeploySpec => []DeployTypeOK
<1>1. DeployInv => DeployTypeOK
  BY DEF DeployInv
<1> QED
  BY <1>1, DeployInvariant, PTL

(* Crashes, backups, restores and redeployments never put the audit file   *)
(* ahead of the database, however many transitions are written.            *)
THEOREM AuditFollows == DeploySpec => []AuditNeverAhead
<1>1. DeployInv => AuditNeverAhead
  BY FileSizes
     DEF DeployInv, DeployTypeOK, Follows, AuditNeverAhead, verify_backup
<1> QED
  BY <1>1, DeployInvariant, PTL

(* No daemon serves a directory put together from parts.                   *)
THEOREM ServedIsWhole == DeploySpec => []ServesWhole
<1>1. DeployInv => ServesWhole
  BY DEF DeployInv, Progress, NotCut, ServesWhole, Opened
<1> QED
  BY <1>1, DeployInvariant, PTL

(* While a command holds the lock, the files are its own, but for the work *)
(* of a daemon whose drain timed out.                                      *)
THEOREM QuiescedFiles == DeploySpec => Quiesced
<1> DEFINE Step == (operator # "idle" /\ <<db, audit>>' # <<db, audit>>)
                      => Operator \/ leaving
<1>1. DeployInv /\ [DeployNext]_deployVars => [Step]_deployVars
  <2> SUFFICES ASSUME DeployInv, DeployNext, operator # "idle", ~leaving, ~Operator
               PROVE  <<db, audit>>' = <<db, audit>>
    OBVIOUS
  <2>1. daemon = "down"
    BY DEF DeployInv, Exclusion
  <2> QED
    BY <2>1 DEF DeployNext, Daemon, DaemonEnds, Launch, StartFails, initialize, OpenAudit,
       ProbeModel, ProbeLocalWrite, Serve, Commit, Record, Signal, Leave, LateCommit,
       LateRecord, Left, LeaveBusy, DaemonCrash, ProbeKnowledge
<1> QED
  BY <1>1, DeployInvariant, PTL DEF DeploySpec, Quiesced
================================================================================
