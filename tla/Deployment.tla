------------------------------- MODULE Deployment ------------------------------
(***************************************************************************)
(* The data directory of a deployment and the processes that use it: the   *)
(* service daemon, from its start to the end of its shutdown, and the      *)
(* operator command that backs the directory up or restores it.  The       *)
(* processes exclude each other by an advisory lock on a file of the       *)
(* directory.                                                              *)
(*                                                                         *)
(* A database holds the number of committed transitions and the recovery   *)
(* contracts of its runs, the audit file the number of records; a record   *)
(* is written after the transition it is about.  A file that was being     *)
(* copied when the copy ended may be empty or cut short.  There is one     *)
(* backup destination; a digest is modelled by the content it is of.       *)
(***************************************************************************)
EXTENDS Integers, FiniteSets

CONSTANTS
    Builds,         \* deployments: a build with its configuration
    ContractsOf,    \* the recovery contracts a deployment's workflows have
    MaxWrites,      \* bound: transitions committed to one database
    MaxFaults       \* bound: crashes and failing copies

ASSUME DeploymentAssumption ==
    /\ \A b \in Builds : ContractsOf[b] # {}
    /\ MaxWrites \in Nat /\ MaxFaults \in Nat

VARIABLES
    lock,       \* who holds the lock of the data directory
    daemon,     \* where the daemon is
    operator,   \* where the operator command is
    build,      \* the deployment the next commands run with
    db,         \* the database file
    audit,      \* the audit file
    backup,     \* the backup directory: database, audit file and manifest
    unaudited,  \* transitions committed whose audit record is to be written
    leaving,    \* whether a daemon that dropped the lock still has work going on
    behind,     \* the transitions that work has committed and not audited
    local,      \* whether the daemon registered the LocalWrite workflow
    causes,     \* history: faults that may leave the files inconsistent
    mishaps     \* history: the number of crashes and failing copies

deployVars == <<lock, daemon, operator, build, db, audit, backup, unaudited,
                leaving, behind, local, causes, mishaps>>

lateVars == <<leaving, behind>>

Absent == [state |-> "absent", n |-> 0, contracts |-> {}]
Empty == [state |-> "empty", n |-> 0, contracts |-> {}]
Partial == [state |-> "partial", n |-> 0, contracts |-> {}]
Whole(n, cs) == [state |-> "whole", n |-> n, contracts |-> cs]

NoManifest == [present |-> FALSE, db |-> Absent, audit |-> Absent, of |-> {}]

NoBackup == [exists |-> FALSE, db |-> Absent, audit |-> Absent,
             manifest |-> NoManifest]

Opened == {"audit", "model", "knowledge", "localwrite", "discover", "serving",
           "draining"}

DeployInit ==
    /\ lock = "free"
    /\ daemon = "down"
    /\ operator = "idle"
    /\ build \in Builds
    /\ db = Absent
    /\ audit = Absent
    /\ backup = NoBackup
    /\ unaudited = 0
    /\ leaving = FALSE
    /\ behind = 0
    /\ local = FALSE
    /\ causes = {}
    /\ mishaps = 0

Fault(kind) ==
    /\ mishaps < MaxFaults
    /\ mishaps' = mishaps + 1
    /\ causes' = causes \cup {kind}

NoFault == UNCHANGED <<causes, mishaps>>

--------------------------------------------------------------------------------
(* The daemon.                                                             *)

daemonOnly == <<operator, build, backup, lateVars>>

(* Mutant: the daemon starts without the lock.                             *)
LaunchUnlocked ==
    /\ daemon = "down"
    /\ lock' = "daemon"
    /\ daemon' = "store"
    /\ NoFault
    /\ UNCHANGED <<daemonOnly, db, audit, unaudited, local>>

(* DeploymentLock::acquire does not wait: with the lock held the process   *)
(* ends.                                                                   *)
Launch ==
    /\ daemon = "down"
    /\ lock = "free"
    /\ lock' = "daemon"
    /\ daemon' = "store"
    /\ NoFault
    /\ UNCHANGED <<daemonOnly, db, audit, unaudited, local>>

(* A step of main returns an error: the process ends.                      *)
StartFails ==
    /\ daemon \in {"model", "discover"}
    /\ daemon' = "down"
    /\ lock' = "free"
    /\ NoFault
    /\ UNCHANGED <<daemonOnly, db, audit, unaudited, local>>

(* Mutant: whatever is in the file is opened.                              *)
initialize_anything ==
    /\ daemon = "store"
    /\ db' = IF db.state \in {"absent", "empty"} THEN Whole(0, {}) ELSE db
    /\ daemon' = "audit"
    /\ NoFault
    /\ UNCHANGED <<lock, daemonOnly, audit, unaudited, local>>

(* initialize creates the tables in a missing or an empty file and refuses *)
(* one that is cut short.                                                  *)
initialize ==
    /\ daemon = "store"
    /\ \/ /\ db.state \in {"absent", "empty"}
          /\ db' = Whole(0, {}) /\ daemon' = "audit" /\ UNCHANGED lock
       \/ /\ db.state = "whole"
          /\ daemon' = "audit" /\ UNCHANGED <<db, lock>>
       \/ /\ db.state = "partial"
          /\ daemon' = "down" /\ lock' = "free" /\ UNCHANGED db
    /\ NoFault
    /\ UNCHANGED <<daemonOnly, audit, unaudited, local>>

(* MetadataAudit::open creates the file or appends to what is there.       *)
OpenAudit ==
    /\ daemon = "audit"
    /\ audit' = IF audit.state \in {"absent", "empty"} THEN Whole(0, {}) ELSE audit
    /\ daemon' = "model"
    /\ NoFault
    /\ UNCHANGED <<lock, daemonOnly, db, unaudited, local>>

ProbeModel ==
    /\ daemon = "model"
    /\ daemon' = "knowledge"
    /\ NoFault
    /\ UNCHANGED <<lock, daemonOnly, db, audit, unaudited, local>>

(* The readiness query must succeed under the configured route.            *)
ProbeKnowledge(answered) ==
    /\ daemon = "knowledge"
    /\ IF answered THEN daemon' = "localwrite" /\ UNCHANGED lock
                   ELSE daemon' = "down" /\ lock' = "free"
    /\ NoFault
    /\ UNCHANGED <<daemonOnly, db, audit, unaudited, local>>

(* A failing LocalWrite probe leaves that workflow out and goes on.        *)
ProbeLocalWrite ==
    /\ daemon = "localwrite"
    /\ \E ready \in BOOLEAN : local' = ready
    /\ daemon' = "discover"
    /\ NoFault
    /\ UNCHANGED <<lock, daemonOnly, db, audit, unaudited>>

(* discover_runs has loaded every run; the listener accepts commands.      *)
Serve ==
    /\ daemon = "discover"
    /\ daemon' = "serving"
    /\ NoFault
    /\ UNCHANGED <<lock, daemonOnly, db, audit, unaudited, local>>

Grown(file, c) == Whole(file.n + 1, file.contracts \cup {c})

(* append_transition, then the audit record of its event.                  *)
Commit ==
    /\ daemon \in {"serving", "draining"}
    /\ db.n < MaxWrites
    /\ \E c \in ContractsOf[build] : db' = Grown(db, c)
    /\ unaudited' = unaudited + 1
    /\ NoFault
    /\ UNCHANGED <<lock, daemon, daemonOnly, audit, local>>

Record ==
    /\ daemon \in {"serving", "draining"}
    /\ unaudited > 0
    /\ unaudited' = unaudited - 1
    /\ audit' = [audit EXCEPT !.n = @ + 1]
    /\ NoFault
    /\ UNCHANGED <<lock, daemon, daemonOnly, db, local>>

(* A termination signal: the service stops accepting work and drains.      *)
Signal ==
    /\ daemon = "serving"
    /\ daemon' = "draining"
    /\ NoFault
    /\ UNCHANGED <<lock, daemonOnly, db, audit, unaudited, local>>

(* shutdown_sequence has drained the service and flushed the audit file;   *)
(* main returns and drops the lock.                                        *)
Leave ==
    /\ daemon = "draining"
    /\ unaudited = 0
    /\ daemon' = "down"
    /\ lock' = "free"
    /\ NoFault
    /\ UNCHANGED <<daemonOnly, db, audit, unaudited, local>>

(* The drain timed out: the lock goes the same way, while the process goes *)
(* on with the work it had started until the runtime is shut down; a new   *)
(* daemon or a command may run meanwhile.                                  *)
LeaveBusy ==
    /\ daemon = "draining"
    /\ ~leaving
    /\ daemon' = "down"
    /\ lock' = "free"
    /\ leaving' = TRUE
    /\ behind' = unaudited
    /\ unaudited' = 0
    /\ Fault("late")
    /\ UNCHANGED <<operator, build, backup, db, audit, local>>

LateCommit ==
    /\ leaving
    /\ db.state = "whole" /\ db.n < MaxWrites
    /\ \E c \in ContractsOf[build] : db' = Grown(db, c)
    /\ behind' = behind + 1
    /\ NoFault
    /\ UNCHANGED <<lock, daemon, operator, build, backup, audit, unaudited,
                   leaving, local>>

LateRecord ==
    /\ leaving
    /\ behind > 0
    /\ behind' = behind - 1
    /\ audit' = [audit EXCEPT !.n = @ + 1]
    /\ NoFault
    /\ UNCHANGED <<lock, daemon, operator, build, backup, db, unaudited,
                   leaving, local>>

(* The work is done, or the process is killed before.                      *)
Left ==
    /\ leaving
    /\ leaving' = FALSE
    /\ behind' = 0
    /\ NoFault
    /\ UNCHANGED <<lock, daemon, operator, build, backup, db, audit, unaudited,
                   local>>

(* The kernel drops the lock of a process that ended.                      *)
DaemonCrash ==
    /\ daemon # "down"
    /\ daemon' = "down"
    /\ lock' = IF lock = "daemon" THEN "free" ELSE lock
    /\ unaudited' = 0
    /\ Fault("crash")
    /\ UNCHANGED <<daemonOnly, db, audit, local>>

--------------------------------------------------------------------------------
(* The operator command.                                                   *)

operatorOnly == <<daemon, build, unaudited, lateVars, local>>

Acquire(next) ==
    /\ operator = "idle"
    /\ lock = "free"
    /\ lock' = "operator"
    /\ operator' = next

Release == lock' = "free" /\ operator' = "idle"

(* validate_inspection: every contract in the store is one the deployment  *)
(* supports.                                                               *)
validate_inspection(file) ==
    file.state = "whole" /\ file.contracts \subseteq ContractsOf[build]

(* create_backup: lock and directory.                                      *)
create_backup ==
    /\ ~backup.exists
    /\ Acquire("copydb")
    /\ backup' = [NoBackup EXCEPT !.exists = TRUE]
    /\ NoFault
    /\ UNCHANGED <<operatorOnly, db, audit>>

(* Mutant: the file is copied without its write-ahead log.                 *)
BackupDbFile ==
    /\ operator = "copydb"
    /\ validate_inspection(db)
    /\ backup' = [backup EXCEPT !.db = [db EXCEPT !.n = 0]]
    /\ operator' = "copyaudit"
    /\ NoFault
    /\ UNCHANGED <<lock, operatorOnly, db, audit>>

(* backup_to copies through a temporary file and inspects the copy.        *)
BackupDb ==
    /\ operator = "copydb"
    /\ validate_inspection(db)
    /\ backup' = [backup EXCEPT !.db = db]
    /\ operator' = "copyaudit"
    /\ NoFault
    /\ UNCHANGED <<lock, operatorOnly, db, audit>>

BackupAudit ==
    /\ operator = "copyaudit"
    /\ audit.state # "absent"
    /\ backup' = [backup EXCEPT !.audit = audit]
    /\ operator' = "manifest"
    /\ NoFault
    /\ UNCHANGED <<lock, operatorOnly, db, audit>>

(* write_manifest comes last; it names the digests taken of the copies.    *)
write_manifest ==
    /\ operator = "manifest"
    /\ backup' = [backup EXCEPT !.manifest =
                    [present |-> TRUE, db |-> backup.db, audit |-> backup.audit,
                     of |-> ContractsOf[build]]]
    /\ Release
    /\ NoFault
    /\ UNCHANGED <<operatorOnly, db, audit>>

(* A step is refused or fails: the directory is removed with what it has.  *)
BackupFails ==
    /\ operator \in {"copydb", "copyaudit", "manifest"}
    /\ backup' = NoBackup
    /\ Release
    /\ NoFault
    /\ UNCHANGED <<operatorOnly, db, audit>>

(* verify_backup: the manifest is of a compatible deployment, the files    *)
(* are the ones it names, and the store is supported.                      *)
verify_backup ==
    /\ backup.manifest.present
    /\ backup.manifest.of = ContractsOf[build]
    /\ backup.db = backup.manifest.db
    /\ backup.audit = backup.manifest.audit
    /\ validate_inspection(backup.db)

(* restore_backup: lock, empty target, verification.                       *)
restore_backup ==
    /\ db = Absent /\ audit = Absent
    /\ verify_backup
    /\ Acquire("restoredb")
    /\ NoFault
    /\ UNCHANGED <<operatorOnly, db, audit, backup>>

RestoreDb ==
    /\ operator = "restoredb"
    /\ db' = backup.db
    /\ operator' = "restoreaudit"
    /\ NoFault
    /\ UNCHANGED <<lock, operatorOnly, audit, backup>>

(* copy_quiesced of the database fails: what it has written stays.         *)
RestoreDbFails ==
    /\ operator = "restoredb"
    /\ db' \in {Absent, Empty, Partial}
    /\ Release
    /\ Fault("copy")
    /\ UNCHANGED <<operatorOnly, audit, backup>>

RestoreAudit ==
    /\ operator = "restoreaudit"
    /\ audit' = backup.audit
    /\ operator' = "inspect"
    /\ NoFault
    /\ UNCHANGED <<lock, operatorOnly, db, backup>>

(* copy_quiesced of the audit file fails: the database is removed, the     *)
(* part of the audit file is not.                                          *)
RestoreAuditFails ==
    /\ operator = "restoreaudit"
    /\ audit' \in {Absent, Empty, Partial}
    /\ db' = Absent
    /\ Release
    /\ Fault("copy")
    /\ UNCHANGED <<operatorOnly, backup>>

(* The restored database is inspected: it passes, or the inspection itself *)
(* fails and both files stay; the copy of a verified backup is never       *)
(* incompatible, so the branch that removes both is not reached.           *)
RestoreInspect ==
    /\ operator = "inspect"
    /\ Release
    /\ NoFault
    /\ UNCHANGED <<operatorOnly, db, audit, backup>>

(* The command dies: the lock goes, every file stays as it is.             *)
OperatorCrash ==
    /\ operator # "idle"
    /\ \/ /\ operator = "restoredb"
          /\ db' \in {Empty, Partial} /\ UNCHANGED audit
       \/ /\ operator = "restoreaudit"
          /\ audit' \in {Empty, Partial} /\ UNCHANGED db
       \/ /\ operator \notin {"restoredb", "restoreaudit"}
          /\ UNCHANGED <<db, audit>>
    /\ Release
    /\ Fault("copy")
    /\ UNCHANGED <<operatorOnly, backup>>

(* An administrator, with nothing running: empties the data directory, or  *)
(* changes the deployment (external).                                      *)
Quiet == daemon = "down" /\ operator = "idle" /\ ~leaving

Wipe ==
    /\ Quiet
    /\ db # Absent \/ audit # Absent
    /\ db' = Absent /\ audit' = Absent
    /\ NoFault
    /\ UNCHANGED <<lock, operatorOnly, operator, backup>>

Redeploy ==
    /\ Quiet
    /\ \E b \in Builds \ {build} : build' = b
    /\ NoFault
    /\ UNCHANGED <<lock, daemon, operator, db, audit, backup, unaudited, lateVars,
                   local>>

Daemon ==
    \/ Launch \/ StartFails \/ initialize \/ OpenAudit \/ ProbeModel
    \/ ProbeLocalWrite \/ Serve \/ Commit \/ Record \/ Signal \/ Leave
    \/ LateCommit \/ LateRecord \/ Left

(* The ways the daemon ends with calls of the harness still in progress.   *)
DaemonEnds == LeaveBusy \/ DaemonCrash

Operator ==
    \/ create_backup \/ BackupDb \/ BackupAudit \/ write_manifest \/ BackupFails
    \/ restore_backup \/ RestoreDb \/ RestoreDbFails \/ RestoreAudit
    \/ RestoreAuditFails \/ RestoreInspect \/ OperatorCrash \/ Wipe \/ Redeploy

DeployNext ==
    \/ Daemon \/ DaemonEnds \/ Operator
    \/ \E answered \in BOOLEAN : ProbeKnowledge(answered)

DeploySpec == DeployInit /\ [][DeployNext]_deployVars

--------------------------------------------------------------------------------
(* Properties.                                                             *)

Contracts == UNION {ContractsOf[b] : b \in Builds}

Files == {Absent, Empty} \cup
    [state : {"whole", "partial"}, n : Nat, contracts : SUBSET Contracts]

Manifests == [present : BOOLEAN, db : Files, audit : Files, of : SUBSET Contracts]

(* Every variable has the shape the daemon and the operator give it.       *)
DeployTypeOK ==
    /\ lock \in {"free", "daemon", "operator"}
    /\ daemon \in {"down", "store"} \cup Opened
    /\ operator \in {"idle", "copydb", "copyaudit", "manifest", "restoredb",
                     "restoreaudit", "inspect"}
    /\ build \in Builds
    /\ db \in Files /\ audit \in Files
    /\ backup \in [exists : BOOLEAN, db : Files, audit : Files, manifest : Manifests]
    /\ unaudited \in Nat
    /\ leaving \in BOOLEAN
    /\ behind \in Nat
    /\ local \in BOOLEAN

(* The audit file has no record of a transition the database does not      *)
(* have, in the data directory and in a backup that verifies, across       *)
(* crashes, backups and restores: the copies are taken at one instant.     *)
(* The exceptions are a daemon that left while its work went on, so that   *)
(* the backup's two copies straddle a commit, and a restore that failed    *)
(* half-way and left an audit file behind.                                 *)
AuditNeverAhead ==
    causes \cap {"late", "copy"} = {} =>
        /\ audit.n <= db.n
        /\ verify_backup => backup.audit.n <= backup.db.n

(* While a backup or a restore holds the lock, only it changes the files   *)
(* of the data directory: the audit file is copied "only while quiesced".  *)
(* The exception is the work of a daemon whose drain timed out.            *)
Quiesced ==
    [][(operator # "idle" /\ <<db, audit>>' # <<db, audit>>)
          => Operator \/ leaving]_deployVars

(* A daemon serves a whole store and a whole audit file, and the store     *)
(* lacks only what a restore that did not end left out.                    *)
ServesWhole ==
    daemon \in {"serving", "draining"} =>
        db.state = "whole" /\ ("copy" \notin causes => audit.state = "whole")

================================================================================
