------------------------------- MODULE Identity -------------------------------
(***************************************************************************)
(* Verified principals and the default-deny authorization policy that      *)
(* every operation of the service asks before it reads or changes anything *)
(* (agent-identity).  A principal is what the transport verified: an id    *)
(* and a set of roles.  A resource names the owner, the requester and the  *)
(* workflow that the durable record gives, where its kind has them.        *)
(***************************************************************************)
EXTENDS Naturals

CONSTANTS
    People,             \* PrincipalId values
    Workflows,          \* every WorkflowId a request may name
    Allowed,            \* workflow ids the policy was built with
    RequesterMayApprove \* ApprovalSeparation of the policy

ASSUME PolicyAssumption ==
    /\ Allowed # {} /\ Allowed \subseteq Workflows
    /\ RequesterMayApprove \in BOOLEAN

Roles == {"User", "Approver", "Operator"}

(* VerifiedPrincipal::new refuses a principal without a role.              *)
Principals == [id : People, roles : SUBSET Roles \ {{}}]

Has(p, role) == role \in p.roles

OwnedRunActions == {"ReadRun", "ReadEvents", "CancelRun", "ResumeRun", "AbortWaiting"}

SessionActions == {"ArchiveSession", "ReadSessionHistory"}

ApprovalActions == {"ReadApprovalPreview", "DecideApproval"}

OperatorActions == {"ReadOperations", "InspectReconciliation"}

Actions ==
    {"CreateSession", "ListSessions", "StartWorkflow", "ListWaiting", "ReadRuntimeStatus"}
        \cup OwnedRunActions \cup SessionActions \cup ApprovalActions \cup OperatorActions

(* The actions that change durable state or a live run.                    *)
Mutations ==
    {"CreateSession", "ArchiveSession", "StartWorkflow", "CancelRun", "ResumeRun",
     "AbortWaiting", "DecideApproval"}

Global == [kind |-> "Global"]
OwnedSession(o) == [kind |-> "OwnedSession", owner |-> o]
Workflow(w) == [kind |-> "Workflow", workflow |-> w]
OwnedRun(w, o) == [kind |-> "OwnedRun", workflow |-> w, owner |-> o]
Approval(w, o, r) == [kind |-> "Approval", workflow |-> w, owner |-> o, requester |-> r]
LegacyUnowned == [kind |-> "LegacyUnowned"]

Resources ==
    {Global, LegacyUnowned}
        \cup {OwnedSession(o) : o \in People}
        \cup {Workflow(w) : w \in Workflows}
        \cup {OwnedRun(w, o) : w \in Workflows, o \in People}
        \cup {Approval(w, o, r) : w \in Workflows, o \in People, r \in People}

(* Every pair of action and resource that is not listed is denied.         *)
authorize(p, a, res) ==
    \/ /\ a \in {"CreateSession", "ListSessions"} /\ res.kind = "Global"
       /\ Has(p, "User")
    \/ /\ a \in SessionActions /\ res.kind = "OwnedSession"
       /\ Has(p, "User") /\ p.id = res.owner
    \/ /\ a = "StartWorkflow" /\ res.kind = "Workflow"
       /\ Has(p, "User") /\ res.workflow \in Allowed
    \/ /\ a \in OwnedRunActions /\ res.kind = "OwnedRun"
       /\ Has(p, "User") /\ p.id = res.owner /\ res.workflow \in Allowed
    \/ /\ a = "ListWaiting" /\ res.kind = "Global"
       /\ Has(p, "Approver")
    \/ /\ a = "ReadRuntimeStatus" /\ res.kind = "Global"
       /\ \E role \in Roles : Has(p, role)
    \/ /\ a \in ApprovalActions /\ res.kind = "Approval"
       /\ Has(p, "Approver") /\ res.workflow \in Allowed
       /\ RequesterMayApprove \/ p.id # res.requester
    \/ /\ a \in OperatorActions /\ res.kind = "Global"
       /\ Has(p, "Operator")

================================================================================
