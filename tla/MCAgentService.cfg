SPECIFICATION Spec
CONSTANTS
    People = {"ada", "olga"}
    Workflows = {"health", "other"}
    Allowed = {"health"}
    Configured = {"health"}
    RequesterMayApprove = FALSE
    Offered <- OfferedRuns
    Sessions = {s1}
    Requests = {q1, q2}
    NoRequest = none
    Callers = {c1, c2}
    Connected <- ConnectedPrincipals
    WorkflowOf <- OneWorkflow
    MaxSessions = 1
    MaxActive = 1
    MaxResults = 1
    MaxVersion = 3
    MaxFaults = 1
    Outcomes = {"Waiting", "Completed"}
SYMMETRY Interchangeable
INVARIANTS
    OneOwner
    DrainCancelsAll
    
PROPERTIES
    FinishedForever
    ImplementsSupervisor
