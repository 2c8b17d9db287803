SPECIFICATION Spec
CONSTANTS
    People = {"ada", "olga"}
    Workflows = {"health", "other"}
    Allowed = {"health"}
    Configured = {"health"}
    RequesterMayApprove = FALSE
    Offered <- OfferedRuns
    Sessions = {s1}
    Requests = {q1}
    NoRequest = none
    Callers = {c1}
    Connected <- ConnectedPrincipals
    WorkflowOf <- OneWorkflow
    MaxSessions = 1
    MaxActive = 1
    MaxResults = 1
    MaxVersion = 3
    MaxFaults = 1
    Outcomes = {"Waiting", "Completed"}
PROPERTY DisconnectKeepsRun
