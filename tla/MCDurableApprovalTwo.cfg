CONSTANTS
    Tasks = {t1, t2}
    Waits = {w1, w2}
    NoWait = NoWait
    MaxToolCalls = 1
    MaxApprovals = 2
    FailOpen = FALSE
    Faulty = FALSE
    MaxEvents = 18
SPECIFICATION LiveSpec
CHECK_DEADLOCK FALSE
 
PROPERTIES
    ImplementsOnce
    ApprovedResumes
