----------------------------- MODULE RunSupervisor -----------------------------
(***************************************************************************)
(* What the service promises about the runs it supervises, whatever the    *)
(* order in which requests, background tasks, shutdown and process exits   *)
(* happen: a session has at most one active run, the process has at most   *)
(* MaxActive of them, the workflow of a run is dispatched at most once in  *)
(* the life of the store, and after a successful drain nothing is active   *)
(* and nothing becomes active until the process is started again.          *)
(***************************************************************************)
EXTENDS Naturals, FiniteSets

CONSTANTS
    Sessions,   \* SessionId values
    Requests,   \* start_request_id values; a run is a session and a request
    NoRequest,  \* no run
    MaxActive   \* MAX_ACTIVE_RUNS

VARIABLES
    holder,     \* the request whose run is active in a session
    dispatched, \* how often the workflow of a run was started from its input
    quiesced    \* drain reported success

vars == <<holder, dispatched, quiesced>>

Init ==
    /\ holder = [s \in Sessions |-> NoRequest]
    /\ dispatched = [s \in Sessions |-> [q \in Requests |-> 0]]
    /\ quiesced = FALSE

Held == {s \in Sessions : holder[s] # NoRequest}

Claim(s, q) ==
    /\ ~quiesced
    /\ holder[s] = NoRequest
    /\ Cardinality(Held) < MaxActive
    /\ holder' = [holder EXCEPT ![s] = q]
    /\ UNCHANGED <<dispatched, quiesced>>

Dispatch(s, q) ==
    /\ ~quiesced
    /\ holder[s] = q
    /\ dispatched[s][q] = 0
    /\ dispatched' = [dispatched EXCEPT ![s][q] = 1]
    /\ UNCHANGED <<holder, quiesced>>

Release(s) ==
    /\ ~quiesced
    /\ holder' = [holder EXCEPT ![s] = NoRequest]
    /\ UNCHANGED <<dispatched, quiesced>>

Quiesce ==
    /\ Held = {}
    /\ quiesced' = TRUE
    /\ UNCHANGED <<holder, dispatched>>

(* The process ends: what was active is forgotten, what was dispatched is  *)
(* in the store.                                                           *)
Exit ==
    /\ holder' = [s \in Sessions |-> NoRequest]
    /\ quiesced' = FALSE
    /\ UNCHANGED dispatched

Next ==
    \/ \E s \in Sessions, q \in Requests : Claim(s, q) \/ Dispatch(s, q)
    \/ \E s \in Sessions : Release(s)
    \/ Quiesce
    \/ Exit

Spec == Init /\ [][Next]_vars

================================================================================
