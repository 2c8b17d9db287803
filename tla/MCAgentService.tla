----------------------------- MODULE MCAgentService -----------------------------
(***************************************************************************)
(* Small instances of the service for TLC: an owner with one session and   *)
(* two requests, and an operator whom the policy refuses every mutation.   *)
(***************************************************************************)
EXTENDS AgentService, TLC

ConnectedPrincipals ==
    {[id |-> "olga", roles |-> {"Operator"}], [id |-> "ada", roles |-> {"User"}]}

OneWorkflow == [q \in Requests |-> "health"]

OfferedRuns == Sessions \X Requests

Interchangeable == Permutations(Callers) \cup Permutations(Requests)

================================================================================
