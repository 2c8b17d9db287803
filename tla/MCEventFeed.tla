------------------------------ MODULE MCEventFeed ------------------------------
(* Connections that follow the same run.                                   *)
EXTENDS EventFeed

CONSTANT r1

FollowsRun == [k \in Readers |-> r1]

================================================================================
