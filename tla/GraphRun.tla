-------------------------------- MODULE GraphRun --------------------------------
(***************************************************************************)
(* The graph engine driving one run through the harness, with crashes and  *)
(* recovery.  A program callback may make any effect call its node kind    *)
(* gives it, ignore or report errors, and return at any time.              *)
(***************************************************************************)
EXTENDS HarnessRun

CONSTANTS
    StartNode,  \* start of the GraphDefinition
    Successors  \* nodes a node's transitions lead to

ASSUME GraphAssumption ==
    /\ StartNode \in Nodes
    /\ Successors \in [Nodes -> SUBSET Nodes]
    /\ \A n \in Nodes : Successors[n] = {} <=> Kind[n] \in {"Complete", "Fail"}

VARIABLE eng    \* the engine's locals: node, attempt, previous attempt, restarting

vars == <<ctx, op, store, stop, hand, performed, faults, eng>>

Fresh(n) == [node |-> n, attempt |-> None, previous |-> None, restarting |-> FALSE]

Init == HarnessInit /\ eng = Fresh(StartNode)

--------------------------------------------------------------------------------
(* GraphEngine::run and execute.                                           *)

start_graph ==
    /\ op.at = "begin"
    /\ preflight(Emit(ctx, [kind |-> "GraphStarted", node |-> StartNode],
                      Auditing("configured", "enter", "returnedErr")), "returnedErr")
    /\ UNCHANGED <<stop, hand, performed, eng>>

EnterEvent ==
    IF eng.restarting
    THEN [kind |-> "NodeRestarted", previous |-> eng.previous, node |-> eng.node,
          attempt |-> ctx.next, step |-> ctx.usage["graph"] + 1]
    ELSE [kind |-> "NodeEntered", node |-> eng.node, attempt |-> ctx.next,
          step |-> ctx.usage["graph"] + 1]

(* Where execute goes once the node is entered.                            *)
Entered == IF Kind[eng.node] \in {"Complete", "Fail"} THEN "finish" ELSE "callback"

enter_graph_node ==
    /\ op.at = "enter"
    /\ preflight(reserve("graph",
                         Emit(Reserved(ctx, "graph"), EnterEvent,
                              Auditing("configured", Entered, "returnedErr")),
                         "returnedErr"), "returnedErr")
    /\ eng' = [[eng EXCEPT !.attempt = ctx.next] EXCEPT !.restarting = FALSE]
    /\ UNCHANGED <<stop, hand, performed>>

(* Mutant: the error of the terminal append is dropped.                    *)
finish_graph_anyway(kind, outcome, p) ==
    preflight(Emit(commit_status(ctx, outcome),
                   [kind |-> kind, attempt |-> eng.attempt, node |-> eng.node,
                    steps |-> ctx.usage["graph"]],
                   Auditing("lifecycle", p, p)), "returnedErr")

(* commit_finished comes before next_event: a rejected event leaves the    *)
(* context finished.                                                       *)
finish_graph(kind, outcome, p) ==
    preflight(Emit(commit_status(ctx, outcome),
                   [kind |-> kind, attempt |-> eng.attempt, node |-> eng.node,
                    steps |-> ctx.usage["graph"]],
                   Auditing("lifecycle", p, "returnedErr")), "returnedErr")

complete_graph ==
    /\ op.at = "finish"
    /\ IF Kind[eng.node] = "Complete" THEN finish_graph("GraphCompleted", "Completed", "returnedOk")
       ELSE finish_graph("GraphFailed", "Failed", "returnedOk")
    /\ UNCHANGED <<stop, hand, performed, eng>>

complete_graph_node ==
    /\ op.at = "callback"
    /\ \E n \in Successors[eng.node] :
        /\ preflight(Emit(ctx, [kind |-> "NodeCompleted", attempt |-> eng.attempt,
                                node |-> eng.node, next |-> n],
                          Auditing("configured", "enter", "returnedErr")), "returnedErr")
        /\ eng' = Fresh(n)
    /\ UNCHANGED <<stop, hand, performed>>

(* fail_callback and fail_transition: the error of fail_graph is dropped.  *)
fail_callback ==
    /\ op.at = "callback"
    /\ finish_graph("GraphFailed", "Failed", "returnedErr")
    /\ UNCHANGED <<stop, hand, performed, eng>>

--------------------------------------------------------------------------------
(* Crash, and GraphEngine::resume of a run that recovery calls Resumable.  *)

Crash == HarnessCrash /\ eng' = Fresh(StartNode)

ResumeNode ==
    LET g == store.journal.graph
        restart(n, previous) == [node |-> n, attempt |-> None, previous |-> previous,
                                 restarting |-> TRUE]
    IN  IF g.anchor # None THEN restart(g.anchorNode, g.anchor)
        ELSE restart(g.node, IF g.at = "Running" THEN g.attempt ELSE None)

resume ==
    /\ can_resume(store.journal.graph)
    /\ TakeUp("enter") /\ eng' = ResumeNode

--------------------------------------------------------------------------------

Callback ==
    /\ \/ Kind[eng.node] = "Retrieve" /\ retrieve_knowledge
       \/ Kind[eng.node] = "Model" /\ invoke_model
       \/ Kind[eng.node] = "Action" /\ (prepare_action \/ invoke_validated_action)
    /\ UNCHANGED eng

OperationStep == HarnessStep /\ UNCHANGED eng

PortAnswer == PortAnswers /\ UNCHANGED eng

EngineStep ==
    \/ start_run /\ UNCHANGED eng
    \/ start_graph \/ enter_graph_node \/ complete_graph
    \/ complete_graph_node \/ fail_callback

DeadlinePasses == Live /\ Deadline /\ UNCHANGED eng

CancelRequested == Live /\ Cancel /\ UNCHANGED eng

Next ==
    \/ OperationStep \/ PortAnswer \/ EngineStep \/ Callback
    \/ DeadlinePasses \/ CancelRequested \/ Crash \/ resume

Spec == Init /\ [][Next]_vars

(* Every await in the harness ends: the audit sink is under a timeout and  *)
(* every port wait under the run's deadline.  No port has to answer, and   *)
(* the store need not accept.  A callback that makes no further call       *)
(* returns.                                                                *)
FairSpec ==
    Spec /\ WF_vars(OperationStep) /\ WF_vars(EngineStep) /\ WF_vars(DeadlinePasses)

--------------------------------------------------------------------------------
(* The engine returns success only for an outcome that is on record, and   *)
(* reports Completed only for a run that reached a Complete node.          *)
SuccessIsDurable ==
    op.at = "returnedOk" =>
        store.journal.status = (IF Kind[eng.node] = "Complete" THEN "Completed" ELSE "Failed")

(* Whatever the ports do, the engine returns or the process dies.          *)
EngineReturns == Live ~> ~Live

================================================================================
