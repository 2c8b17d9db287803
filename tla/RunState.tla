-------------------------------- MODULE RunState --------------------------------
(***************************************************************************)
(* DurableRunState: the state that a run's journal reduces to.  The same   *)
(* reducer runs when the harness emits an event and when recovery replays  *)
(* the journal.  An event is a record with a kind and the fields the       *)
(* reducer looks at; identifiers created for an effect, an attempt or a    *)
(* retrieval are the sequence number of the event that introduces them, so *)
(* they are fresh and positive (sequence 0 is RunStarted).                 *)
(*                                                                         *)
(* Not here: the suspension events (module DurableApproval), limits an     *)
(* event repeats from the budget of the run it belongs to, and the chained *)
(* digest, which is a function of the events in order.                     *)
(***************************************************************************)
EXTENDS Naturals, FiniteSets

CONSTANTS
    Nodes,      \* GraphNodeId values of the graph definition
    Kind        \* GraphNodeKind of each node

Kinds == {"Retrieve", "Model", "Action", "Verify", "Decision", "Complete", "Fail"}

ASSUME KindAssumption == Kind \in [Nodes -> Kinds]

None == 0       \* Option::None for identifiers and iterations

NoNode == ""    \* no graph node

Dimensions == {"model", "tool", "approval", "iteration", "graph"}

Phases == {"Observe", "Retrieve", "Plan", "Act", "Verify", "Reflect"}

Outcomes == {"Completed", "Failed", "Cancelled", "Exceeded"}

Statuses == {"Pending", "Running"} \cup Outcomes

(* DurableLoopPosition as a pair; the phase or the decision second.        *)
LoopPositions ==
    ({"NotStarted", "Ready", "ReflectCompleted", "Finished"} \X {"-"})
      \cup ({"PhaseReady", "PhaseRunning"} \X Phases)
      \cup ({"Decided"} \X {"Continue", "Complete", "Fail"})

GraphState ==
    [at : {"None", "Ready", "Running", "Finished"}, node : Nodes \cup {NoNode},
     attempt : Nat, steps : Nat, anchor : Nat, anchorNode : Nodes \cup {NoNode}]

DurableRunState ==
    [seq : Nat, status : Statuses, degraded : BOOLEAN, usage : [Dimensions -> Nat],
     iteration : Nat, completed : Nat, loop : LoopPositions,
     continuation : {"Initial", "Restartable", "Transient"},
     pending : SUBSET ({"Model", "Approval", "Tool"} \X Nat),
     retrieving : Nat, restartable : Nat, manifest : Nat, graph : GraphState]

initial ==
    [seq |-> 0, status |-> "Pending", degraded |-> FALSE,
     usage |-> [d \in Dimensions |-> 0], iteration |-> None, completed |-> 0,
     loop |-> <<"NotStarted", "-">>, continuation |-> "Initial", pending |-> {},
     retrieving |-> None, restartable |-> None, manifest |-> None,
     graph |-> [at |-> "None", node |-> NoNode, attempt |-> None, steps |-> 0,
                anchor |-> None, anchorNode |-> NoNode]]

--------------------------------------------------------------------------------
(* What the graph definition fixes about a node.                           *)

recovery(n) ==
    CASE Kind[n] = "Retrieve" -> "FreshRetrieval"
      [] Kind[n] = "Decision" -> "DeterministicBoundary"
      [] OTHER -> "Never"

continuation_for(n) == IF recovery(n) = "Never" THEN "Transient" ELSE "Restartable"

--------------------------------------------------------------------------------
(* Pieces of a transition.                                                 *)

Continues(s, c) == [s EXCEPT !.continuation = c]

Spends(s, d, n) == [s EXCEPT !.usage = [@ EXCEPT ![d] = n]]

Opens(s, effect) == [s EXCEPT !.pending = @ \cup {effect}]

remove_pending(s, effect) == [s EXCEPT !.pending = @ \ {effect}]

AtLoop(s, position) == [s EXCEPT !.loop = position]

InGraph(s, g) == [s EXCEPT !.graph = g]

Unanchored(g) == [[g EXCEPT !.anchor = None] EXCEPT !.anchorNode = NoNode]

is_quiescent(s) == s.pending = {} /\ s.retrieving = None

(* Where a retrieval may start: the Retrieve phase of the loop, or a       *)
(* Retrieve node that is running.                                          *)
Retrieves(s) ==
    \/ s.loop = <<"PhaseRunning", "Retrieve">>
    \/ s.graph.at = "Running" /\ Kind[s.graph.node] = "Retrieve"

start_knowledge_retrieval(s, id) ==
    Continues([[[s EXCEPT !.retrieving = id] EXCEPT !.restartable = id]
                  EXCEPT !.manifest = None], "Transient")

(* A model call gives up the possibility to go back to the retrieval.      *)
ClearsAnchor(s) ==
    IF s.graph.at = "None" THEN s
    ELSE InGraph([s EXCEPT !.restartable = None], Unanchored(s.graph))

RunsNode(s, n, attempt, step) ==
    LET g == [[[[s.graph EXCEPT !.at = "Running"] EXCEPT !.node = n]
                  EXCEPT !.attempt = attempt] EXCEPT !.steps = step]
        h == IF recovery(n) = "FreshRetrieval"
             THEN [[g EXCEPT !.anchor = attempt] EXCEPT !.anchorNode = n] ELSE g
    IN  Continues(Spends(InGraph(s, h), "graph", step), "Transient")

finish_graph_terminal(s, outcome) ==
    Continues([InGraph(s, Unanchored([s.graph EXCEPT !.at = "Finished"]))
                 EXCEPT !.status = outcome], "Transient")

AfterPhase(phase) ==
    CASE phase = "Observe"  -> <<"PhaseReady", "Retrieve">>
      [] phase = "Retrieve" -> <<"PhaseReady", "Plan">>
      [] phase = "Plan"     -> <<"PhaseReady", "Act">>
      [] phase = "Act"      -> <<"PhaseReady", "Verify">>
      [] phase = "Verify"   -> <<"PhaseReady", "Reflect">>
      [] phase = "Reflect"  -> <<"ReflectCompleted", "-">>

--------------------------------------------------------------------------------
(* apply: which events the reducer accepts ...                             *)

apply_loop_accepts(s, e) ==
    CASE e.kind = "IterationStarted" ->
            /\ s.loop[1] \in {"NotStarted", "Ready"}
            /\ e.iteration = s.usage["iteration"] + 1
      [] e.kind = "PhaseEntered" ->
            s.iteration = e.iteration /\ s.loop = <<"PhaseReady", e.phase>>
      [] e.kind = "PhaseCompleted" ->
            /\ s.iteration = e.iteration /\ s.loop = <<"PhaseRunning", e.phase>>
            /\ e.phase = "Retrieve" => s.retrieving = None
      [] e.kind = "ReflectDecision" ->
            s.iteration = e.iteration /\ s.loop[1] = "ReflectCompleted"
      [] e.kind = "IterationCompleted" ->
            s.iteration = e.iteration /\ s.loop[1] = "Decided"
      [] e.kind = "LoopCompleted" -> e.completed = s.completed
      [] e.kind = "LoopFailed" -> s.iteration # None /\ s.iteration = e.iteration

apply_graph_accepts(s, e) ==
    LET g == s.graph
        onNode == g.at = "Running" /\ g.attempt = e.attempt /\ g.node = e.node
        nextStep == e.step = g.steps + 1 /\ e.step = s.usage["graph"] + 1
    IN  CASE e.kind = "GraphStarted" ->
                g.at = "None" /\ s.loop[1] = "NotStarted" /\ s.status = "Running"
          [] e.kind = "NodeEntered" -> g.at = "Ready" /\ g.node = e.node /\ nextStep
          [] e.kind = "NodeRestarted" ->
                /\ \/ /\ g.node = e.node /\ recovery(e.node) # "Never"
                      /\ \/ g.at = "Ready" /\ e.previous = None
                         \/ g.at = "Running" /\ e.previous = g.attempt
                   \/ /\ g.anchor # None /\ g.anchorNode = e.node
                      /\ recovery(e.node) = "FreshRetrieval" /\ e.previous = g.anchor
                /\ nextStep
          [] e.kind = "NodeCompleted" -> onNode /\ is_quiescent(s)
          [] e.kind \in {"GraphCompleted", "GraphFailed"} ->
                /\ g.steps = e.steps /\ onNode /\ is_quiescent(s)
                /\ e.kind = "GraphCompleted" => Kind[g.node] = "Complete"
                /\ s.status = "Running"

LoopEvents == {"IterationStarted", "PhaseEntered", "PhaseCompleted", "ReflectDecision",
               "IterationCompleted", "LoopCompleted", "LoopFailed"}

GraphEvents == {"GraphStarted", "NodeEntered", "NodeRestarted", "NodeCompleted",
                "GraphCompleted", "GraphFailed"}

apply_accepts(s, e) ==
    CASE e.kind \in LoopEvents -> apply_loop_accepts(s, e)
      [] e.kind \in GraphEvents -> apply_graph_accepts(s, e)
      [] e.kind = "RunStarted" -> s.status = "Pending"
      [] e.kind = "RunFinished" -> s.status = "Running"
      [] e.kind = "ModelStarted" -> e.usage = s.usage["model"] + 1
      [] e.kind = "ModelEnded" -> <<"Model", e.id>> \in s.pending
      [] e.kind = "GroundingBound" ->
            s.manifest # None /\ s.manifest = e.retrieval /\ <<"Model", e.id>> \in s.pending
      [] e.kind = "ApprovalRequested" -> e.usage = s.usage["approval"] + 1
      [] e.kind \in {"ApprovalEnded", "ApprovalGranted"} ->
            <<"Approval", e.id>> \in s.pending
      [] e.kind = "ToolStarted" -> e.usage = s.usage["tool"] + 1
      [] e.kind = "ToolEnded" -> <<"Tool", e.id>> \in s.pending
      [] e.kind = "RetrievalStarted" -> s.retrieving = None /\ Retrieves(s)
      [] e.kind = "RetrievalRestarted" ->
            s.retrieving # None /\ s.retrieving = e.previous /\ Retrieves(s)
      [] e.kind = "RetrievalCompleted" ->
            s.restartable # None /\ s.retrieving # None /\ s.retrieving = e.id
      [] e.kind = "RetrievalFailed" -> s.retrieving # None /\ s.retrieving = e.id
      [] OTHER -> TRUE

--------------------------------------------------------------------------------
(* ... and what they make of the state.                                    *)

apply_loop(s, e) ==
    CASE e.kind = "IterationStarted" ->
            Continues(Spends(AtLoop([s EXCEPT !.iteration = e.iteration],
                                    <<"PhaseReady", "Observe">>),
                             "iteration", e.iteration), "Transient")
      [] e.kind = "PhaseEntered" -> AtLoop(s, <<"PhaseRunning", e.phase>>)
      [] e.kind = "PhaseCompleted" ->
            AtLoop(IF e.phase = "Retrieve" THEN [s EXCEPT !.restartable = None] ELSE s,
                   AfterPhase(e.phase))
      [] e.kind = "ReflectDecision" ->
            AtLoop([s EXCEPT !.completed = @ + 1], <<"Decided", e.decision>>)
      [] e.kind = "IterationCompleted" /\ s.loop[2] = "Continue" ->
            Continues(AtLoop([s EXCEPT !.iteration = None], <<"Ready", "-">>),
                      "Restartable")
      [] OTHER -> AtLoop(s, <<"Finished", "-">>)

apply_graph(s, e) ==
    CASE e.kind = "GraphStarted" ->
            Continues(InGraph(s, [at |-> "Ready", node |-> e.node, attempt |-> None,
                                  steps |-> 0, anchor |-> None, anchorNode |-> NoNode]),
                      continuation_for(e.node))
      [] e.kind \in {"NodeEntered", "NodeRestarted"} ->
            RunsNode(s, e.node, e.attempt, e.step)
      [] e.kind = "NodeCompleted" ->
            Continues(InGraph(s, [[[s.graph EXCEPT !.at = "Ready"] EXCEPT !.node = e.next]
                                    EXCEPT !.attempt = None]),
                      continuation_for(e.next))
      [] e.kind = "GraphCompleted" -> finish_graph_terminal(s, "Completed")
      [] e.kind = "GraphFailed" -> finish_graph_terminal(s, "Failed")

apply_kind(s, e) ==
    CASE e.kind \in LoopEvents -> apply_loop(s, e)
      [] e.kind \in GraphEvents -> apply_graph(s, e)
      [] e.kind = "RunStarted" -> [s EXCEPT !.status = "Running"]
      [] e.kind = "RunFinished" -> [s EXCEPT !.status = e.outcome]
      [] e.kind = "AuditDegraded" -> [s EXCEPT !.degraded = TRUE]
      [] e.kind = "ModelStarted" ->
            Continues(Opens(Spends(ClearsAnchor(s), "model", e.usage), <<"Model", e.id>>),
                      "Transient")
      [] e.kind = "ModelEnded" -> remove_pending(s, <<"Model", e.id>>)
      [] e.kind = "ApprovalRequested" ->
            Continues(Opens(Spends(s, "approval", e.usage), <<"Approval", e.id>>),
                      "Transient")
      [] e.kind \in {"ApprovalEnded", "ApprovalGranted"} ->
            remove_pending(s, <<"Approval", e.id>>)
      [] e.kind = "ToolStarted" ->
            Continues(Opens(Spends(s, "tool", e.usage), <<"Tool", e.id>>), "Transient")
      [] e.kind = "ToolEnded" -> remove_pending(s, <<"Tool", e.id>>)
      [] e.kind \in {"RetrievalStarted", "RetrievalRestarted"} ->
            start_knowledge_retrieval(s, e.id)
      [] e.kind = "RetrievalCompleted" ->
            [[s EXCEPT !.retrieving = None] EXCEPT !.manifest = e.id]
      [] e.kind = "RetrievalFailed" ->
            InGraph([[s EXCEPT !.retrieving = None] EXCEPT !.manifest = None],
                    Unanchored(s.graph))
      [] OTHER -> Continues(s, "Transient")

apply(s, e) == [apply_kind(s, e) EXCEPT !.seq = @ + 1]

--------------------------------------------------------------------------------
(* Recovery: what recover_loaded_run makes of the replayed state.          *)

can_resume(g) ==
    \/ g.anchor # None
    \/ g.at \in {"Ready", "Running"} /\ recovery(g.node) # "Never"

(* Mutant: unresolved effects are not looked at.                           *)
ClassifyAnyPending(s, contract, late) ==
    CASE s.status = "Completed" -> "Completed"
      [] s.status \in Outcomes \ {"Completed"} -> "TerminalFailure"
      [] s.status = "Pending" -> "Manual"
      [] s.status = "Running" ->
            IF late THEN "TerminalFailure"
            ELSE IF /\ contract # "NonRestartable"
                    /\ \/ /\ contract = "RestartableRetrieval"
                          /\ s.loop = <<"PhaseRunning", "Retrieve">>
                          /\ s.restartable # None
                       \/ contract = "Graph" /\ can_resume(s.graph)
                       \/ s.continuation \in {"Initial", "Restartable"}
                 THEN "Resumable" ELSE "Manual"

(* `late': the elapsed budget is used up when the run is recovered.        *)
Classify(s, contract, late) ==
    CASE s.pending # {} -> "Manual"
      [] s.pending = {} /\ s.status = "Completed" -> "Completed"
      [] s.pending = {} /\ s.status \in Outcomes \ {"Completed"} -> "TerminalFailure"
      [] s.pending = {} /\ s.status = "Pending" -> "Manual"
      [] s.pending = {} /\ s.status = "Running" ->
            IF late THEN "TerminalFailure"
            ELSE IF /\ contract # "NonRestartable"
                    /\ \/ /\ contract = "RestartableRetrieval"
                          /\ s.loop = <<"PhaseRunning", "Retrieve">>
                          /\ s.restartable # None
                       \/ contract = "Graph" /\ can_resume(s.graph)
                       \/ s.continuation \in {"Initial", "Restartable"}
                 THEN "Resumable" ELSE "Manual"
================================================================================
