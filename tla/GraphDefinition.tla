---------------------------- MODULE GraphDefinition ----------------------------
(***************************************************************************)
(* GraphDefinition::new: which lists of nodes and edges the graph engine   *)
(* accepts.  A definition is what the caller passes: a start node,         *)
(* nodes with their kind, recovery mode and (of a decision) branches, and  *)
(* edges from a node under a transition key to a node.                     *)
(***************************************************************************)
EXTENDS Integers, FiniteSets, Sequences, SequencesExt

CONSTANTS
    MaxNodes,     \* MAX_GRAPH_NODES
    MaxEdges,     \* MAX_GRAPH_EDGES
    MaxBranches   \* MAX_DECISION_BRANCHES

ASSUME DefinitionAssumption == {MaxNodes, MaxEdges, MaxBranches} \subseteq Nat

durable_kind(kind) == IF kind = "DurableLocalWriteAction" THEN "Action" ELSE kind

Ids(d) == {n.id : n \in ToSet(d.nodes)}

Succeeded == <<"Succeeded">>
ApprovalDenied == <<"ApprovalDenied">>
VerificationPassed == <<"VerificationPassed">>
VerificationFailed == <<"VerificationFailed">>
Branch(b) == <<"Branch", b>>

validate_node(n) ==
    /\ n.recovery = CASE durable_kind(n.kind) = "Retrieve" -> "FreshRetrieval"
                      [] durable_kind(n.kind) = "Decision" -> "DeterministicBoundary"
                      [] OTHER -> "Never"
    /\ n.kind = "Decision" =>
           Len(n.branches) \in 1..MaxBranches /\ IsInjective(n.branches)

(* The transition keys that a node of this kind must have.                 *)
Expected(n) ==
    CASE n.kind \in {"Retrieve", "Model", "Action"} -> {Succeeded}
      [] n.kind = "DurableLocalWriteAction" -> {Succeeded, ApprovalDenied}
      [] n.kind = "Verify" -> {VerificationPassed, VerificationFailed}
      [] n.kind = "Decision" -> {Branch(b) : b \in ToSet(n.branches)}
      [] n.kind \in {"Complete", "Fail"} -> {}

validate_transitions(d) ==
    \A n \in ToSet(d.nodes) :
        {e.key : e \in {f \in ToSet(d.edges) : f.from = n.id}} = Expected(n)

Targets(d, n) == {e.to : e \in {f \in ToSet(d.edges) : f.from = n}}

(* Mutant: a node stays in visiting after its targets.                     *)
LeaveNodeOpen(s, n) == [s EXCEPT !.visited = @ \cup {n}]

LeaveNode(s, n) == [[s EXCEPT !.visiting = @ \ {n}] EXCEPT !.visited = @ \cup {n}]

(* The depth-first search: s holds the sets visiting and visited, and      *)
(* whether a cycle was met.                                                *)
RECURSIVE visit(_, _, _)
visit(d, n, s) ==
    IF s.cycle \/ n \in s.visiting THEN [s EXCEPT !.cycle = TRUE]
    ELSE IF n \in s.visited THEN s
    ELSE LET inside == FoldLeft(LAMBDA acc, target : visit(d, target, acc),
                                [s EXCEPT !.visiting = @ \cup {n}],
                                SetToSeq(Targets(d, n)))
         IN  IF inside.cycle THEN inside ELSE LeaveNode(inside, n)

validate_reachability_and_cycles(d) ==
    LET s == visit(d, d.start, [visiting |-> {}, visited |-> {}, cycle |-> FALSE])
    IN  /\ ~s.cycle
        /\ Cardinality(s.visited) = Cardinality(Ids(d))
        /\ \E n \in ToSet(d.nodes) : n.kind \in {"Complete", "Fail"}

GraphDefinition_new(d) ==
    /\ Len(d.nodes) \in 1..MaxNodes /\ Len(d.edges) <= MaxEdges
    /\ \A n \in ToSet(d.nodes) : validate_node(n)
    /\ Cardinality(Ids(d)) = Len(d.nodes)
    /\ d.start \in Ids(d)
    /\ \A e \in ToSet(d.edges) : {e.from, e.to} \subseteq Ids(d)
    /\ \A i, j \in 1..Len(d.edges) :
           <<d.edges[i].from, d.edges[i].key>> = <<d.edges[j].from, d.edges[j].key>> => i = j
    /\ validate_transitions(d)
    /\ validate_reachability_and_cycles(d)

NodeOf(d, id) == CHOOSE n \in ToSet(d.nodes) : n.id = id

(* GraphDefinition::transition.                                            *)
transition(d, from, key) ==
    (CHOOSE e \in ToSet(d.edges) : e.from = from /\ e.key = key).to

--------------------------------------------------------------------------------
(* The reference: within the limits, whatever the callbacks answer, the    *)
(* engine has exactly one way on from every node that is not terminal,     *)
(* enters no node twice (every set of nodes has one with no target in the  *)
(* set), can enter every node (no smaller set with the start is closed),   *)
(* and repeats after a crash only nodes whose callback writes nothing.     *)
Sound(d) ==
    /\ Len(d.nodes) <= MaxNodes /\ Len(d.edges) <= MaxEdges
    /\ \A i, j \in DOMAIN d.nodes : d.nodes[i].id = d.nodes[j].id => i = j
    /\ \A n \in ToSet(d.nodes) :
           /\ n.recovery # "Never" <=> n.kind \in {"Retrieve", "Decision"}
           /\ n.kind = "Retrieve" => n.recovery = "FreshRetrieval"
           /\ n.kind = "Decision" => /\ n.recovery = "DeterministicBoundary"
                                     /\ IsInjective(n.branches)
                                     /\ Len(n.branches) \in 1..MaxBranches
           /\ \A k \in Expected(n) :
                  Cardinality({i \in DOMAIN d.edges :
                                   d.edges[i].from = n.id /\ d.edges[i].key = k}) = 1
    /\ \A e \in ToSet(d.edges) :
           /\ e.to \in Ids(d)
           /\ \E n \in ToSet(d.nodes) : n.id = e.from /\ e.key \in Expected(n)
    /\ \A S \in SUBSET Ids(d) \ {{}} : \E n \in S : Targets(d, n) \cap S = {}
    /\ d.start \in Ids(d)
    /\ \A S \in SUBSET Ids(d) :
           d.start \in S /\ (\A n \in S : Targets(d, n) \subseteq S) => S = Ids(d)
================================================================================
