--------------------------------- MODULE MCNode ---------------------------------
(***************************************************************************)
(* An instance of Node: a read-only deployment and one with local writes,  *)
(* a write, a server with two definitions of two tools, and backends whose *)
(* answers overlap and exceed every limit.                                 *)
(***************************************************************************)
EXTENDS Node

BuildContracts ==
    [b \in Builds |-> IF b = "readonly" THEN {"answer"} ELSE {"answer", "write"}]

Text(d, n) == [doc |-> d, len |-> n]

SomePayloads ==
    [b \in Backends |->
        IF b = "ocpp"
        THEN {<<>>, <<Text("p", 2)>>, <<Text("q", 3), Text("p", 1)>>,
              <<Text("p", 2), Text("p", 3), Text("q", 1)>>}
        ELSE {<<>>, <<Text("p", 2)>>, <<Text("p", 1), Text("r", 2)>>,
              <<Text("q", 2), Text("q", 3)>>}]

SomeReaders ==
    {[id |-> "ada", roles |-> {"User"}], [id |-> "olga", roles |-> {"Approver", "Operator"}]}

(* Nodes with the edges that leave them: every way to give a node of the   *)
(* kind its transitions or to leave one out, and a terminal with one.      *)
Leaving(id, kinds, to) ==
    UNION {LET keys == CASE k = "Verify" -> {VerificationPassed, VerificationFailed}
                         [] k = "Decision" -> {Branch("x"), Branch("y")}
                         [] OTHER -> {Succeeded}
           IN  {[node |-> node(id, k, IF k = "Decision" THEN <<"x", "y">> ELSE <<>>),
                 edges |-> {edge(id, key, f[key]) : key \in {k2 \in keys : f[k2] # "none"}}] :
                    f \in [keys -> to \cup {"none"}]} : k \in kinds}

Triples ==
    LET to == {"a", "b", "c"}
    IN  {[start |-> "a", nodes |-> <<a.node, b.node, c.node>>,
          edges |-> SetToSeq(a.edges \cup b.edges \cup c.edges)] :
             a \in Leaving("a", {"Retrieve", "Verify", "Decision"}, to),
             b \in Leaving("b", {"Retrieve", "Verify", "Complete"}, to),
             c \in Leaving("c", {"Retrieve", "Fail"}, to)}

(* Two nodes, with every other defect that new looks for.                  *)
Pair(start, first, second, edges) ==
    [start |-> start, nodes |-> <<first, second>>, edges |-> edges]

Defective ==
    LET d == node("a", "Decision", <<"x">>)
        c == node("c", "Complete", <<>>)
        go == edge("a", Branch("x"), "c")
    IN  {Pair("a", d, c, <<go>>),
         Pair("z", d, c, <<go>>), Pair("a", d, d, <<go>>), Pair("a", d, c, <<go, go>>),
         Pair("a", d, c, <<go, edge("z", Succeeded, "c")>>),
         Pair("a", d, c, <<edge("a", Branch("x"), "z")>>),
         Pair("a", [d EXCEPT !.recovery = "Never"], c, <<go>>),
         Pair("a", d, [c EXCEPT !.recovery = "FreshRetrieval"], <<go>>),
         Pair("a", [d EXCEPT !.branches = <<"x", "x">>], c, <<go>>),
         Pair("a", [d EXCEPT !.branches = <<"x", "y", "w">>], c,
              <<go, edge("a", Branch("y"), "c"), edge("a", Branch("w"), "c")>>)}

SomeDefinitions == Triples \cup Defective \cup {readonly_graph, localwrite_graph}

================================================================================
