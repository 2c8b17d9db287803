------------------------------- MODULE MCGraphRun -------------------------------
(***************************************************************************)
(* Graphs and budgets for GraphRun.  The first graph is the workflow of    *)
(* the repository's graph tests: retrieve, grounded model, action, verify, *)
(* complete or fail.  The second routes through a decision before and a    *)
(* retrieval after the model.                                              *)
(***************************************************************************)
EXTENDS GraphRun

WorkflowKind ==
    [n \in {"r", "m", "a", "v", "c", "f"} |->
        CASE n = "r" -> "Retrieve" [] n = "m" -> "Model" [] n = "a" -> "Action"
          [] n = "v" -> "Verify" [] n = "c" -> "Complete" [] n = "f" -> "Fail"]

WorkflowSuccessors ==
    [n \in {"r", "m", "a", "v", "c", "f"} |->
        CASE n = "r" -> {"m"} [] n = "m" -> {"a"} [] n = "a" -> {"v"}
          [] n = "v" -> {"c", "f"} [] OTHER -> {}]

RoutedKind ==
    [n \in {"d", "m", "r", "a", "c"} |->
        CASE n = "d" -> "Decision" [] n = "m" -> "Model" [] n = "r" -> "Retrieve"
          [] n = "a" -> "Action" [] n = "c" -> "Complete"]

RoutedSuccessors ==
    [n \in {"d", "m", "r", "a", "c"} |->
        CASE n = "d" -> {"m", "r"} [] n = "m" -> {"r"} [] n = "r" -> {"a"}
          [] n = "a" -> {"c"} [] OTHER -> {}]

OneEach == [d \in Dimensions |-> IF d = "graph" THEN 6 ELSE 1]

================================================================================
