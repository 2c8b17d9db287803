------------------------------- MODULE MCLoopRun -------------------------------
(***************************************************************************)
(* Budgets for LoopRun: one iteration with a model call and a tool call,   *)
(* or two iterations in which only knowledge is retrieved.                 *)
(***************************************************************************)
EXTENDS LoopRun

NoKind == [n \in {} |-> "Retrieve"]

TwoIterations ==
    [d \in Dimensions |-> CASE d = "iteration" -> 2 [] OTHER -> 0]

OneIteration == [d \in Dimensions |-> IF d \in {"graph", "approval"} THEN 0 ELSE 1]

================================================================================
