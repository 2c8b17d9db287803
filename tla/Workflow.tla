-------------------------------- MODULE Workflow --------------------------------
(***************************************************************************)
(* The two workflows the daemon serves: a question answered from evidence, *)
(* and one where the model may instead propose a local write.  One run of  *)
(* a workflow by the graph engine, from the question to the result that    *)
(* the service shows, with the loss of the working state while the run     *)
(* waits for its approval.  How the engine's calls are journalled is the   *)
(* subject of HarnessRun and DurableApproval: here a call of the harness   *)
(* succeeds or fails.                                                      *)
(***************************************************************************)
EXTENDS GraphDefinition

CONSTANTS
    EvidenceIds,    \* what a retrieval can find
    Unfit,          \* evidence whose fields ApplicationResultV1 refuses
    Forged,         \* an id that no evidence has
    MaxCitations    \* MAX_RESULT_CITATIONS

ASSUME WorkflowAssumption ==
    Unfit \subseteq EvidenceIds /\ Forged \notin EvidenceIds /\ MaxCitations \in Nat

VARIABLES
    definition, \* the definition passed to GraphDefinition::new
    flow,       \* WorkflowKind, position of the engine, MvpState
    run,        \* the durable side: status, approval, write, budget used
    report      \* what EnterpriseMvpWorkflow::run or resume_waiting returned

workflowVars == <<definition, flow, run, report>>

--------------------------------------------------------------------------------
(* readonly_graph and localwrite_graph.                                    *)

node(id, kind, branches) ==
    [id |-> id, kind |-> kind, branches |-> branches,
     recovery |-> CASE kind = "Retrieve" -> "FreshRetrieval"
                    [] kind = "Decision" -> "DeterministicBoundary" [] OTHER -> "Never"]

edge(from, key, to) == [from |-> from, key |-> key, to |-> to]

readonly_graph ==
    [start |-> "retrieve",
     nodes |-> <<node("retrieve", "Retrieve", <<>>), node("model", "Model", <<>>),
                 node("verify-answer", "Verify", <<>>), node("complete", "Complete", <<>>),
                 node("fail", "Fail", <<>>)>>,
     edges |-> <<edge("retrieve", Succeeded, "model"),
                 edge("model", Succeeded, "verify-answer"),
                 edge("verify-answer", VerificationPassed, "complete"),
                 edge("verify-answer", VerificationFailed, "fail")>>]

localwrite_graph ==
    [start |-> "retrieve",
     nodes |-> <<node("retrieve", "Retrieve", <<>>), node("model", "Model", <<>>),
                 node("decision", "Decision", <<"final-answer", "action">>),
                 node("verify-answer", "Verify", <<>>),
                 node("durable-local-write", "DurableLocalWriteAction", <<>>),
                 node("verify-write", "Verify", <<>>), node("complete", "Complete", <<>>),
                 node("fail", "Fail", <<>>)>>,
     edges |-> <<edge("retrieve", Succeeded, "model"), edge("model", Succeeded, "decision"),
                 edge("decision", Branch("final-answer"), "verify-answer"),
                 edge("decision", Branch("action"), "durable-local-write"),
                 edge("verify-answer", VerificationPassed, "complete"),
                 edge("verify-answer", VerificationFailed, "fail"),
                 edge("durable-local-write", Succeeded, "verify-write"),
                 edge("durable-local-write", ApprovalDenied, "fail"),
                 edge("verify-write", VerificationPassed, "complete"),
                 edge("verify-write", VerificationFailed, "fail")>>]

graph_of(kind) == IF kind = "ReadOnly" THEN readonly_graph ELSE localwrite_graph

(* The budget of EnterpriseMvpWorkflow::new.                               *)
budget(kind) ==
    LET writes == IF kind = "LocalWrite" THEN 1 ELSE 0
    IN  [model |-> 1, tool |-> writes, approval |-> writes, graph |-> 8]

--------------------------------------------------------------------------------
(* The model's text and what the workflow makes of it.                     *)

Citations == UNION {[1..n -> EvidenceIds \cup {Forged}] : n \in 0..MaxCitations + 1}

(* Text that is no strict object or too long, an object with a final       *)
(* answer (empty, fitting or too long) and with or without citations, an   *)
(* object with an action, and one with both.                               *)
Texts ==
    [form : {"unreadable", "action", "both", "uncited"}, answer : {"fits"}, citations : {<<>>}]
    \cup [form : {"answer"}, answer : {"empty", "long"}, citations : {<<>>}]
    \cup [form : {"answer"}, answer : {"fits"}, citations : Citations]

decode_model_text(text) ==
    CASE text.form = "answer" /\ text.answer = "fits"
            /\ Len(text.citations) <= MaxCitations -> "FinalAnswer"
      [] text.form = "action" -> "Action"
      [] OTHER -> "Error"

(* Every citation is new, names evidence of this run and is accepted by    *)
(* ApplicationResultV1::final_answer.                                      *)
bind_final_answer(text, evidence) ==
    /\ IsInjective(text.citations)
    /\ ToSet(text.citations) \subseteq evidence \ Unfit

--------------------------------------------------------------------------------

NoResult == [kind |-> "None", citations |-> <<>>]
FinalAnswer(citations) == [kind |-> "FinalAnswer", citations |-> citations]
Result(kind) == [kind |-> kind, citations |-> <<>>]

Nothing == "nothing"

MvpState_new ==
    [question |-> TRUE, retrieval |-> {}, action |-> FALSE, branch |-> Nothing,
     result |-> NoResult, write |-> Nothing]

MvpState_restored == [MvpState_new EXCEPT !.question = FALSE]

NoTask == [at |-> Nothing, state |-> MvpState_restored]

WorkflowInit(definitions) ==
    /\ definition \in definitions
    /\ \E kind \in {"ReadOnly", "LocalWrite"} :
           run = [kind |-> kind, status |-> "New", node |-> Nothing, decision |-> Nothing,
                  wrote |-> Nothing, evidence |-> {}, short |-> FALSE,
                  used |-> [model |-> 0, tool |-> 0, approval |-> 0, graph |-> 0]]
    /\ flow = NoTask
    /\ report = Result("Nothing")

G == graph_of(run.kind)
AtKind(kind) == flow.at \in Ids(G) /\ NodeOf(G, flow.at).kind = kind

(* The engine returns an error: a failed callback, journalled or not, or a *)
(* harness call that failed before or after its event was stored.          *)
EngineFails(r, statuses) ==
    /\ \E st \in statuses : run' = [r EXCEPT !.status = st]
    /\ flow' = NoTask
    /\ report' = Result("Lost")
    /\ UNCHANGED definition

CallbackFails(r) == EngineFails(r, {"Running", "Failed"})

(* A callback that lacks a part of its working state fails for it.         *)
Missing == CallbackFails([run EXCEPT !.short = TRUE])

(* A call that reserves a unit of the budget fails when there is none.     *)
Reserving(r, d, proceed) ==
    IF r.used[d] < budget(r.kind)[d] THEN proceed
    ELSE CallbackFails([r EXCEPT !.short = TRUE])

Reserved(r, d) == [r EXCEPT !.used[d] = @ + 1]

(* complete_graph_node and enter_graph_node of the next node.              *)
Goto(r, id, state) ==
    LET enter == /\ run' = [Reserved(r, "graph") EXCEPT !.node = id]
                 /\ flow' = [at |-> id, state |-> state]
                 /\ UNCHANGED <<definition, report>>
    IN  Reserving(r, "graph", enter)

Follow(r, key, state) == Goto(r, transition(G, flow.at, key), state)

--------------------------------------------------------------------------------
(* EnterpriseMvpWorkflow::run and the callbacks of MvpProgram.             *)

Run ==
    /\ run.status = "New" /\ flow.at = Nothing
    /\ Goto([run EXCEPT !.status = "Running"], G.start, MvpState_new)

(* Between two steps the harness may refuse (deadline, cancellation,       *)
(* audit, store): the engine returns at once.                              *)
HarnessFails ==
    /\ flow.at \notin {Nothing, "resume"}
    /\ EngineFails(run, {"Running"} \cup
                    (IF AtKind("Complete") THEN {"Completed"}
                     ELSE IF AtKind("Fail") THEN {"Failed"} ELSE {}))

mvp_retrieve ==
    /\ AtKind("Retrieve")
    /\ IF ~flow.state.question THEN Missing
       ELSE \/ CallbackFails(run)
            \/ \E found \in SUBSET EvidenceIds :
                   Follow([run EXCEPT !.evidence = found], Succeeded,
                          [flow.state EXCEPT !.retrieval = {found}])

(* Mutant: the branch of an action is not remembered.                      *)
TakeOutputForgets(text, evidence) ==
    CASE decode_model_text(text) = "FinalAnswer" /\ bind_final_answer(text, evidence) ->
           [[flow.state EXCEPT !.result = FinalAnswer(text.citations)]
                 EXCEPT !.branch = "final-answer"]
      [] decode_model_text(text) = "Action" /\ run.kind = "LocalWrite" ->
           [flow.state EXCEPT !.action = TRUE]
      [] OTHER -> flow.state

(* The state after the model callback; unchanged when the callback fails.  *)
TakeOutput(text, evidence) ==
    CASE decode_model_text(text) = "FinalAnswer" /\ bind_final_answer(text, evidence) ->
           [[flow.state EXCEPT !.result = FinalAnswer(text.citations)]
                 EXCEPT !.branch = "final-answer"]
      [] decode_model_text(text) = "Action" /\ run.kind = "LocalWrite" ->
           [[flow.state EXCEPT !.action = TRUE] EXCEPT !.branch = "action"]
      [] OTHER -> flow.state

model ==
    /\ AtKind("Model")
    /\ IF ~flow.state.question \/ flow.state.retrieval = {} THEN Missing
       ELSE LET r == Reserved(run, "model")
                invoke ==
                    \/ CallbackFails(r)
                    \/ \E text \in Texts :
                           LET after == TakeOutput(text, UNION flow.state.retrieval)
                           IN  IF after = flow.state THEN CallbackFails(r)
                               ELSE Follow(r, Succeeded, after)
            IN  Reserving(run, "model", invoke)

decide ==
    /\ AtKind("Decision")
    /\ IF flow.state.branch = Nothing THEN Missing
       ELSE Follow(run, Branch(flow.state.branch), flow.state)

(* prepare_action and suspend_local_write: the run waits, its working      *)
(* state is dropped.                                                       *)
durable_local_write_action ==
    /\ AtKind("DurableLocalWriteAction")
    /\ IF ~flow.state.action THEN Missing
       ELSE LET r == Reserved(run, "approval")
                suspend ==
                    \/ CallbackFails(r)
                    \/ /\ run' = [r EXCEPT !.status = "Waiting"]
                       /\ flow' = NoTask
                       /\ report' = Result("NoApplicationResult")
                       /\ UNCHANGED definition
            IN  Reserving(run, "approval", suspend)

verify ==
    /\ AtKind("Verify")
    /\ IF flow.at = "verify-answer"
       THEN Follow(run, IF flow.state.result # NoResult THEN VerificationPassed
                        ELSE VerificationFailed, flow.state)
       ELSE IF flow.state.write = "Succeeded"
            THEN Follow(run, VerificationPassed,
                        [flow.state EXCEPT !.result = Result("LocalWriteCompleted")])
            ELSE Follow(run, VerificationFailed, flow.state)

completion(terminal, state) ==
    IF terminal = "Complete" /\ state.result # NoResult THEN state.result
    ELSE IF terminal = "Fail" /\ state.write = Nothing THEN Result("ApprovalDenied")
    ELSE Result("Error")

FinishRun ==
    \E terminal \in {"Complete", "Fail"} :
        /\ AtKind(terminal)
        /\ run' = [run EXCEPT !.status = IF terminal = "Complete" THEN "Completed" ELSE "Failed"]
        /\ report' = completion(terminal, flow.state)
        /\ flow' = NoTask
        /\ UNCHANGED definition

--------------------------------------------------------------------------------
(* The approver, the owner, and EnterpriseMvpWorkflow::resume_waiting.     *)

Decide ==
    /\ run.status = "Waiting" /\ run.decision = Nothing
    /\ \E d \in {"Approved", "Denied"} : run' = [run EXCEPT !.decision = d]
    /\ UNCHANGED <<definition, flow, report>>

AbortWait ==
    /\ run.status = "Waiting"
    /\ run' = [run EXCEPT !.status = "Failed"]
    /\ UNCHANGED <<definition, flow, report>>

(* The contract of the run is that of the workflow's graph; resume_waiting *)
(* of a read-only workflow and resume_recovered are NotRestartable.        *)
resume_waiting ==
    /\ run.status = "Waiting" /\ run.decision # Nothing /\ flow.at = Nothing
    /\ run.kind = "LocalWrite"
    /\ flow' = [at |-> "resume", state |-> MvpState_restored]
    /\ UNCHANGED <<definition, run, report>>

(* resume_durable_local_write ends, and the engine goes on from the node   *)
(* of the wait.                                                            *)
Resumed ==
    LET awake(r, key, state) ==
            Goto([r EXCEPT !.status = "Running"], transition(G, r.node, key), state)
        spent == Reserved(run, "tool")
        dispatch ==
            \/ \E result \in {"Succeeded", "DomainFailure"} :
                   awake([spent EXCEPT !.wrote = result], Succeeded,
                         [flow.state EXCEPT !.write = result])
            \/ \E result \in {"Succeeded", "DomainFailure", "Unknown"} :
                   CallbackFails([spent EXCEPT !.wrote = result])
    IN  /\ flow.at = "resume"
        /\ \/ /\ run.status = "Waiting" /\ run.decision = "Approved"
              /\ Reserving(run, "tool", dispatch)
           \/ /\ run.status = "Waiting" /\ run.decision = "Denied"
              /\ awake(run, ApprovalDenied, flow.state)
           \/ EngineFails(run, {run.status})

(* The process ends: the task, the working state and the report are gone.  *)
WorkflowCrash ==
    /\ flow' = NoTask /\ report' = Result("Nothing")
    /\ UNCHANGED <<definition, run>>

WorkflowNext ==
    \/ Run \/ HarnessFails \/ mvp_retrieve \/ model \/ decide \/ durable_local_write_action
    \/ verify \/ FinishRun \/ Decide \/ AbortWait \/ resume_waiting \/ Resumed \/ WorkflowCrash

--------------------------------------------------------------------------------
(* GraphDefinition::new accepts exactly the sound definitions: the search  *)
(* finds every cycle and every unreachable node and refuses no graph whose *)
(* paths only meet again, and both workflows of the daemon are accepted.   *)
AcceptsSound ==
    /\ GraphDefinition_new(definition) <=> Sound(definition)
    /\ definition \in {readonly_graph, localwrite_graph} => GraphDefinition_new(definition)

(* What the run did, as far as its record tells.                           *)
Outcome ==
    IF run.status = "Completed"
    THEN IF run.wrote = "Succeeded" THEN "LocalWriteCompleted" ELSE "FinalAnswer"
    ELSE IF run.decision = "Denied" THEN "ApprovalDenied" ELSE "Error"

(* A run that ended in a terminal node reports what it did: a write that   *)
(* was approved and succeeded, an answer with distinct citations of        *)
(* evidence that this run retrieved, a denial, and an error for a write    *)
(* that failed, although the state it restarted from after the wait knows  *)
(* nothing of what went before.  No callback fails for a part of that      *)
(* state it lacks, and no run is stopped by the budget of its workflow.    *)
ReportsOutcome ==
    /\ ~run.short
    /\ report.kind \notin {"Nothing", "Lost", "NoApplicationResult"} => report.kind = Outcome
    /\ report.kind = "LocalWriteCompleted" => run.decision = "Approved"
    /\ report.kind = "ApprovalDenied" => run.wrote = Nothing
    /\ report.kind = "FinalAnswer" => /\ run.wrote = Nothing
                                      /\ ToSet(report.citations) \subseteq run.evidence
                                      /\ IsInjective(report.citations)

================================================================================
