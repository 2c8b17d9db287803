-------------------------------- MODULE Knowledge -------------------------------
(***************************************************************************)
(* One retrieval of RoutedKnowledgePort: the backends of the route are     *)
(* asked together, their answers are joined and merged into one evidence   *)
(* set under the limits of the request.  The OCPP backend is an HTTP       *)
(* request; the standards backend is an MCP server started for the         *)
(* request, spoken to over its pipes and killed afterwards.                *)
(*                                                                         *)
(* A text is a record of the document it is taken from and of its length:  *)
(* two texts of one document agree as far as the shorter one goes, so a    *)
(* text that is cut short may become equal to another.  What a backend     *)
(* answers is external and ranges over Payloads.                           *)
(***************************************************************************)
EXTENDS Integers, FiniteSets, Sequences, SequencesExt

CONSTANTS
    Payloads,       \* per backend: the result lists it may answer with
    MaxResults,     \* RetrievalLimits: items,
    MaxItemBytes,   \* bytes of an item
    MaxTotalBytes   \* and bytes of all of them

ASSUME KnowledgeAssumption ==
    /\ MaxResults \in Nat \ {0}
    /\ MaxItemBytes \in Nat \ {0}
    /\ MaxTotalBytes \in Nat /\ MaxItemBytes <= MaxTotalBytes

Backends == {"ocpp", "standards"}

Routes == {<<"ocpp">>, <<"standards">>, <<"ocpp", "standards">>,
           <<"standards", "ocpp">>}

VARIABLES
    request,    \* route, failure policy and snapshot requirements
    asked,      \* where the retrieval is
    answer,     \* per backend: its result, or that it is pending
    session,    \* the next step of the standards backend
    held,       \* its result, until the server is reaped
    server,     \* the MCP server process
    outcome     \* what retrieve returned

knowledgeVars == <<request, asked, answer, session, held, server, outcome>>

Error(kind) == [ok |-> FALSE, error |-> kind, items |-> <<>>, truncated |-> FALSE]

Pending == Error("Pending")

BackendEvidence(items, truncated) ==
    [ok |-> TRUE, error |-> "-", items |-> items, truncated |-> truncated]

NoOutcome == [ok |-> FALSE, error |-> "-", evidence |-> <<>>, failed |-> {},
              truncated |-> FALSE, degraded |-> FALSE]

Requests == [route : Routes, requireAll : BOOLEAN, pinned : SUBSET Backends,
             registered : SUBSET Backends \ {{}}]

KnowledgeInit ==
    /\ request \in Requests
    /\ asked = "no"
    /\ answer = [b \in Backends |-> Pending]
    /\ session = "none"
    /\ held = Pending
    /\ server = "none"
    /\ outcome = NoOutcome

--------------------------------------------------------------------------------
(* The adapters' normalize.                                                *)

truncate_utf8(text) ==
    [text EXCEPT !.len = IF @ <= MaxItemBytes THEN @ ELSE MaxItemBytes]

Evidence(b, rank, text) ==
    [backend |-> b, rank |-> rank, content |-> truncate_utf8(text)]

normalize(b, payload) ==
    BackendEvidence([i \in DOMAIN payload |-> Evidence(b, i, payload[i])],
                    \E i \in DOMAIN payload : payload[i].len > MaxItemBytes)

--------------------------------------------------------------------------------
(* merge_backend_results.                                                  *)

priority(route, b) == CHOOSE i \in DOMAIN route : route[i] = b

(* sort_by_key on the rank in the backend, then the place in the route;    *)
(* the identifier, the last key, never decides, as a rank is used once.    *)
Before(route, x, y) ==
    \/ x.rank < y.rank
    \/ x.rank = y.rank /\ priority(route, x.backend) < priority(route, y.backend)

Successful(route, results) == SelectSeq(route, LAMBDA b : results[b].ok)

candidates(route, results) ==
    LET all == UNION {Range(results[b].items) : b \in Range(Successful(route, results))}
    IN  SetToSortSeq(all, LAMBDA x, y : Before(route, x, y))

(* The loop over the candidates: a duplicate, and an item that is beyond a *)
(* limit, is left out and sets truncated.  The adapters give no canonical  *)
(* reference, so that the content is the key.                              *)
Started == [selected |-> <<>>, seen |-> {}, total |-> 0, truncated |-> FALSE]

LeftOut(acc, item) ==
    [acc EXCEPT !.truncated = TRUE, !.seen = @ \cup {item.content}]

(* Mutant: the total is not limited.                                       *)
SelectWithoutTotal(acc, item) ==
    IF \/ item.content \in acc.seen
       \/ Len(acc.selected) >= MaxResults
       \/ item.content.len > MaxItemBytes
    THEN LeftOut(acc, item)
    ELSE [acc EXCEPT !.selected = Append(@, item),
                     !.seen = @ \cup {item.content},
                     !.total = @ + item.content.len]

Select(acc, item) ==
    IF \/ item.content \in acc.seen
       \/ Len(acc.selected) >= MaxResults
       \/ item.content.len > MaxItemBytes
       \/ acc.total + item.content.len > MaxTotalBytes
    THEN LeftOut(acc, item)
    ELSE [acc EXCEPT !.selected = Append(@, item),
                     !.seen = @ \cup {item.content},
                     !.total = @ + item.content.len]

(* EvidenceSet::build.                                                     *)
EvidenceSet(acc, flagged, failed) ==
    [ok |-> TRUE, error |-> "-", evidence |-> acc.selected, failed |-> failed,
     truncated |-> flagged \/ acc.truncated, degraded |-> failed # {}]

Failure(kind) == [NoOutcome EXCEPT !.error = kind]

merge_backend_results(req, results) ==
    LET errors == SelectSeq(req.route, LAMBDA b : ~results[b].ok)
        flagged == \E b \in Range(Successful(req.route, results)) : results[b].truncated
    IN  CASE errors # <<>> /\ req.requireAll -> Failure(results[Head(errors)].error)
          [] Len(errors) = Len(req.route) -> Failure("AllBackendsFailed")
          [] OTHER -> EvidenceSet(FoldLeft(Select, Started, candidates(req.route, results)),
                                  flagged, Range(errors))

--------------------------------------------------------------------------------
(* RoutedKnowledgePort::retrieve.                                          *)

(* A backend of the route that is not registered fails the request at      *)
(* once.  No backend here has snapshots: a pinned one answers with an      *)
(* error before it opens a connection or a process.                        *)
retrieve ==
    /\ asked = "no"
    /\ IF Range(request.route) \subseteq request.registered
       THEN /\ asked' = "joining"
            /\ answer' = [b \in Backends |->
                            IF b \in request.pinned THEN Error("SnapshotMismatch")
                                                    ELSE Pending]
            /\ UNCHANGED outcome
       ELSE /\ asked' = "merged"
            /\ outcome' = Failure("Unavailable")
            /\ UNCHANGED answer
    /\ UNCHANGED <<request, session, held, server>>

Awaits(b) == asked = "joining" /\ b \in Range(request.route) /\ answer[b] = Pending

Answered(b, result) == answer' = [answer EXCEPT ![b] = result]

(* The HTTP request, its status and its bounded body.                      *)
OcppAnswers ==
    /\ Awaits("ocpp")
    /\ \/ \E p \in Payloads["ocpp"] : Answered("ocpp", normalize("ocpp", p))
       \/ \E e \in {"Unavailable", "Rejected", "MalformedResponse"} :
            Answered("ocpp", Error(e))
    /\ UNCHANGED <<request, asked, session, held, server, outcome>>

(* McpSession::spawn.                                                      *)
StandardsSpawn ==
    /\ Awaits("standards") /\ session = "none"
    /\ \/ server' = "running" /\ session' = "initialize" /\ UNCHANGED answer
       \/ Answered("standards", Error("Unavailable")) /\ UNCHANGED <<server, session>>
    /\ UNCHANGED <<request, asked, held, outcome>>

(* A response: the one awaited, an error, or anything that is not one; a   *)
(* server that has ended gives the end of the pipe.                        *)
ResponseErrors ==
    IF server = "running" THEN {"Unavailable", "MalformedResponse", "Failed"}
                          ELSE {"Unavailable"}

Hold(result) == held' = result /\ session' = "close"

StandardsInitialize ==
    /\ Awaits("standards") /\ session = "initialize"
    /\ \/ server = "running" /\ session' = "search" /\ UNCHANGED held
       \/ \E e \in ResponseErrors : Hold(Error(e))
    /\ UNCHANGED <<request, asked, answer, server, outcome>>

StandardsSearch ==
    /\ Awaits("standards") /\ session = "search"
    /\ \/ /\ server = "running"
          /\ \E p \in Payloads["standards"] : Hold(normalize("standards", p))
       \/ \E e \in ResponseErrors : Hold(Error(e))
    /\ UNCHANGED <<request, asked, answer, server, outcome>>

(* kill_and_reap, on success and on every error of the session, in two     *)
(* steps: the signal and the wait.                                         *)
Closing == Awaits("standards") /\ session = "close"

StandardsKill ==
    /\ Closing /\ server = "running"
    /\ server' = "killed"
    /\ UNCHANGED <<request, asked, answer, session, held, outcome>>

StandardsReaped ==
    /\ Closing /\ server = "exited"
    /\ server' = "reaped"
    /\ Answered("standards", held)
    /\ session' = "closed"
    /\ UNCHANGED <<request, asked, held, outcome>>

(* The server ends by itself or of the signal (external).                  *)
ServerEnds ==
    /\ server \in {"running", "killed"}
    /\ server' = "exited"
    /\ UNCHANGED <<request, asked, answer, session, held, outcome>>

(* join_all has every answer, in the order of the route.                   *)
Joined ==
    /\ asked = "joining"
    /\ \A b \in Range(request.route) : answer[b] # Pending
    /\ asked' = "merged"
    /\ outcome' = merge_backend_results(request, answer)
    /\ UNCHANGED <<request, answer, session, held, server>>

(* The run is cancelled or its deadline passes: the future is dropped, and *)
(* with it the server, which is killed on drop.                            *)
Abandon ==
    /\ asked = "joining"
    /\ asked' = "dropped"
    /\ server' = IF server = "running" THEN "killed" ELSE server
    /\ UNCHANGED <<request, answer, session, held, outcome>>

KnowledgeNext ==
    \/ retrieve \/ OcppAnswers \/ StandardsSpawn \/ StandardsInitialize
    \/ StandardsSearch \/ StandardsKill \/ StandardsReaped \/ ServerEnds
    \/ Joined \/ Abandon

KnowledgeSpec == KnowledgeInit /\ [][KnowledgeNext]_knowledgeVars

--------------------------------------------------------------------------------
(* Properties.                                                             *)

(* What the limits allow, stated of the places S of the candidates that    *)
(* are taken: a candidate is taken exactly if none before it has its       *)
(* content, and with those taken before it the limits leave it room.       *)
Sum(cs, S) == FoldLeft(LAMBDA n, i : n + cs[i].content.len, 0,
                       SetToSortSeq(S, LAMBDA i, j : i < j))

Taken(cs, S) ==
    \A i \in DOMAIN cs :
        LET earlier == {j \in S : j < i} IN
        i \in S <=>
            /\ \A j \in DOMAIN cs : j < i => cs[j].content # cs[i].content
            /\ Cardinality(earlier) < MaxResults
            /\ cs[i].content.len <= MaxItemBytes
            /\ Sum(cs, earlier) + cs[i].content.len <= MaxTotalBytes

(* The evidence a grounded model call gets is the one selection of the     *)
(* candidates the limits determine, in their order, whatever the order in  *)
(* which the backends answered; a required backend did answer, a failing   *)
(* one is on the list, and something left out is flagged: evidence neither *)
(* truncated nor degraded holds every text the backends sent, in full.     *)
EvidenceDetermined ==
    outcome.ok =>
        LET cs == candidates(request.route, answer)
            S == {i \in DOMAIN cs : cs[i] \in Range(outcome.evidence)}
            failing == {b \in Range(request.route) : ~answer[b].ok}
        IN  /\ Taken(cs, S)
            /\ outcome.evidence =
                 [k \in 1..Cardinality(S) |-> cs[SetToSortSeq(S, <)[k]]]
            /\ outcome.failed = failing
            /\ request.requireAll => failing = {}
            /\ S # DOMAIN cs => outcome.truncated
            /\ ~outcome.truncated /\ ~outcome.degraded =>
                 \A b \in Range(request.route) :
                   \E p \in Payloads[b] :
                     /\ answer[b] = normalize(b, p)
                     /\ \A i \in DOMAIN p :
                          p[i] \in {e.content : e \in Range(outcome.evidence)}

(* No retrieval leaves its MCP server behind: reaped when it answers,      *)
(* signalled when the run is cancelled or its deadline passes.             *)
ServerNotLeft ==
    /\ asked = "merged" => server \in {"none", "reaped"}
    /\ asked = "dropped" => server # "running"
================================================================================
