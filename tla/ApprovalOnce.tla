----------------------------- MODULE ApprovalOnce ------------------------------
(***************************************************************************)
(* What durable approval promises, without the store, the journal or the   *)
(* tasks: each wait is opened once, answered at most once, by an approval, *)
(* a denial or a withdrawal that ends the run, and an approved write is    *)
(* charged once and performed at most once after that, all while the run   *)
(* is live.                                                                *)
(***************************************************************************)
CONSTANT Waits

VARIABLES
    answer,     \* by wait: "none", "open", "approved", "denied",
                \* "withdrawn" or "charged"
    written,    \* waits whose write was performed
    live        \* the run has not finished

vars == <<answer, written, live>>

Init ==
    /\ answer = [w \in Waits |-> "none"]
    /\ written = {}
    /\ live = TRUE

Set(w, a) == answer' = [answer EXCEPT ![w] = a]

(* One question at a time: no other wait is open or approved but unspent.  *)
Open(w) ==
    /\ live
    /\ answer[w] = "none"
    /\ \A v \in Waits : answer[v] \notin {"open", "approved"}
    /\ Set(w, "open")
    /\ UNCHANGED <<written, live>>

Answer(w, a) ==
    /\ live
    /\ answer[w] = "open"
    /\ Set(w, a)
    /\ UNCHANGED <<written, live>>

Withdraw(w) ==
    /\ live
    /\ answer[w] = "open"
    /\ Set(w, "withdrawn")
    /\ live' = FALSE
    /\ UNCHANGED written

Charge(w) ==
    /\ live
    /\ answer[w] = "approved"
    /\ Set(w, "charged")
    /\ UNCHANGED <<written, live>>

Write(w) ==
    /\ live
    /\ answer[w] = "charged"
    /\ w \notin written
    /\ written' = written \cup {w}
    /\ UNCHANGED <<answer, live>>

Finish ==
    /\ live
    /\ live' = FALSE
    /\ UNCHANGED <<answer, written>>

Next ==
    \/ Finish
    \/ \E w \in Waits :
         \/ Open(w) \/ Answer(w, "approved") \/ Answer(w, "denied")
         \/ Withdraw(w) \/ Charge(w) \/ Write(w)

Spec == Init /\ [][Next]_vars

================================================================================
