------------------------------ MODULE EffectLedger ------------------------------
(***************************************************************************)
(* What the harness promises about external effects (model, approval and   *)
(* tool calls) of one run, whatever drives it: an effect is intended       *)
(* durably before it is performed, performed at most once and only while   *)
(* the run is running, and after the task that drove the run is gone the   *)
(* run is taken up again only when every intended effect is resolved.      *)
(* The outcome of a run is final.                                          *)
(***************************************************************************)
EXTENDS Naturals

CONSTANTS Outcomes    \* how a run may end

VARIABLES
    status,     \* "Pending", "Running" or an outcome, as recorded
    open,       \* recorded intentions without a recorded end
    done,       \* effects performed
    live        \* a task drives the run

lvars == <<status, open, done, live>>

LedgerInit == status = "Pending" /\ open = {} /\ done = {} /\ live = TRUE

Start ==
    /\ live /\ status = "Pending"
    /\ status' = "Running"
    /\ UNCHANGED <<open, done, live>>

Intend ==
    /\ live /\ status = "Running"
    /\ \E id \in open' : open' = open \cup {id} /\ id \notin open \cup done
    /\ UNCHANGED <<status, done, live>>

Perform ==
    /\ live /\ status = "Running"
    /\ \E id \in open \ done : done' = done \cup {id}
    /\ UNCHANGED <<status, open, live>>

Resolve ==
    /\ live
    /\ \E id \in open : open' = open \ {id}
    /\ UNCHANGED <<status, done, live>>

Finish ==
    /\ live /\ status = "Running"
    /\ status' \in Outcomes
    /\ UNCHANGED <<open, done, live>>

Stop ==
    /\ live /\ live' = FALSE
    /\ UNCHANGED <<status, open, done>>

TakeUp ==
    /\ ~live /\ status = "Running" /\ open = {}
    /\ live' = TRUE
    /\ UNCHANGED <<status, open, done>>

LedgerNext == Start \/ Intend \/ Perform \/ Resolve \/ Finish \/ Stop \/ TakeUp

LedgerSpec == LedgerInit /\ [][LedgerNext]_lvars
================================================================================
