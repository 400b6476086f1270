---------------------------- MODULE AtomicService ----------------------------
(***************************************************************************)
(* What a managed service operation promises whoever reads the service     *)
(* directory: it ends in one decision; success is decided only when        *)
(* everything new is in place, failure only when everything old is back,   *)
(* and after the decision nothing visible moves again.                     *)
(***************************************************************************)
VARIABLES
    decision,  \* "open", "succeeded" or "failed-pre-commit"
    visible,   \* the published objects: "old", "mixed" or "new"
    closed     \* no journal is left: the next operation may start

Init == decision = "open" /\ visible = "old" /\ closed = FALSE

Mutate ==
    /\ decision = "open"
    /\ visible' \in {"old", "mixed", "new"}
    /\ UNCHANGED << decision, closed >>

Succeed ==
    /\ decision = "open" /\ visible = "new"
    /\ decision' = "succeeded"
    /\ UNCHANGED << visible, closed >>

Fail ==
    /\ decision = "open" /\ visible = "old"
    /\ decision' = "failed-pre-commit"
    /\ UNCHANGED << visible, closed >>

Close ==
    /\ decision # "open" /\ ~closed
    /\ closed' = TRUE
    /\ UNCHANGED << decision, visible >>

Next == Mutate \/ Succeed \/ Fail \/ Close

Spec == Init /\ [][Next]_<< decision, visible, closed >>
==============================================================================
