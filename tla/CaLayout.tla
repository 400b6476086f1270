------------------------------- MODULE CaLayout -------------------------------
(***************************************************************************)
(* What the work on the CA authorities promises to every other command: it  *)
(* sees no authority, a root, the legacy pair, a generation, or a generation *)
(* with a prepared candidate, or is told to wait for recovery.             *)
(***************************************************************************)
VARIABLE layout

Init == layout \in {"empty", "legacy"}

(* Every operation ends with the layout it started from or with its own.      *)
Operation(from, working, to) ==
    \/ layout = from /\ layout' = working
    \/ layout = working /\ layout' \in {from, to}

Next ==
    \/ Operation("empty", "creating root", "root")
    \/ Operation("root", "creating intermediate", "generation")
    \/ Operation("legacy", "migrating", "generation")
    \/ Operation("generation", "preparing", "prepared")

Spec == Init /\ [][Next]_layout
==============================================================================
