------------------------------ MODULE CaJournal ------------------------------
(***************************************************************************)
(* The one recovery journal of the CA authorities, the marker that blocks  *)
(* the other commands, and the one process that works under it.            *)
(***************************************************************************)
EXTENDS Integers, SequencesExt

CONSTANTS
    DatabaseKeys,   \* the entries of the root database that issuing an
                    \* intermediate changes, in publication order
    Created,        \* those of them that it creates
    Kept,           \* the entries that it leaves alone
    MaxFailures     \* bound: failures and kills of running commands

ASSUME DatabaseAssumption ==
    /\ DatabaseKeys \in Seq(STRING) /\ IsInjective(DatabaseKeys)
    /\ Created \subseteq Range(DatabaseKeys) /\ Kept \cap Range(DatabaseKeys) = {}

ASSUME MaxFailuresAssumption == MaxFailures \in Nat

Keys == Range(DatabaseKeys) \cup Kept

VARIABLES
    journal,   \* state/rollover/journal
    marker,    \* state/rollover/recovery-required exists
    receipt,   \* the terminal receipt that names this very marker exists
    process,   \* the command that holds the operational locks
    failures   \* failures and kills so far

journal_vars == << journal, marker, receipt, process, failures >>

Authorities == {"root", "intermediate"}
Bootstraps == {"root-bootstrap", "intermediate-bootstrap"}
Operations == {"legacy-migrate", "rollover-prepare"} \cup Bootstraps
Actions == {"rollback", "resume"}
Commands == {"none", "create", "abort", "migrate", "prepare"} \cup Actions

(* A recovery step: what it does to which object, and whether the change is   *)
(* announced or done.                                                        *)
NoStep == [action |-> "none", object |-> << "none", "none" >>, mark |-> "none"]
Step(action, object, mark) == [action |-> action, object |-> object, mark |-> mark]

(* What a journal knows besides.  Of a preparation: that its directory and the  *)
(* reservation files are made, that staging is complete, and which entries of  *)
(* the root database it published and restored.  Of a creation: the objects    *)
(* whose identity it names.                                                   *)
NoEvidence == [directory |-> FALSE, filed |-> FALSE, staged |-> FALSE,
               posted |-> {}, restored |-> {}, known |-> {}]
NoJournal == [operation |-> "none", phase |-> "none", committed |-> FALSE,
              action |-> "none", step |-> NoStep, evidence |-> NoEvidence]

(* A running command: what it works on, its position in its plan, how far it   *)
(* is with the entry there, and the action and step its next journal carries.  *)
Idle == [command |-> "none", operation |-> "none", at |-> 0, mark |-> "none",
         action |-> "none", step |-> NoStep]
Running == process.command # "none"
Begun(command, operation, at) ==
    [Idle EXCEPT !.command = command, !.operation = operation, !.at = at,
                 !.action = IF command \in Actions THEN command ELSE "none",
                 !.step = IF command \in Actions THEN journal.step ELSE NoStep]

(* Mutant: only a marker blocks the other commands, not a journal.           *)
MutantNoUnresolvedState == ~marker

(* The records later commands accept as history.                             *)
TerminalBootstrap ==
    /\ journal.operation \in Bootstraps /\ journal.committed /\ journal.step = NoStep
    /\ journal.action = (IF journal.phase = "complete" THEN "none" ELSE "rollback")

TerminalMigration ==
    /\ journal.operation = "legacy-migrate" /\ journal.committed
    /\ \/ /\ journal.phase = "complete" /\ journal.action \in {"none", "resume"}
          /\ \/ journal.step = NoStep
             \/ journal.step = Step("resume", << "provenance", "tree" >>, "done")
       \/ /\ journal.phase = "rolled-back" /\ journal.action = "rollback"
          /\ journal.step = Step("rollback", << "provenance", "tree" >>, "done")

TerminalHistory == TerminalBootstrap \/ TerminalMigration

NoUnresolvedState == ~marker /\ (journal # NoJournal => TerminalHistory)

Failing == /\ Running /\ failures < MaxFailures
           /\ failures' = failures + 1 /\ process' = Idle
==============================================================================
