--------------------------- MODULE CaCreationRecover ---------------------------
(***************************************************************************)
(* What takes an unfinished creation back, in the process that failed or in *)
(* ca-rollover recover: each object is withdrawn under a step the journal   *)
(* announces and records.  The last cleanup of an intermediate can also be  *)
(* completed by recovery.                                                  *)
(***************************************************************************)
EXTENDS CaCreation

Withdrawing == process.command \in {"abort", "rollback"} /\ process.operation \in Bootstraps
Aborting == process.command = "abort"
Completing == process.command = "resume" /\ process.operation \in Bootstraps

Withdraw(o, from, to) == [object |-> o, from |-> from, to |-> to]
Withdrawal ==
    (IF creating = "root"
     THEN << Withdraw(RootManifest, {"published"}, "absent") >>
     ELSE << Withdraw(ActiveManifest, {"published"}, "absent"),
             Withdraw(RootManifest, {"absent"}, "published") >>
          \o [i \in 1 .. Len(DatabaseKeys) |->
                  Withdraw(RootEntry(DatabaseKeys[i]), {"after"}, "before")])
    \o << Withdraw(Authority(creating), {"published"}, "absent"),
          Withdraw(Room(creating), {"published"}, "absent"),
          Withdraw(Grant(creating), {"absent", "reserved", "consumed"}, "abandoned") >>

------------------------------------------------------------------------------
(* _recover_bootstrap(): what it removes must have the identity the journal     *)
(* names, or be unknown to it altogether; and to find the copies of the root's *)
(* entries it takes the path of the hidden directory from the journal.         *)
Named(o) == o \in journal.evidence.known
WithdrawalAccepted ==
    /\ \A o \in Own(creating) \ {Room(creating), KeyCopy} : made[o] = "published" => Named(o)
    /\ Mutated # {} => Named(Room(creating))

(* A resume ends a cleanup that the creation, or an earlier resume, announced.  *)
Cleaning ==
    journal.phase \in {"cleanup-pending", "cleanup-done"} \/ journal.step.object = KeyCopy
CompletionAccepted ==
    /\ creating = "intermediate" /\ Cleaning /\ WithdrawalAccepted
    /\ {made[Authority("intermediate")], made[ActiveManifest]} = {"published"}
    /\ made[RootManifest] = "absent" /\ made[Grant("intermediate")] = "consumed"
    /\ \A k \in Keys \ Kept : made[RootEntry(k)] = "after"

BootstrapAccepted(action) ==
    IF action = "rollback" THEN WithdrawalAccepted ELSE CompletionAccepted

BeginBootstrapRecovery(action) ==
    /\ ~Running /\ journal.operation \in Bootstraps /\ ~journal.committed
    /\ BootstrapAccepted(action)
    /\ process' = Begun(action, journal.operation, 1)
    /\ UNCHANGED << journal, marker, receipt, failures, creation_vars >>

------------------------------------------------------------------------------
(* A recovery changes only the phase, action and step of the journal it read,   *)
(* the failed process writes all that it knows.                              *)
Rewrite(phase, action, step) ==
    journal' = [(IF Aborting THEN Bootstrap(phase, Mutated) ELSE journal) EXCEPT
                   !.phase = phase, !.action = action, !.step = step]

Withdrawn == Withdrawal[process.at]
WithdrawsOn ==
    /\ Withdrawing /\ process.at <= Len(Withdrawal)
    /\ UNCHANGED << marker, receipt, failures, creating, creations >>
WithdrawalDue ==
    /\ made[Withdrawn.object] \in Withdrawn.from
    /\ Withdrawn.object = Room(creating) => Aborting \/ Named(Room(creating))

WithdrawalAnnounces ==
    /\ WithdrawsOn /\ process.mark = "none" /\ WithdrawalDue
    /\ Rewrite("recovering", "rollback", Step("rollback", Withdrawn.object, "pending"))
    /\ process' = [process EXCEPT !.mark = "pending"] /\ UNCHANGED made

WithdrawalChanges ==
    /\ WithdrawsOn /\ process.mark = "pending"
    /\ Lay(Withdrawn.object, Withdrawn.to)
    /\ process' = [process EXCEPT !.mark = "made"] /\ UNCHANGED journal

WithdrawalRecords ==
    /\ WithdrawsOn /\ process.mark = "made"
    /\ Rewrite("recovering", "rollback", Step("rollback", Withdrawn.object, "done"))
    /\ process' = [process EXCEPT !.at = @ + 1, !.mark = "none"] /\ UNCHANGED made

WithdrawalPasses ==
    /\ WithdrawsOn /\ process.mark = "none" /\ ~WithdrawalDue
    /\ process' = [process EXCEPT !.at = @ + 1] /\ UNCHANGED << journal, made >>

WithdrawalCommits ==
    /\ Withdrawing /\ process.at = Len(Withdrawal) + 1
    /\ journal' = [NoJournal EXCEPT !.operation = Operation(creating), !.phase = "rolled-back",
                                    !.committed = TRUE, !.action = "rollback"]
    /\ process' = [process EXCEPT !.at = @ + 1]
    /\ UNCHANGED << marker, receipt, failures, creation_vars >>

WithdrawalReturns ==
    /\ Withdrawing /\ process.at = Len(Withdrawal) + 2
    /\ marker' = FALSE /\ process' = Idle
    /\ UNCHANGED << journal, receipt, failures, creation_vars >>

------------------------------------------------------------------------------
(* Resume: the copy of the root, the journal, the marker, the hidden directory. *)
CompletesAt(mark) ==
    /\ Completing /\ process.mark = mark
    /\ UNCHANGED << receipt, failures, creating, creations >>
Completed(mark) == process' = [process EXCEPT !.mark = mark]

CompletionAnnounces ==
    /\ CompletesAt("none") /\ made[KeyCopy] = "published" /\ Completed("pending")
    /\ Rewrite("recovering", "rollback", Step("resume", KeyCopy, "pending"))
    /\ UNCHANGED << marker, made >>

CompletionChanges ==
    /\ CompletesAt("pending") /\ Completed("made")
    /\ Lay(KeyCopy, "absent") /\ UNCHANGED << journal, marker >>

CompletionRecords ==
    /\ CompletesAt("made") \/ (CompletesAt("none") /\ made[KeyCopy] = "absent")
    /\ Completed("done")
    /\ Rewrite("recovering", "rollback", Step("resume", KeyCopy, "done"))
    /\ UNCHANGED << marker, made >>

CompletionCommits ==
    /\ CompletesAt("done") /\ Completed("committed")
    /\ journal' = [journal EXCEPT !.phase = "complete", !.committed = TRUE]
    /\ UNCHANGED << marker, made >>

CompletionUnmarks ==
    /\ CompletesAt("committed") /\ Completed("marked")
    /\ marker' = FALSE /\ UNCHANGED << journal, made >>

CompletionReturns ==
    /\ CompletesAt("marked") /\ process' = Idle
    /\ Lay(Room("intermediate"), "absent") /\ UNCHANGED << journal, marker >>

BootstrapSteps ==
    \/ CreatorSteps
    \/ WithdrawalAnnounces \/ WithdrawalChanges \/ WithdrawalRecords \/ WithdrawalPasses
    \/ WithdrawalCommits \/ WithdrawalReturns
    \/ CompletionAnnounces \/ CompletionChanges \/ CompletionRecords
    \/ CompletionCommits \/ CompletionUnmarks \/ CompletionReturns
==============================================================================
