--------------------------- MODULE ServicePreflight ---------------------------
(***************************************************************************)
(* What recovery authenticates before it touches anything (_preflight in   *)
(* src/platform_pki/service_recover.py): the retained evidence, every      *)
(* destination and both private trees must be exactly what the journal     *)
(* says, give or take the one mutation it announces as pending.  A process *)
(* that finds anything else stops and leaves all of it untouched.          *)
(***************************************************************************)
EXTENDS ServiceJournal

FailedCleanup ==
    /\ journal.phase \in {"cleaning-up", "terminal"}
    /\ journal.outcome = "failed-pre-commit"

RemovalPending(t) ==
    journal.checkpoint = "cleanup-pending" /\ journal.step = t

(* The pending mutation is already on the disk, its evidence is not.         *)
PublicationApplied ==
    PublicationPending /\ dest[journal.mutation] = "new"
RollbackApplied ==
    /\ RollbackPending
    /\ dest[journal.mutation] = Restored(journal.mutation)

(* A rollback-complete or terminal record on the disk without its identity   *)
(* in the journal is refused, and so is a recorded one that is gone.         *)
RetainedEvidenceValid ==
    /\ completion = journal.completion_recorded
    /\ (terminal # "absent") = ("terminal" \in journal.removed)

(* In failed cleanup every pre-existing object is compared with its backup   *)
(* copy, whether or not it had been published and rolled back.               *)
DestinationAccepted(k) ==
    \/ /\ k = "archive_marker" /\ "archive-marker" \in journal.removed
       /\ dest[k] = "absent"
    \/ /\ k = "archive_marker" => "archive-marker" \notin journal.removed
       /\ \/ /\ journal.committed
             /\ dest[k] = "new"
          \/ /\ ~journal.committed /\ FailedCleanup
             /\ dest[k] = Restored(k)
          \/ /\ ~journal.committed /\ ~FailedCleanup
             /\ \/ k \in journal.rolled_back /\ dest[k] = Restored(k)
                \/ k \in Published \ journal.rolled_back /\ dest[k] = "new"
                \/ k \notin Published /\ dest[k] = Original(k)
                \/ /\ RollbackPending /\ k = journal.mutation
                   /\ dest[k] = Restored(k)
                \/ /\ PublicationPending /\ k = journal.mutation
                   /\ dest[k] = "new"
                   /\ k \in DirectoryKeys => journal.directory_stage

DestinationsValid == \A k \in Planned : DestinationAccepted(k)

(* Every name in the stage is a recorded new object, the unrecorded one      *)
(* being staged, or the directory waiting to be published; and no recorded   *)
(* one is missing before it is published.                                    *)
StageTreeValid ==
    LET allowed(n) ==
            \/ n \in StagedNames
            \/ journal.checkpoint = "staging-pending" /\ n = journal.mutation
            \/ /\ journal.directory_stage /\ n = journal.mutation
               /\ ~PublicationApplied
        consumed == Published \cup
                    (IF PublicationApplied THEN {journal.mutation} ELSE {})
    IN  /\ tree["stage"] = "gone" <=> "stage" \in journal.removed
        /\ tree["stage"] = "partial" => RemovalPending("stage")
        /\ tree["stage"] = "whole" =>
              /\ \A n \in Names :
                     stage[n] # "absent" => stage[n] = "new" /\ allowed(n)
              /\ \A n \in StagedNames \ consumed : stage[n] # "absent"

BackupTreeValid ==
    LET allowed(k) ==
            \/ k \in BackedUp
            \/ journal.checkpoint = "backup-pending" /\ k = journal.mutation
        restored == IF FailedCleanup THEN Published
                    ELSE journal.rolled_back \cup
                         (IF RollbackApplied THEN {journal.mutation} ELSE {})
    IN  /\ tree["backup"] = "gone" <=> "backup" \in journal.removed
        /\ tree["backup"] = "partial" => RemovalPending("backup")
        /\ tree["backup"] = "whole" =>
              /\ \A k \in Keys :
                     backup[k] # "absent" => backup[k] = "copy" /\ allowed(k)
              /\ \A k \in BackedUp \ restored : backup[k] # "absent"

Preflight ==
    RetainedEvidenceValid /\ DestinationsValid /\ StageTreeValid /\ BackupTreeValid

(* _cleanup_private_tree: the tree holds exactly what is left of it by the   *)
(* journal, so an interrupted removal cannot be resumed.                     *)
TreeExact(t) ==
    /\ tree[t] = "whole"
    /\ IF t = "stage"
       THEN {n \in Names : stage[n] # "absent"} = StagedNames \ Published
       ELSE {k \in Keys : backup[k] # "absent"} =
            BackedUp \ (IF journal.outcome = "failed-pre-commit"
                        THEN Published ELSE {})
==============================================================================
