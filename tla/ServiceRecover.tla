---------------------------- MODULE ServiceRecover ----------------------------
(***************************************************************************)
(* recover_service_transaction (src/platform_pki/service_recover.py): one  *)
(* process, under the inventory locks, authenticates the journal against   *)
(* the disk, finishes or discards the pending window, rolls an uncommitted *)
(* transaction back or cleans a committed one up, publishes the terminal   *)
(* record and removes the journal.                                         *)
(***************************************************************************)
EXTENDS ServicePreflight

Recovering == process = "recovering"
At(phase, checkpoint) ==
    journal.phase = phase /\ journal.checkpoint = checkpoint

StartRecovery ==
    /\ process = "stopped" /\ journal.phase # "removed"
    /\ Preflight
    /\ process' = "recovering"
    /\ UNCHANGED << plan, journal, disk >>

------------------------------------------------------------------------------
(* _reconcile_pending_window: a publication that reached the disk is         *)
(* recorded, a directory that did not is discarded.                          *)
ReconcilePublication ==
    /\ Recovering /\ PublicationApplied
    /\ journal' = [journal EXCEPT !.published_count = @ + 1,
                                  !.checkpoint = "publication-done",
                                  !.directory_stage = FALSE]
    /\ RewriteOnly

DiscardDirectoryStage ==
    /\ Recovering /\ journal.directory_stage /\ ~PublicationApplied
    /\ stage[journal.mutation] = "new"
    /\ stage' = [stage EXCEPT ![journal.mutation] = "absent"]
    /\ UNCHANGED << plan, journal, dest, backup, tree, completion, terminal,
                    root_changed, process >>

(* Mutant: the staged directory is forgotten without having been removed.    *)
MutantForgetDirectoryStage ==
    /\ Recovering /\ journal.directory_stage /\ ~PublicationApplied
    /\ journal' = [journal EXCEPT !.directory_stage = FALSE]
    /\ RewriteOnly

ForgetDirectoryStage ==
    /\ Recovering /\ journal.directory_stage /\ ~PublicationApplied
    /\ stage[journal.mutation] = "absent"
    /\ journal' = [journal EXCEPT !.directory_stage = FALSE]
    /\ RewriteOnly

------------------------------------------------------------------------------
(* _recover_precommit: roll the published prefix back, one key at a time.    *)

(* Mutant: a committed transaction may be rolled back as well.               *)
MutantUncommitable ==
    /\ Recovering
    /\ journal.phase \in {"staging", "backing-up", "planned", "publishing",
                          "verifying", "committed", "rolling-back"}
    /\ ~PublicationApplied /\ ~journal.directory_stage

Uncommitable ==
    /\ Recovering
    /\ journal.phase \in {"staging", "backing-up", "planned", "publishing",
                          "verifying", "rolling-back"}
    /\ ~PublicationApplied /\ ~journal.directory_stage

RootRestoreDue ==
    /\ RootRestoreNeeded /\ ~journal.root_restored
    /\ "archive_dir" \in journal.rolled_back

(* Mutant: rollback goes on before the archive root's mtime is restored.     *)
MutantSetRollbackPending(k) ==
    /\ Uncommitable /\ ~RollbackPending
    /\ RollbackNext(k)
    /\ journal' = [journal EXCEPT !.phase = "rolling-back",
                                  !.checkpoint = "rollback-pending",
                                  !.mutation = k,
                                  !.outcome = "failed-pre-commit"]
    /\ RewriteOnly

SetRollbackPending(k) ==
    /\ Uncommitable /\ ~RollbackPending /\ ~RootRestoreDue
    /\ RollbackNext(k)
    /\ journal' = [journal EXCEPT !.phase = "rolling-back",
                                  !.checkpoint = "rollback-pending",
                                  !.mutation = k,
                                  !.outcome = "failed-pre-commit"]
    /\ RewriteOnly

RollingBack(k) ==
    Recovering /\ RollbackPending /\ journal.mutation = k

(* Mutant: whatever is found at the destination is unlinked.                 *)
MutantRollbackRemove(k) ==
    /\ RollingBack(k) /\ dest[k] # "absent"
    /\ dest' = [dest EXCEPT ![k] = "absent"]
    /\ root_changed' = (root_changed \/ (plan.restores_root /\ k = "archive_dir"))
    /\ UNCHANGED << plan, journal, stage, backup, tree, completion, terminal,
                    process >>

(* An object the transaction created is unlinked; a directory must be empty. *)
RollbackRemove(k) ==
    /\ RollingBack(k) /\ k \notin plan.existing
    /\ dest[k] = "new"
    /\ \A c \in Planned : ParentOf[c] = k => dest[c] = "absent"
    /\ dest' = [dest EXCEPT ![k] = "absent"]
    /\ root_changed' = (root_changed \/ (plan.restores_root /\ k = "archive_dir"))
    /\ UNCHANGED << plan, journal, stage, backup, tree, completion, terminal,
                    process >>

(* A replaced object is exchanged with its backup copy, then the new object  *)
(* is unlinked from the backup name.                                         *)
RollbackExchange(k) ==
    /\ RollingBack(k) /\ k \in plan.existing
    /\ dest[k] = "new" /\ backup[k] = "copy"
    /\ dest' = [dest EXCEPT ![k] = "copy"]
    /\ backup' = [backup EXCEPT ![k] = "new"]
    /\ UNCHANGED << plan, journal, stage, tree, completion, terminal,
                    root_changed, process >>

RollbackUnlinkDisplaced(k) ==
    /\ RollingBack(k)
    /\ dest[k] = "copy" /\ backup[k] = "new"
    /\ backup' = [backup EXCEPT ![k] = "absent"]
    /\ UNCHANGED << plan, journal, dest, stage, tree, completion, terminal,
                    root_changed, process >>

record_rollback(k) ==
    /\ RollingBack(k)
    /\ dest[k] = Restored(k) /\ backup[k] = "absent"
    /\ journal' = [journal EXCEPT !.rolled_back = @ \cup {k},
                                  !.checkpoint = "rollback-done"]
    /\ RewriteOnly

------------------------------------------------------------------------------
BeginRootRestore ==
    /\ Uncommitable /\ RootRestoreDue
    /\ journal.checkpoint # "archive-root-restore-pending"
    /\ journal' = [journal EXCEPT !.phase = "rolling-back",
                                  !.checkpoint = "archive-root-restore-pending",
                                  !.mutation = "none",
                                  !.outcome = "failed-pre-commit"]
    /\ RewriteOnly

RestoreArchiveRoot ==
    /\ Recovering /\ At("rolling-back", "archive-root-restore-pending")
    /\ root_changed
    /\ root_changed' = FALSE
    /\ UNCHANGED << plan, journal, dest, stage, backup, tree, completion,
                    terminal, process >>

(* Mutant: the restoration of the archive root leaves no evidence.           *)
MutantRecordRootRestored ==
    /\ Recovering /\ At("rolling-back", "archive-root-restore-pending")
    /\ ~root_changed
    /\ journal' = [journal EXCEPT !.checkpoint = "archive-root-restore-done"]
    /\ RewriteOnly

RecordRootRestored ==
    /\ Recovering /\ At("rolling-back", "archive-root-restore-pending")
    /\ ~root_changed
    /\ journal' = [journal EXCEPT !.checkpoint = "archive-root-restore-done",
                                  !.root_restored = TRUE]
    /\ RewriteOnly

------------------------------------------------------------------------------
(* Mutant: rollback is taken for finished before the last key is restored.   *)
MutantRollbackFinished ==
    Uncommitable /\ ~RootRestoreDue

RollbackFinished ==
    /\ Uncommitable /\ ~RootRestoreDue
    /\ journal.rolled_back = Published

BeginCompletion ==
    /\ RollbackFinished /\ ~journal.completion_started
    /\ journal' = [journal EXCEPT !.phase = "rolling-back",
                                  !.checkpoint = "rollback-completion-pending",
                                  !.mutation = "none",
                                  !.outcome = "failed-pre-commit",
                                  !.completion_started = TRUE]
    /\ RewriteOnly

WriteCompletion ==
    /\ RollbackFinished /\ journal.completion_started /\ ~completion
    /\ completion' = TRUE
    /\ UNCHANGED << plan, journal, dest, stage, backup, tree, terminal,
                    root_changed, process >>

RecordCompletion ==
    /\ RollbackFinished /\ completion /\ ~journal.completion_recorded
    /\ journal' = [journal EXCEPT !.checkpoint = "rollback-completion-done",
                                  !.completion_recorded = TRUE]
    /\ RewriteOnly

BeginEvidenceClear ==
    /\ RollbackFinished /\ journal.completion_recorded
    /\ journal.checkpoint # "rollback-evidence-clear-pending"
    /\ journal' = [journal EXCEPT !.checkpoint = "rollback-evidence-clear-pending"]
    /\ RewriteOnly

EnterFailedCleanup ==
    /\ Recovering /\ At("rolling-back", "rollback-evidence-clear-pending")
    /\ journal' = [journal EXCEPT !.phase = "cleaning-up",
                                  !.checkpoint = "cleanup-pending",
                                  !.step = "stage",
                                  !.mutation = "none",
                                  !.rolled_back = {},
                                  !.recovery_mode = "cleanup-only"]
    /\ RewriteOnly

------------------------------------------------------------------------------
(* _recover_cleanup: what the transaction owns is removed in a fixed order,  *)
(* then the terminal record is published and the journal unlinked.           *)
StartCleanup ==
    /\ Recovering /\ journal.phase = "committed"
    /\ journal' = [journal EXCEPT !.phase = "cleaning-up",
                                  !.checkpoint = "cleanup-pending",
                                  !.step = CleanupOrder[1],
                                  !.mutation = "none"]
    /\ RewriteOnly

CleanupPending(step) ==
    /\ At("cleaning-up", "cleanup-pending") /\ journal.step = step

UnlinkMarker ==
    /\ Recovering /\ CleanupPending("archive-marker")
    /\ dest["archive_marker"] = "new"
    /\ dest' = [dest EXCEPT !["archive_marker"] = "absent"]
    /\ UNCHANGED << plan, journal, stage, backup, tree, completion, terminal,
                    root_changed, process >>

(* remove_exact_tree deletes a tree entry by entry, then its root; a tree    *)
(* that has lost an entry counts as having lost them all.                    *)
EmptyStage ==
    /\ Recovering /\ CleanupPending("stage") /\ TreeExact("stage")
    /\ tree' = [tree EXCEPT !["stage"] = "partial"]
    /\ stage' = [n \in Names |-> "absent"]
    /\ process' = "removing"
    /\ UNCHANGED << plan, journal, dest, backup, completion, terminal,
                    root_changed >>

EmptyBackup ==
    /\ Recovering /\ CleanupPending("backup") /\ TreeExact("backup")
    /\ \E k \in Keys : backup[k] # "absent"
    /\ tree' = [tree EXCEPT !["backup"] = "partial"]
    /\ backup' = [k \in Keys |-> "absent"]
    /\ process' = "removing"
    /\ UNCHANGED << plan, journal, dest, stage, completion, terminal,
                    root_changed >>

(* The stage always holds its inputs directory; the backup may be empty.     *)
RemoveRoot(t) ==
    /\ CleanupPending(t)
    /\ \/ process = "removing" /\ tree[t] = "partial"
       \/ /\ Recovering /\ t = "backup" /\ TreeExact(t)
          /\ \A k \in Keys : backup[k] = "absent"
    /\ tree' = [tree EXCEPT ![t] = "gone"]
    /\ process' = "recovering"
    /\ UNCHANGED << plan, journal, dest, stage, backup, completion, terminal,
                    root_changed >>

WriteTerminal ==
    /\ Recovering /\ CleanupPending("terminal")
    /\ terminal = "absent"
    /\ terminal' = journal.outcome
    /\ UNCHANGED << plan, journal, dest, stage, backup, tree, completion,
                    root_changed, process >>

(* The effect of a cleanup step is on the disk.                              *)
CleanupApplied(step) ==
    CASE step = "archive-marker" -> dest["archive_marker"] = "absent"
      [] step \in Trees          -> tree[step] = "gone"
      [] step = "terminal"       -> terminal # "absent"

record_cleanup(step) ==
    /\ Recovering /\ CleanupPending(step) /\ CleanupApplied(step)
    /\ journal' = [journal EXCEPT !.checkpoint = "cleanup-done",
                                  !.removed = @ \cup {step}]
    /\ RewriteOnly

NextCleanup ==
    /\ Recovering /\ At("cleaning-up", "cleanup-done")
    /\ \E i \in DOMAIN CleanupOrder :
          /\ journal.step = CleanupOrder[i]
          /\ journal' = IF i = Len(CleanupOrder)
                        THEN [journal EXCEPT !.phase = "terminal",
                                             !.checkpoint = "journal-cleanup-pending"]
                        ELSE [journal EXCEPT !.checkpoint = "cleanup-pending",
                                             !.step = CleanupOrder[i + 1]]
    /\ RewriteOnly

RemoveJournal ==
    /\ Recovering /\ journal.phase = "terminal"
    /\ RetainedEvidenceValid
    /\ \A step \in Range(CleanupOrder) : CleanupApplied(step)
    /\ journal' = [journal EXCEPT !.phase = "removed"]
    /\ process' = "stopped"
    /\ UNCHANGED << plan, disk >>

------------------------------------------------------------------------------
(* A step the process checks and refuses: it stops with nothing changed.     *)
RefuseCleanup ==
    /\ Recovering
    /\ \E t \in Trees : CleanupPending(t) /\ tree[t] # "gone" /\ ~TreeExact(t)
    /\ process' = "stopped"
    /\ UNCHANGED << plan, journal, disk >>

RecoveryStep ==
    \/ ReconcilePublication \/ DiscardDirectoryStage \/ ForgetDirectoryStage
    \/ \E k \in Keys : SetRollbackPending(k) \/ RollbackRemove(k)
                       \/ RollbackExchange(k) \/ RollbackUnlinkDisplaced(k)
                       \/ record_rollback(k)
    \/ BeginRootRestore \/ RestoreArchiveRoot \/ RecordRootRestored
    \/ BeginCompletion \/ WriteCompletion \/ RecordCompletion
    \/ BeginEvidenceClear \/ EnterFailedCleanup
    \/ StartCleanup \/ UnlinkMarker
    \/ EmptyStage \/ EmptyBackup \/ \E t \in Trees : RemoveRoot(t)
    \/ WriteTerminal
    \/ \E step \in CleanupSteps : record_cleanup(step)
    \/ NextCleanup \/ RemoveJournal
==============================================================================
