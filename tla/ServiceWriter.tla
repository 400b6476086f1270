---------------------------- MODULE ServiceWriter ----------------------------
(***************************************************************************)
(* The forward half of a managed service transaction: ManagedServiceWriter *)
(* (src/platform_pki/service_writer.py) driven by _run_managed_service     *)
(* (src/platform_pki/service_issue.py).  Every mutation is announced by a  *)
(* "pending" rewrite and acknowledged by a "done" rewrite.                 *)
(***************************************************************************)
EXTENDS ServicePreflight

Writing(checkpoint) ==
    process = "writing" /\ journal.checkpoint = checkpoint

------------------------------------------------------------------------------
(* Staging: a signing input copy, an OpenSSL output or an archive copy is    *)
(* created under the private stage.                                          *)
StageFile ==
    /\ Writing("staging-pending")
    /\ stage[journal.mutation] = "absent"
    /\ stage' = [stage EXCEPT ![journal.mutation] = "new"]
    /\ UNCHANGED << plan, journal, dest, backup, tree, completion, terminal,
                    root_changed, process >>

record_staging ==
    /\ Writing("staging-pending")
    /\ stage[journal.mutation] = "new"
    /\ journal' = [journal EXCEPT !.staged_count = @ + 1,
                                  !.checkpoint = "staging-done"]
    /\ RewriteOnly

begin_staging ==
    /\ Writing("staging-done")
    /\ journal.staged_count < Len(plan.staging)
    /\ journal' = [journal EXCEPT !.checkpoint = "staging-pending",
                                  !.mutation = plan.staging[journal.staged_count + 1]]
    /\ RewriteOnly

(* Backup: a byte-exact private copy of every object that will be replaced.  *)
begin_backup ==
    /\ \/ Writing("staging-done") /\ journal.staged_count = Len(plan.staging)
       \/ Writing("backup-done")
    /\ journal.backed_up_count < Len(plan.backups)
    /\ journal' = [journal EXCEPT !.phase = "backing-up",
                                  !.checkpoint = "backup-pending",
                                  !.mutation = plan.backups[journal.backed_up_count + 1]]
    /\ RewriteOnly

(* Mutant: the backup is a hard link to the original, not a copy of it.      *)
MutantCopyBackup ==
    /\ Writing("backup-pending")
    /\ backup[journal.mutation] = "absent"
    /\ backup' = [backup EXCEPT ![journal.mutation] = dest[journal.mutation]]
    /\ UNCHANGED << plan, journal, dest, stage, tree, completion, terminal,
                    root_changed, process >>

CopyBackup ==
    /\ Writing("backup-pending")
    /\ backup[journal.mutation] = "absent"
    /\ backup' = [backup EXCEPT ![journal.mutation] = "copy"]
    /\ UNCHANGED << plan, journal, dest, stage, tree, completion, terminal,
                    root_changed, process >>

record_backup ==
    /\ Writing("backup-pending")
    /\ backup[journal.mutation] = "copy"
    /\ journal' = [journal EXCEPT !.backed_up_count = @ + 1,
                                  !.checkpoint = "backup-done"]
    /\ RewriteOnly

finish_preparation ==
    /\ Writing("backup-done")
    /\ Prepared
    /\ journal' = [journal EXCEPT !.phase = "planned", !.checkpoint = "planned",
                                  !.mutation = "none"]
    /\ RewriteOnly

------------------------------------------------------------------------------
(* publish_next, one filesystem or journal mutation at a time.               *)

(* Mutant: publication starts before every backup is recorded.               *)
MutantBeginPublication ==
    /\ Writing("backup-done") \/ Writing("planned") \/ Writing("publication-done")
    /\ journal.published_count < Len(plan.publication)
    /\ journal' = [journal EXCEPT !.phase = "publishing",
                                  !.checkpoint = "publication-pending",
                                  !.mutation = plan.publication[journal.published_count + 1]]
    /\ RewriteOnly

begin_publication ==
    /\ Writing("planned") \/ Writing("publication-done")
    /\ journal.published_count < Len(plan.publication)
    /\ journal' = [journal EXCEPT !.phase = "publishing",
                                  !.checkpoint = "publication-pending",
                                  !.mutation = plan.publication[journal.published_count + 1]]
    /\ RewriteOnly

Publishing(k) ==
    Writing("publication-pending") /\ journal.mutation = k

(* validate_service_writer_publication_preflight: the writer authenticates   *)
(* the unapplied boundary with the recovery's own checks.                    *)
ForwardBoundary(k) == Publishing(k) /\ Preflight /\ ~PublicationApplied

(* A destination can only be created in a directory that exists.             *)
ParentReady(k) == ParentOf[k] \in Planned => dest[ParentOf[k]] = "new"

(* mkdir stage/<key>; its identity is journaled before it is published.      *)
StageDirectory(k) ==
    /\ ForwardBoundary(k) /\ k \in DirectoryKeys
    /\ stage[k] = "absent" /\ dest[k] = "absent" /\ ~journal.directory_stage
    /\ stage' = [stage EXCEPT ![k] = "new"]
    /\ UNCHANGED << plan, journal, dest, backup, tree, completion, terminal,
                    root_changed, process >>

RecordDirectoryStage(k) ==
    /\ Publishing(k) /\ k \in DirectoryKeys
    /\ stage[k] = "new" /\ ~journal.directory_stage
    /\ journal' = [journal EXCEPT !.directory_stage = TRUE]
    /\ RewriteOnly

(* publish_no_clobber: one rename that fails if the destination exists.      *)
PublishNew(k) ==
    /\ ForwardBoundary(k)
    /\ k \in DirectoryKeys => journal.directory_stage
    /\ stage[k] = "new" /\ dest[k] = "absent" /\ ParentReady(k)
    /\ k \notin plan.existing
    /\ dest' = [dest EXCEPT ![k] = "new"]
    /\ stage' = [stage EXCEPT ![k] = "absent"]
    /\ root_changed' = (root_changed \/ (plan.restores_root /\ k = "archive_dir"))
    /\ UNCHANGED << plan, journal, backup, tree, completion, terminal, process >>

(* replace_exact: exchange the two names, then unlink the displaced object   *)
(* from the source name.                                                     *)
ExchangeNew(k) ==
    /\ ForwardBoundary(k) /\ k \in plan.existing
    /\ stage[k] = "new" /\ dest[k] = "original"
    /\ dest' = [dest EXCEPT ![k] = "new"]
    /\ stage' = [stage EXCEPT ![k] = "original"]
    /\ UNCHANGED << plan, journal, backup, tree, completion, terminal,
                    root_changed, process >>

UnlinkDisplaced(k) ==
    /\ Publishing(k)
    /\ stage[k] = "original" /\ dest[k] = "new"
    /\ stage' = [stage EXCEPT ![k] = "absent"]
    /\ UNCHANGED << plan, journal, dest, backup, tree, completion, terminal,
                    root_changed, process >>

(* Mutant: the publication is recorded before it has happened.               *)
MutantRecordPublication(k) ==
    /\ Publishing(k)
    /\ journal' = [journal EXCEPT !.published_count = @ + 1,
                                  !.checkpoint = "publication-done",
                                  !.directory_stage = FALSE]
    /\ RewriteOnly

record_publication(k) ==
    /\ Publishing(k)
    /\ stage[k] = "absent" /\ dest[k] = "new"
    /\ journal' = [journal EXCEPT !.published_count = @ + 1,
                                  !.checkpoint = "publication-done",
                                  !.directory_stage = FALSE]
    /\ RewriteOnly

------------------------------------------------------------------------------
(* Mutant: verification starts before the last object is published.          *)
MutantBeginVerification ==
    /\ Writing("publication-done")
    /\ journal' = [journal EXCEPT !.phase = "verifying",
                                  !.checkpoint = "verification-pending",
                                  !.mutation = "none"]
    /\ RewriteOnly

begin_verification ==
    /\ Writing("publication-done")
    /\ journal.published_count = Len(plan.publication)
    /\ journal' = [journal EXCEPT !.phase = "verifying",
                                  !.checkpoint = "verification-pending",
                                  !.mutation = "none"]
    /\ RewriteOnly

finish_verification ==
    /\ Writing("verification-pending")
    /\ journal' = [journal EXCEPT !.checkpoint = "verification-done"]
    /\ RewriteOnly

commit ==
    /\ Writing("verification-done")
    /\ journal' = [journal EXCEPT !.phase = "committed",
                                  !.checkpoint = "commit-done",
                                  !.mutation = "none",
                                  !.committed = TRUE,
                                  !.recovery_mode = "cleanup-only",
                                  !.outcome = "succeeded"]
    /\ RewriteOnly

(* The committed writer releases its locks; cleanup runs as a recovery.      *)
WriterReturns ==
    /\ Writing("commit-done")
    /\ process' = "stopped"
    /\ UNCHANGED << plan, journal, disk >>

WriterStep ==
    \/ StageFile \/ record_staging \/ begin_staging
    \/ begin_backup \/ CopyBackup \/ record_backup \/ finish_preparation
    \/ begin_publication
    \/ \E k \in Keys : StageDirectory(k) \/ RecordDirectoryStage(k)
                       \/ PublishNew(k) \/ ExchangeNew(k)
                       \/ UnlinkDisplaced(k) \/ record_publication(k)
    \/ begin_verification \/ finish_verification \/ commit \/ WriterReturns
==============================================================================
