---------------------------- MODULE ServiceJournal ----------------------------
(***************************************************************************)
(* The journal of a managed service transaction and the disk objects it    *)
(* describes (src/platform_pki/service_transaction.py).  The writer and    *)
(* the recovery are separate processes that share nothing but this state:  *)
(* each finds its next step in the journal and on the disk.                *)
(*                                                                         *)
(* A journal rewrite replaces the whole file atomically, so it is one step *)
(* that changes `journal` alone; a filesystem mutation is one step that    *)
(* changes disk state alone.  Between any two of them the process may die. *)
(***************************************************************************)
EXTENDS ServicePlan

CONSTANT Plans    \* the plans a transaction may be started with

(* What the planner and the parser guarantee of a plan: every object is     *)
(* published, staged, backed up and rolled back once, in a fixed order.     *)
WellFormed(p) ==
    /\ p.operation \in {"issue", "renew"}
    /\ p.publication \in Seq(Keys) /\ p.publication # << >>
    /\ p.rollback \in Seq(Keys) /\ Range(p.rollback) = Range(p.publication)
    /\ p.staging \in Seq(Keys \cup Inputs) /\ p.staging # << >>
    /\ p.backups \in Seq(Keys) /\ p.backups # << >>
    /\ IsInjective(p.publication) /\ IsInjective(p.rollback)
    /\ IsInjective(p.staging) /\ IsInjective(p.backups)
    /\ p.existing \subseteq Range(p.publication) \cap FileKeys
    /\ Range(p.backups) = p.existing
    /\ RequiredCAState \subseteq p.existing
    /\ Range(p.publication) \cap FileKeys \subseteq Range(p.staging)
    /\ Range(p.staging) \subseteq Inputs \cup (Range(p.publication) \cap FileKeys)
    /\ p.operation = "renew" => "archive_marker" \in Range(p.publication) \ p.existing
    /\ p.restores_root \in BOOLEAN
    /\ p.restores_root => "archive_dir" \in Range(p.publication)

(* What the two orders guarantee: an object is published after the directory *)
(* it is published into and rolled back before it, nothing that existed sits *)
(* in a directory the plan creates, and the directories rolled back after    *)
(* the archive directory are those of the service and the archive root.      *)
Nested(p) ==
    /\ \A i \in DOMAIN p.publication :
           ParentOf[p.publication[i]] \in Range(p.publication)
              => \E h \in 1..(i - 1) : p.publication[h] = ParentOf[p.publication[i]]
    /\ \A i, j \in DOMAIN p.rollback :
           ParentOf[p.rollback[j]] = p.rollback[i] => j < i
    /\ \A k \in p.existing : ParentOf[k] \notin Range(p.publication)
    /\ \A i, j \in DOMAIN p.rollback :
           p.restores_root /\ p.rollback[i] = "archive_dir"
              => (j > i <=> p.rollback[j] \in ServiceContainers \cup {"archive_root"})

ASSUME PlansAssumption == \A p \in Plans : WellFormed(p)
ASSUME OrdersAssumption == \A p \in Plans : Nested(p)

VARIABLES
    plan,         \* the immutable plan of this transaction
    journal,      \* the journal file; phase "removed" once it is unlinked
    dest,         \* dest[k]: the object at k's destination
    stage,        \* stage[n]: the object at name n of the private stage tree
    backup,       \* backup[k]: the object at name k of the private backup tree
    tree,         \* tree[t]: how much of the private tree t is left
    completion,   \* the retained rollback-complete record exists
    terminal,     \* outcome the retained terminal record states, or "absent"
    root_changed, \* the existing archive root lost its snapshot mtime
    process       \* what the one process holding the inventory locks does

disk == << dest, stage, backup, tree, completion, terminal, root_changed >>
vars == << plan, journal, disk, process >>

------------------------------------------------------------------------------
Names == Keys \cup Inputs
Trees == {"stage", "backup"}
CleanupSteps == {"archive-marker", "stage", "backup", "terminal"}

Phases == {"staging", "backing-up", "planned", "publishing", "verifying",
           "committed", "rolling-back", "cleaning-up", "terminal", "removed"}

(* "cleanup-pending" and "cleanup-done" with a `step` stand for the          *)
(* checkpoints cleanup-<step>-pending and cleanup-<step>-done.               *)
Checkpoints ==
    {"staging-pending", "staging-done", "backup-pending", "backup-done",
     "planned", "publication-pending", "publication-done",
     "verification-pending", "verification-done", "commit-done",
     "rollback-pending", "rollback-done",
     "archive-root-restore-pending", "archive-root-restore-done",
     "rollback-completion-pending", "rollback-completion-done",
     "rollback-evidence-clear-pending",
     "cleanup-pending", "cleanup-done", "journal-cleanup-pending"}

Outcomes == {"none", "succeeded", "failed-pre-commit"}

(* `rolled_back` is the set of keys with rollback identity evidence: the     *)
(* journal's rollback_count is its size.  `directory_stage` is the post      *)
(* identity of the pending directory, recorded before it is published.       *)
(* `removed` holds the cleanup steps whose evidence is recorded.             *)
JournalType ==
    [phase : Phases, checkpoint : Checkpoints,
     mutation : Names \cup {"none"}, step : CleanupSteps \cup {"none"},
     committed : BOOLEAN, recovery_mode : {"rollback", "cleanup-only"},
     outcome : Outcomes,
     staged_count : Nat, backed_up_count : Nat, published_count : Nat,
     rolled_back : SUBSET Keys, directory_stage : BOOLEAN,
     completion_started : BOOLEAN, completion_recorded : BOOLEAN,
     root_restored : BOOLEAN, removed : SUBSET CleanupSteps]

(* An object is "original" (the pre-transaction inode), "copy" (the private *)
(* backup copy of an original) or "new" (made by this transaction).         *)
DestStates == {"absent", "original", "copy", "new"}
StageStates == {"absent", "new", "original"}
BackupStates == {"absent", "copy", "new"}

TypeOK ==
    /\ plan \in Plans
    /\ journal \in JournalType
    /\ dest \in [Keys -> DestStates]
    /\ stage \in [Names -> StageStates]
    /\ backup \in [Keys -> BackupStates]
    /\ tree \in [Trees -> {"whole", "partial", "gone"}]
    /\ completion \in BOOLEAN
    /\ terminal \in {"absent", "succeeded", "failed-pre-commit"}
    /\ root_changed \in BOOLEAN
    /\ process \in {"writing", "recovering", "removing", "stopped"}

------------------------------------------------------------------------------
Prefix(seq, n) == {seq[i] : i \in 1..n}

Planned == Range(plan.publication)
Published == Prefix(plan.publication, journal.published_count)
StagedNames == Prefix(plan.staging, journal.staged_count)
BackedUp == Prefix(plan.backups, journal.backed_up_count)

Original(k) == IF k \in plan.existing THEN "original" ELSE "absent"
Restored(k) == IF k \in plan.existing THEN "copy" ELSE "absent"

Prepared == /\ journal.staged_count = Len(plan.staging)
            /\ journal.backed_up_count = Len(plan.backups)

PublicationPending == /\ journal.phase = "publishing"
                      /\ journal.checkpoint = "publication-pending"
RollbackPending == /\ journal.phase = "rolling-back"
                   /\ journal.checkpoint = "rollback-pending"

(* The snapshot mtime of an archive root that existed must come back once    *)
(* the archive directory published into it has been removed again.           *)
RootRestoreNeeded == plan.restores_root /\ "archive_dir" \in Published

(* Mutant: rollback follows the publication order.                          *)
MutantRollbackNext(k) ==
    \E i \in DOMAIN plan.publication :
        /\ plan.publication[i] = k
        /\ k \in Published \ journal.rolled_back
        /\ \A h \in 1..(i - 1) :
               plan.publication[h] \notin Published \ journal.rolled_back

(* The order a journal may roll its published prefix back in.                *)
RollbackNext(k) ==
    \E i \in DOMAIN plan.rollback :
        /\ plan.rollback[i] = k
        /\ k \in Published \ journal.rolled_back
        /\ \A h \in 1..(i - 1) :
               plan.rollback[h] \notin Published \ journal.rolled_back

(* service_cleanup_owned_keys, then the terminal record.                     *)
CleanupOrder ==
    IF plan.operation = "renew" /\ journal.outcome = "succeeded"
    THEN << "archive-marker", "stage", "backup", "terminal" >>
    ELSE << "stage", "backup", "terminal" >>

(* The identity a journal rewrite leaves behind: only the journal changes.   *)
RewriteOnly == UNCHANGED << plan, disk, process >>

InitialJournal(p) ==
    [phase |-> "staging", checkpoint |-> "staging-pending",
     mutation |-> p.staging[1], step |-> "none",
     committed |-> FALSE, recovery_mode |-> "rollback", outcome |-> "none",
     staged_count |-> 0, backed_up_count |-> 0, published_count |-> 0,
     rolled_back |-> {}, directory_stage |-> FALSE,
     completion_started |-> FALSE, completion_recorded |-> FALSE,
     root_restored |-> FALSE, removed |-> {}]

------------------------------------------------------------------------------
(* The phase and evidence table of parse_service_transaction.  Every read    *)
(* and every rewrite parses the journal, so a process that built a journal   *)
(* outside this table would stop with an error at that rewrite.              *)

(* A pending checkpoint names the item after the recorded prefix, a done     *)
(* checkpoint the last item of it.                                           *)
NamesNext(seq, n, pending, done) ==
    \/ /\ journal.checkpoint = pending
       /\ n < Len(seq) /\ journal.mutation = seq[n + 1]
    \/ /\ journal.checkpoint = done
       /\ n \in 1..Len(seq) /\ journal.mutation = seq[n]

Uncommitted == ~journal.committed /\ journal.recovery_mode = "rollback"
NoCompletion == ~journal.completion_started /\ ~journal.completion_recorded
Forward == /\ Uncommitted /\ NoCompletion
           /\ journal.outcome = "none" /\ journal.rolled_back = {}

LegalForward ==
    \/ /\ journal.phase = "staging"
       /\ NamesNext(plan.staging, journal.staged_count,
                    "staging-pending", "staging-done")
       /\ journal.backed_up_count = 0 /\ journal.published_count = 0
    \/ /\ journal.phase = "backing-up"
       /\ journal.staged_count = Len(plan.staging)
       /\ NamesNext(plan.backups, journal.backed_up_count,
                    "backup-pending", "backup-done")
       /\ journal.published_count = 0
    \/ /\ journal.phase = "planned" /\ journal.checkpoint = "planned"
       /\ journal.mutation = "none"
       /\ Prepared /\ journal.published_count = 0
    \/ /\ journal.phase = "publishing" /\ Prepared
       /\ NamesNext(plan.publication, journal.published_count,
                    "publication-pending", "publication-done")
    \/ /\ journal.phase = "verifying" /\ Prepared
       /\ journal.checkpoint \in {"verification-pending", "verification-done"}
       /\ journal.mutation = "none"
       /\ journal.published_count = Len(plan.publication)

LegalCommitted ==
    /\ journal.committed /\ journal.recovery_mode = "cleanup-only"
    /\ journal.outcome = "succeeded" /\ NoCompletion
    /\ Prepared /\ journal.published_count = Len(plan.publication)

(* Rolled back keys are a prefix of the rollback order; with an archive root *)
(* to restore, nothing follows the archive directory before the restoration. *)
LegalRollback ==
    LET last == \E i \in DOMAIN plan.rollback :
                    /\ plan.rollback[i] = journal.mutation
                    /\ journal.mutation \in journal.rolled_back
                    /\ \A h \in DOMAIN plan.rollback :
                           h > i => plan.rollback[h] \notin journal.rolled_back
        boundary == "archive_dir" \in journal.rolled_back
                    /\ \A k \in journal.rolled_back : k \notin ServiceContainers \cup {"archive_root"}
    IN  /\ Uncommitted /\ journal.outcome = "failed-pre-commit"
        /\ \/ /\ journal.checkpoint = "rollback-pending" /\ NoCompletion
              /\ RollbackNext(journal.mutation)
              /\ RootRestoreNeeded =>
                    (journal.root_restored <=> "archive_dir" \in journal.rolled_back)
           \/ /\ journal.checkpoint = "rollback-done" /\ NoCompletion /\ last
              /\ RootRestoreNeeded =>
                    (journal.root_restored <=>
                        "archive_dir" \in journal.rolled_back /\ ~boundary)
           \/ /\ journal.checkpoint \in {"archive-root-restore-pending",
                                         "archive-root-restore-done"}
              /\ RootRestoreNeeded /\ boundary /\ journal.mutation = "none"
              /\ journal.root_restored <=>
                    journal.checkpoint = "archive-root-restore-done"
           \/ /\ journal.checkpoint \in {"rollback-completion-pending",
                                         "rollback-completion-done",
                                         "rollback-evidence-clear-pending"}
              /\ journal.rolled_back = Published /\ journal.mutation = "none"
              /\ RootRestoreNeeded => journal.root_restored
              /\ journal.completion_started
              /\ journal.completion_recorded <=>
                    journal.checkpoint # "rollback-completion-pending"

(* _cleanup_matrix: cleanup evidence is the prefix before a pending step and *)
(* the prefix through a done one.                                            *)
LegalCleanup ==
    LET n == Len(CleanupOrder)
    IN  \/ /\ journal.checkpoint = "journal-cleanup-pending"
           /\ journal.removed = Range(CleanupOrder)
        \/ \E i \in 1..n :
              /\ journal.step = CleanupOrder[i]
              /\ \/ /\ journal.checkpoint = "cleanup-pending"
                    /\ journal.removed = Prefix(CleanupOrder, i - 1)
                 \/ /\ journal.checkpoint = "cleanup-done"
                    /\ journal.removed = Prefix(CleanupOrder, i)

LegalTerminal ==
    /\ journal.mutation = "none" /\ journal.rolled_back = {}
    /\ journal.recovery_mode = "cleanup-only"
    /\ \/ LegalCommitted
       \/ /\ ~journal.committed /\ journal.outcome = "failed-pre-commit"
          /\ journal.completion_started /\ journal.completion_recorded
          /\ RootRestoreNeeded => journal.root_restored
    /\ LegalCleanup
    /\ journal.phase = "terminal" <=> journal.checkpoint = "journal-cleanup-pending"

(* The journal a process reads or writes is always one the parser accepts:   *)
(* the writer and the recovery never paint themselves into a record that     *)
(* neither can load again.                                                   *)
JournalLegal ==
    /\ journal.phase \in {"staging", "backing-up", "planned",
                          "publishing", "verifying"} => Forward /\ LegalForward
    /\ journal.phase = "committed" =>
          /\ LegalCommitted /\ journal.rolled_back = {}
          /\ journal.checkpoint = "commit-done" /\ journal.mutation = "none"
    /\ journal.phase = "rolling-back" => LegalRollback
    /\ journal.phase \in {"cleaning-up", "terminal"} => LegalTerminal
    /\ journal.directory_stage => PublicationPending
    /\ journal.phase \notin {"cleaning-up", "terminal", "removed"}
          => journal.removed = {}
    /\ journal.root_restored =>
          /\ journal.phase \in {"rolling-back", "cleaning-up", "terminal", "removed"}
          /\ RootRestoreNeeded /\ ~journal.committed
    /\ journal.backed_up_count > 0 => journal.staged_count = Len(plan.staging)
    /\ journal.published_count > 0 => Prepared
==============================================================================
