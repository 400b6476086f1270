----------------------- MODULE ServiceTransaction_proofs -----------------------
(*****************************************************************************)
(* A managed service transaction is typed and atomic: proofs, for every set  *)
(* of well-formed plans, that the disk is never more than one announced      *)
(* mutation ahead of the journal, that no original is lost before commit,    *)
(* that the terminal record tells the truth, and that the transaction        *)
(* implements AtomicService.                                                 *)
(*                                                                           *)
(* The inductive invariant has one part per concern; each is shown           *)
(* preserved from itself and the parts before it.                            *)
(*****************************************************************************)
EXTENDS ServiceTransaction, TLAPS

------------------------------------------------------------------------------
(* TypeOK alone is not inductive: a terminal record states the journal's     *)
(* outcome, which is a decided one only because cleanup starts from a        *)
(* decision.  PhaseInv ties phase, checkpoint, outcome and process together. *)

ForwardPhases == {"staging", "backing-up", "planned", "publishing", "verifying"}
CleanupPhases == {"cleaning-up", "terminal", "removed"}

ForwardCheckpoints ==
  {"staging-pending", "staging-done", "backup-pending", "backup-done", "planned",
   "publication-pending", "publication-done",
   "verification-pending", "verification-done"}

CleanupCheckpoints == {"cleanup-pending", "cleanup-done", "journal-cleanup-pending"}

PhaseInv ==
  /\ journal.phase \in ForwardPhases =>
        /\ journal.checkpoint \in ForwardCheckpoints
        /\ ~journal.committed /\ journal.outcome = "none"
        /\ ~journal.completion_started /\ ~journal.completion_recorded
        /\ ~completion
  /\ journal.phase = "rolling-back" =>
        /\ journal.checkpoint \notin ForwardCheckpoints \cup CleanupCheckpoints
                                      \cup {"commit-done"}
        /\ ~journal.committed /\ journal.outcome = "failed-pre-commit"
  /\ journal.phase = "committed" =>
        /\ journal.checkpoint = "commit-done"
        /\ journal.committed /\ journal.outcome = "succeeded"
  /\ journal.phase \in CleanupPhases =>
        /\ journal.checkpoint \in CleanupCheckpoints
        /\ journal.outcome = IF journal.committed THEN "succeeded"
                             ELSE "failed-pre-commit"
  /\ journal.checkpoint \in {"publication-pending", "publication-done"}
        => journal.phase = "publishing"
  /\ journal.directory_stage => PublicationPending

Inv == TypeOK /\ PhaseInv

------------------------------------------------------------------------------
(* An element of a sequence read inside its bounds.                          *)
LEMMA ElementInRange ==
  ASSUME NEW S, NEW s \in Seq(S), NEW n \in Nat, n < Len(s)
  PROVE  s[n + 1] \in S
  OBVIOUS

(* A transaction starts in a typed state.                                    *)
LEMMA TypeInit == Init => TypeOK
<1> SUFFICES ASSUME Init PROVE TypeOK
  OBVIOUS
<1>1. WellFormed(plan)
  BY PlansAssumption DEF Init
<1>2. plan.staging[1] \in Names
  BY <1>1, ElementInRange DEF WellFormed, Names
<1>3. journal \in JournalType
  BY <1>2 DEF Init, InitialJournal, JournalType, Phases, Checkpoints, Outcomes
<1>4. dest \in [Keys -> DestStates]
  BY DEF Init, DestStates, Original
<1> QED
  BY <1>3, <1>4 DEF Init, TypeOK, StageStates, BackupStates

(* What the rewrites of the journal change leaves a record of the type.      *)
LEMMA Moved ==
  ASSUME NEW j \in JournalType, NEW ph \in Phases, NEW cp \in Checkpoints,
         NEW m \in Names \cup {"none"}, NEW o \in Outcomes
  PROVE  [j EXCEPT !.phase = ph, !.checkpoint = cp,
                   !.mutation = m, !.outcome = o] \in JournalType
  BY DEF JournalType

LEMMA Stepped ==
  ASSUME NEW j \in JournalType, NEW ph \in Phases, NEW cp \in Checkpoints,
         NEW st \in CleanupSteps \cup {"none"}
  PROVE  [j EXCEPT !.phase = ph, !.checkpoint = cp, !.step = st] \in JournalType
  BY DEF JournalType

(* One step of the writer keeps the state typed.                             *)
LEMMA TypeWriter == TypeOK /\ WriterStep => TypeOK'
<1> SUFFICES ASSUME TypeOK, WriterStep PROVE TypeOK'
  OBVIOUS
<1> USE DEF TypeOK, Writing
<1>p. WellFormed(plan)
  BY PlansAssumption
<1>n. /\ journal.staged_count + 1 \in Nat
      /\ journal.backed_up_count + 1 \in Nat
      /\ journal.published_count + 1 \in Nat
  BY DEF JournalType
<1> DEFINE staged == journal.staged_count + 1
           backed_up == journal.backed_up_count + 1
           published == journal.published_count + 1
<1>1. CASE StageFile
  BY <1>1 DEF StageFile, StageStates
<1>2. CASE record_staging
  <2>1. staged \in Nat
    BY <1>n
  <2>2. journal' = [journal EXCEPT !.staged_count = staged,
                                   !.checkpoint = "staging-done"]
    BY <1>2 DEF record_staging
  <2>3. journal' \in JournalType
    <3> HIDE DEF staged
    <3> QED BY <2>1, <2>2 DEF JournalType, Checkpoints
  <2> QED BY <1>2, <2>3 DEF record_staging, RewriteOnly, disk
<1>3. CASE begin_staging
  <2>1. plan.staging[journal.staged_count + 1] \in Names
    BY <1>3, <1>p, ElementInRange DEF begin_staging, WellFormed, Names, JournalType
  <2>2. journal' \in JournalType
    BY <1>3, <2>1 DEF begin_staging, JournalType, Checkpoints
  <2> QED BY <1>3, <2>2 DEF begin_staging, RewriteOnly, disk
<1>4. CASE begin_backup
  <2>1. plan.backups[journal.backed_up_count + 1] \in Names
    BY <1>4, <1>p, ElementInRange DEF begin_backup, WellFormed, Names, JournalType
  <2>2. journal' \in JournalType
    BY <1>4, <2>1 DEF begin_backup, JournalType, Checkpoints, Phases
  <2> QED BY <1>4, <2>2 DEF begin_backup, RewriteOnly, disk
<1>5. CASE CopyBackup
  BY <1>5 DEF CopyBackup, BackupStates
<1>6. CASE record_backup
  <2>1. backed_up \in Nat
    BY <1>n
  <2>2. journal' = [journal EXCEPT !.backed_up_count = backed_up,
                                   !.checkpoint = "backup-done"]
    BY <1>6 DEF record_backup
  <2>3. journal' \in JournalType
    <3> HIDE DEF backed_up
    <3> QED BY <2>1, <2>2 DEF JournalType, Checkpoints
  <2> QED BY <1>6, <2>3 DEF record_backup, RewriteOnly, disk
<1>7. CASE finish_preparation
  BY <1>7 DEF finish_preparation, JournalType, Checkpoints, Phases, RewriteOnly, disk
<1>8. CASE begin_publication
  <2>1. plan.publication[journal.published_count + 1] \in Names
    BY <1>8, <1>p, ElementInRange DEF begin_publication, WellFormed, Names, JournalType
  <2>2. journal' \in JournalType
    BY <1>8, <2>1 DEF begin_publication, JournalType, Checkpoints, Phases
  <2> QED BY <1>8, <2>2 DEF begin_publication, RewriteOnly, disk
<1>9. ASSUME NEW k \in Keys,
             StageDirectory(k) \/ RecordDirectoryStage(k) \/ PublishNew(k)
             \/ ExchangeNew(k) \/ UnlinkDisplaced(k) \/ record_publication(k)
      PROVE  TypeOK'
  <2>1. CASE StageDirectory(k)
    BY <2>1 DEF StageDirectory, StageStates
  <2>2. CASE RecordDirectoryStage(k)
    BY <2>2 DEF RecordDirectoryStage, JournalType, RewriteOnly, disk
  <2>3. CASE PublishNew(k)
    BY <2>3 DEF PublishNew, StageStates, DestStates
  <2>4. CASE ExchangeNew(k)
    BY <2>4 DEF ExchangeNew, StageStates, DestStates
  <2>5. CASE UnlinkDisplaced(k)
    BY <2>5 DEF UnlinkDisplaced, StageStates
  <2>6. CASE record_publication(k)
    <3>1. published \in Nat
      BY <1>n
    <3>2. journal' = [journal EXCEPT !.published_count = published,
                                     !.checkpoint = "publication-done",
                                     !.directory_stage = FALSE]
      BY <2>6 DEF record_publication
    <3>3. journal' \in JournalType
      <4> HIDE DEF published
      <4> QED BY <3>1, <3>2 DEF JournalType, Checkpoints
    <3> QED BY <2>6, <3>3 DEF record_publication, RewriteOnly, disk
  <2> QED BY <1>9, <2>1, <2>2, <2>3, <2>4, <2>5, <2>6
<1>10. CASE begin_verification
  BY <1>10 DEF begin_verification, JournalType, Checkpoints, Phases, RewriteOnly, disk
<1>11. CASE finish_verification
  BY <1>11 DEF finish_verification, JournalType, Checkpoints, RewriteOnly, disk
<1>12. CASE commit
  <2> DEFINE moved == [journal EXCEPT !.phase = "committed",
                                      !.checkpoint = "commit-done",
                                      !.mutation = "none",
                                      !.outcome = "succeeded"]
  <2>1. moved \in JournalType
    <3>1. "committed" \in Phases /\ "commit-done" \in Checkpoints
          /\ "succeeded" \in Outcomes
      BY DEF Phases, Checkpoints, Outcomes
    <3> QED BY <3>1, Moved
  <2>2. journal' = [moved EXCEPT !.committed = TRUE,
                                 !.recovery_mode = "cleanup-only"]
    BY <1>12 DEF commit, JournalType
  <2>3. journal' \in JournalType
    <3> HIDE DEF moved, TypeOK
    <3> QED BY <2>1, <2>2 DEF JournalType
  <2> QED BY <1>12, <2>3 DEF commit, RewriteOnly, disk
<1>13. CASE WriterReturns
  BY <1>13 DEF WriterReturns, disk
<1> QED
  BY <1>1, <1>2, <1>3, <1>4, <1>5, <1>6, <1>7, <1>8, <1>9, <1>10, <1>11,
     <1>12, <1>13 DEF WriterStep

(* One step of the recovery keeps the state typed.                           *)
LEMMA TypeRecovery == Inv /\ RecoveryStep => TypeOK'
<1> SUFFICES ASSUME TypeOK, PhaseInv, RecoveryStep PROVE TypeOK'
  BY DEF Inv
<1> USE DEF TypeOK, Recovering
<1>n. journal.published_count + 1 \in Nat
  BY DEF JournalType
<1> DEFINE published == journal.published_count + 1
<1>j. journal \in JournalType /\ \A k \in Keys : k \in Names
  BY DEF Names
<1>s. \A i \in DOMAIN CleanupOrder : CleanupOrder[i] \in CleanupSteps
  BY DEF CleanupOrder, CleanupSteps
<1>1. CASE ReconcilePublication
  <2>1. published \in Nat
    BY <1>n
  <2>2. journal' = [journal EXCEPT !.published_count = published,
                                   !.checkpoint = "publication-done",
                                   !.directory_stage = FALSE]
    BY <1>1 DEF ReconcilePublication
  <2>3. journal' \in JournalType
    <3> HIDE DEF published
    <3> QED BY <2>1, <2>2 DEF JournalType, Checkpoints
  <2> QED BY <1>1, <2>3 DEF ReconcilePublication, RewriteOnly, disk
<1>2. CASE DiscardDirectoryStage
  BY <1>2 DEF DiscardDirectoryStage, StageStates
<1>3. CASE ForgetDirectoryStage
  BY <1>3 DEF ForgetDirectoryStage, JournalType, RewriteOnly, disk
<1>4. ASSUME NEW k \in Keys,
             SetRollbackPending(k) \/ RollbackRemove(k) \/ RollbackExchange(k)
             \/ RollbackUnlinkDisplaced(k) \/ record_rollback(k)
      PROVE  TypeOK'
  <2>1. CASE SetRollbackPending(k)
    <3>1. journal' = [journal EXCEPT !.phase = "rolling-back",
                                     !.checkpoint = "rollback-pending",
                                     !.mutation = k,
                                     !.outcome = "failed-pre-commit"]
      BY <2>1 DEF SetRollbackPending
    <3>2. journal' \in JournalType
      <4>1. "rolling-back" \in Phases /\ "rollback-pending" \in Checkpoints
            /\ "failed-pre-commit" \in Outcomes
        BY DEF Phases, Checkpoints, Outcomes
      <4> QED BY <1>j, <3>1, <4>1, Moved
    <3> QED BY <2>1, <3>2 DEF SetRollbackPending, RewriteOnly, disk
  <2>2. CASE RollbackRemove(k)
    BY <2>2 DEF RollbackRemove, DestStates
  <2>3. CASE RollbackExchange(k)
    BY <2>3 DEF RollbackExchange, DestStates, BackupStates
  <2>4. CASE RollbackUnlinkDisplaced(k)
    BY <2>4 DEF RollbackUnlinkDisplaced, BackupStates
  <2>5. CASE record_rollback(k)
    BY <2>5 DEF record_rollback, JournalType, Checkpoints, RewriteOnly, disk
  <2> QED BY <1>4, <2>1, <2>2, <2>3, <2>4, <2>5
<1>5. CASE BeginRootRestore
  <2>1. journal' = [journal EXCEPT !.phase = "rolling-back",
                                     !.checkpoint = "archive-root-restore-pending",
                                     !.mutation = "none",
                                     !.outcome = "failed-pre-commit"]
    BY <1>5 DEF BeginRootRestore
  <2>2. journal' \in JournalType
    <3>1. "rolling-back" \in Phases /\ "failed-pre-commit" \in Outcomes
          /\ "archive-root-restore-pending" \in Checkpoints
      BY DEF Phases, Checkpoints, Outcomes
    <3> QED BY <1>j, <2>1, <3>1, Moved
  <2> QED BY <1>5, <2>2 DEF BeginRootRestore, RewriteOnly, disk
<1>6. CASE RestoreArchiveRoot
  BY <1>6 DEF RestoreArchiveRoot
<1>7. CASE RecordRootRestored
  BY <1>7 DEF RecordRootRestored, JournalType, Checkpoints, RewriteOnly, disk
<1>8. CASE BeginCompletion
  <2> DEFINE moved == [journal EXCEPT !.phase = "rolling-back",
                                      !.checkpoint = "rollback-completion-pending",
                                      !.mutation = "none",
                                      !.outcome = "failed-pre-commit"]
  <2>1. moved \in JournalType
    <3>1. "rolling-back" \in Phases /\ "failed-pre-commit" \in Outcomes
          /\ "rollback-completion-pending" \in Checkpoints
      BY DEF Phases, Checkpoints, Outcomes
    <3> QED BY <1>j, <3>1, Moved
  <2>2. journal' = [moved EXCEPT !.completion_started = TRUE]
    BY <1>8 DEF BeginCompletion, JournalType
  <2>3. journal' \in JournalType
    <3> HIDE DEF moved, TypeOK
    <3> QED BY <2>1, <2>2 DEF JournalType
  <2> QED BY <1>8, <2>3 DEF BeginCompletion, RewriteOnly, disk
<1>9. CASE WriteCompletion
  BY <1>9 DEF WriteCompletion
<1>10. CASE RecordCompletion
  BY <1>10 DEF RecordCompletion, JournalType, Checkpoints, RewriteOnly, disk
<1>11. CASE BeginEvidenceClear
  BY <1>11 DEF BeginEvidenceClear, JournalType, Checkpoints, RewriteOnly, disk
<1>12. CASE EnterFailedCleanup
  <2> DEFINE moved == [journal EXCEPT !.phase = "cleaning-up",
                                      !.checkpoint = "cleanup-pending",
                                      !.step = "stage"]
  <2>1. moved \in JournalType
    <3>1. "cleaning-up" \in Phases /\ "cleanup-pending" \in Checkpoints
          /\ "stage" \in CleanupSteps
      BY DEF Phases, Checkpoints, CleanupSteps
    <3> QED BY <1>j, <3>1, Stepped
  <2>2. journal' = [moved EXCEPT !.mutation = "none",
                                 !.rolled_back = {},
                                 !.recovery_mode = "cleanup-only"]
    BY <1>12 DEF EnterFailedCleanup, JournalType
  <2>3. journal' \in JournalType
    <3> HIDE DEF moved, TypeOK
    <3> QED BY <2>1, <2>2 DEF JournalType
  <2> QED BY <1>12, <2>3 DEF EnterFailedCleanup, RewriteOnly, disk
<1>13. CASE StartCleanup
  <2> DEFINE moved == [journal EXCEPT !.phase = "cleaning-up",
                                      !.checkpoint = "cleanup-pending",
                                      !.step = CleanupOrder[1]]
  <2>1. moved \in JournalType
    <3>1. "cleaning-up" \in Phases /\ "cleanup-pending" \in Checkpoints
      BY DEF Phases, Checkpoints
    <3>2. CleanupOrder[1] \in CleanupSteps
      BY DEF CleanupOrder, CleanupSteps
    <3> QED BY <1>j, <3>1, <3>2, Stepped
  <2>2. journal' = [moved EXCEPT !.mutation = "none"]
    BY <1>13 DEF StartCleanup, JournalType
  <2>3. journal' \in JournalType
    <3> HIDE DEF moved, TypeOK
    <3> QED BY <2>1, <2>2 DEF JournalType
  <2> QED BY <1>13, <2>3 DEF StartCleanup, RewriteOnly, disk
<1>14. CASE UnlinkMarker
  BY <1>14 DEF UnlinkMarker, DestStates
<1>15. CASE EmptyStage
  BY <1>15 DEF EmptyStage, StageStates, Trees
<1>16. CASE EmptyBackup
  BY <1>16 DEF EmptyBackup, BackupStates, Trees
<1>17. ASSUME NEW t \in Trees, RemoveRoot(t) PROVE TypeOK'
  BY <1>17 DEF RemoveRoot
<1>18. CASE WriteTerminal
  <2>1. journal.outcome \in {"succeeded", "failed-pre-commit"}
    BY <1>18 DEF WriteTerminal, CleanupPending, At, PhaseInv, CleanupPhases
  <2> QED BY <1>18, <2>1 DEF WriteTerminal
<1>19. ASSUME NEW step \in CleanupSteps, record_cleanup(step) PROVE TypeOK'
  <2>1. journal' = [journal EXCEPT !.checkpoint = "cleanup-done",
                                     !.removed = @ \cup {step}]
    BY <1>19 DEF record_cleanup
  <2>2. journal' \in JournalType
    <3> HIDE DEF TypeOK
    <3> QED BY <1>j, <2>1 DEF JournalType, Checkpoints
  <2> QED BY <1>19, <2>2 DEF record_cleanup, RewriteOnly, disk
<1>20. CASE NextCleanup
  <2>1. PICK i \in DOMAIN CleanupOrder :
           journal' = IF i = Len(CleanupOrder)
                      THEN [journal EXCEPT !.phase = "terminal",
                                           !.checkpoint = "journal-cleanup-pending"]
                      ELSE [journal EXCEPT !.checkpoint = "cleanup-pending",
                                           !.step = CleanupOrder[i + 1]]
    BY <1>20 DEF NextCleanup
  <2>2. CASE i = Len(CleanupOrder)
    <3>1. journal' = [journal EXCEPT !.phase = "terminal",
                                     !.checkpoint = "journal-cleanup-pending"]
      BY <2>1, <2>2
    <3>2. journal' \in JournalType
      <4> HIDE DEF TypeOK
      <4> QED BY <1>j, <3>1 DEF JournalType, Checkpoints, Phases
    <3> QED BY <1>20, <3>2 DEF NextCleanup, RewriteOnly, disk
  <2>3. CASE i # Len(CleanupOrder)
    <3>1. CleanupOrder[i + 1] \in CleanupSteps
      BY <2>3 DEF CleanupOrder, CleanupSteps
    <3>2. journal' = [journal EXCEPT !.checkpoint = "cleanup-pending",
                                     !.step = CleanupOrder[i + 1]]
      BY <2>1, <2>3
    <3>3. journal' \in JournalType
      <4> HIDE DEF TypeOK
      <4> QED BY <1>j, <3>1, <3>2 DEF JournalType, Checkpoints
    <3> QED BY <1>20, <3>3 DEF NextCleanup, RewriteOnly, disk
  <2> QED BY <2>2, <2>3
<1>21. CASE RemoveJournal
  BY <1>21 DEF RemoveJournal, JournalType, Phases, disk
<1> QED
  BY <1>1, <1>2, <1>3, <1>4, <1>5, <1>6, <1>7, <1>8, <1>9, <1>10, <1>11,
     <1>12, <1>13, <1>14, <1>15, <1>16, <1>17, <1>18, <1>19, <1>20, <1>21
     DEF RecoveryStep

------------------------------------------------------------------------------
LEMMA PhaseInit == Init => PhaseInv
  BY DEF Init, InitialJournal, PhaseInv, ForwardPhases, CleanupPhases,
     ForwardCheckpoints, PublicationPending

LEMMA PhaseWriter == Inv /\ WriterStep => PhaseInv'
<1> SUFFICES ASSUME TypeOK, PhaseInv, WriterStep PROVE PhaseInv'
  BY DEF Inv
<1> USE DEF TypeOK, JournalType, PhaseInv, Writing, RewriteOnly, disk, ForwardPhases, CleanupPhases,
            ForwardCheckpoints, CleanupCheckpoints, PublicationPending
<1>p. journal.phase \in Phases /\ journal.checkpoint \in Checkpoints
  OBVIOUS
<1>1. CASE StageFile
  BY <1>1 DEF StageFile
<1>2. CASE record_staging
  BY <1>2, <1>p DEF record_staging, Phases
<1>3. CASE begin_staging
  BY <1>3, <1>p DEF begin_staging, Phases
<1>4. CASE begin_backup
  BY <1>4, <1>p DEF begin_backup, Phases
<1>5. CASE CopyBackup
  BY <1>5 DEF CopyBackup
<1>6. CASE record_backup
  BY <1>6, <1>p DEF record_backup, Phases
<1>7. CASE finish_preparation
  BY <1>7, <1>p DEF finish_preparation, Phases
<1>8. CASE begin_publication
  BY <1>8, <1>p DEF begin_publication, Phases
<1>9. ASSUME NEW k \in Keys,
             StageDirectory(k) \/ RecordDirectoryStage(k) \/ PublishNew(k)
             \/ ExchangeNew(k) \/ UnlinkDisplaced(k) \/ record_publication(k)
      PROVE  PhaseInv'
  <2>1. CASE StageDirectory(k) \/ PublishNew(k) \/ ExchangeNew(k)
             \/ UnlinkDisplaced(k)
    BY <2>1 DEF StageDirectory, PublishNew, ExchangeNew, UnlinkDisplaced
  <2>2. CASE RecordDirectoryStage(k)
    <3>1. PublicationPending
      BY <2>2, <1>p DEF RecordDirectoryStage, Publishing, Phases
    <3>2. /\ journal'.phase = "publishing"
          /\ journal'.checkpoint = "publication-pending"
          /\ ~journal'.committed /\ journal'.outcome = "none"
          /\ ~journal'.completion_started /\ ~journal'.completion_recorded
          /\ ~completion'
      BY <2>2, <3>1 DEF RecordDirectoryStage
    <3> QED BY <3>2
  <2>3. CASE record_publication(k)
    BY <2>3, <1>p DEF record_publication, Publishing, Phases
  <2> QED BY <1>9, <2>1, <2>2, <2>3
<1>10. CASE begin_verification
  BY <1>10, <1>p DEF begin_verification, Phases
<1>11. CASE finish_verification
  BY <1>11, <1>p DEF finish_verification, Phases
<1>12. CASE commit
  BY <1>12, <1>p DEF commit, Phases
<1>13. CASE WriterReturns
  BY <1>13 DEF WriterReturns
<1> QED
  BY <1>1, <1>2, <1>3, <1>4, <1>5, <1>6, <1>7, <1>8, <1>9, <1>10, <1>11,
     <1>12, <1>13 DEF WriterStep

(* The steps of the recovery, by the phase in which they are enabled.        *)
LEMMA PhaseRecovery == Inv /\ RecoveryStep => PhaseInv'
<1> SUFFICES ASSUME TypeOK, PhaseInv, RecoveryStep PROVE PhaseInv'
  BY DEF Inv
<1> USE DEF TypeOK, JournalType, PhaseInv, Recovering, ForwardPhases,
            CleanupPhases, ForwardCheckpoints, CleanupCheckpoints,
            PublicationPending, RollbackPending, Uncommitable, RewriteOnly, disk
<1>1. CASE ReconcilePublication
  BY <1>1 DEF ReconcilePublication, PublicationApplied
<1>2. CASE DiscardDirectoryStage
  BY <1>2 DEF DiscardDirectoryStage
<1>3. CASE ForgetDirectoryStage
  BY <1>3 DEF ForgetDirectoryStage
<1>4. ASSUME NEW k \in Keys,
             SetRollbackPending(k) \/ RollbackRemove(k) \/ RollbackExchange(k)
             \/ RollbackUnlinkDisplaced(k) \/ record_rollback(k)
      PROVE  PhaseInv'
  <2>1. CASE SetRollbackPending(k)
    BY <2>1 DEF SetRollbackPending
  <2>2. CASE RollbackRemove(k) \/ RollbackExchange(k) \/ RollbackUnlinkDisplaced(k)
    BY <2>2 DEF RollbackRemove, RollbackExchange, RollbackUnlinkDisplaced
  <2>3. CASE record_rollback(k)
    BY <2>3 DEF record_rollback, RollingBack
  <2> QED BY <1>4, <2>1, <2>2, <2>3
<1>5. CASE BeginRootRestore
  BY <1>5 DEF BeginRootRestore
<1>6. CASE RestoreArchiveRoot
  BY <1>6 DEF RestoreArchiveRoot
<1>7. CASE RecordRootRestored
  BY <1>7 DEF RecordRootRestored, At
<1>8. CASE BeginCompletion
  BY <1>8 DEF BeginCompletion, RollbackFinished
<1>9. CASE WriteCompletion
  BY <1>9 DEF WriteCompletion
<1>10. CASE RecordCompletion
  BY <1>10 DEF RecordCompletion, RollbackFinished
<1>11. CASE BeginEvidenceClear
  BY <1>11 DEF BeginEvidenceClear, RollbackFinished
<1>12. CASE EnterFailedCleanup
  BY <1>12 DEF EnterFailedCleanup, At
<1>13. CASE StartCleanup
  BY <1>13 DEF StartCleanup
<1>14. CASE UnlinkMarker \/ EmptyStage \/ EmptyBackup \/ WriteTerminal
  BY <1>14 DEF UnlinkMarker, EmptyStage, EmptyBackup, WriteTerminal
<1>15. ASSUME NEW t \in Trees, RemoveRoot(t) PROVE PhaseInv'
  BY <1>15 DEF RemoveRoot
<1>16. ASSUME NEW step \in CleanupSteps, record_cleanup(step) PROVE PhaseInv'
  BY <1>16 DEF record_cleanup, CleanupPending, At
<1>17. CASE NextCleanup
  BY <1>17 DEF NextCleanup, At
<1>18. CASE RemoveJournal
  BY <1>18 DEF RemoveJournal
<1> QED
  BY <1>1, <1>2, <1>3, <1>4, <1>5, <1>6, <1>7, <1>8, <1>9, <1>10, <1>11,
     <1>12, <1>13, <1>14, <1>15, <1>16, <1>17, <1>18 DEF RecoveryStep

------------------------------------------------------------------------------
(* Steps that leave the journal and the disk alone.                          *)
LEMMA ControlSteps ==
  Inv /\ (StartRecovery \/ RefuseCleanup \/ Stop \/ UNCHANGED vars) => Inv'
<1> SUFFICES ASSUME Inv, StartRecovery \/ RefuseCleanup \/ Stop \/ UNCHANGED vars
             PROVE  Inv'
  OBVIOUS
<1>1. UNCHANGED << plan, journal, disk >>
  BY DEF StartRecovery, RefuseCleanup, Stop, vars
<1>2. process' \in {"writing", "recovering", "removing", "stopped"}
  BY DEF StartRecovery, RefuseCleanup, Stop, vars, Inv, TypeOK
<1> QED
  BY <1>1, <1>2 DEF Inv, TypeOK, PhaseInv, disk, PublicationPending

(* The strengthened invariant holds in every reachable state.                *)
THEOREM Invariance == Spec => []Inv
<1>1. Init => Inv
  BY TypeInit, PhaseInit DEF Inv
<1>2. Inv /\ [Next]_vars => Inv'
  BY TypeWriter, PhaseWriter, TypeRecovery, PhaseRecovery, ControlSteps
     DEF Next, Inv
<1> QED
  BY <1>1, <1>2, PTL DEF Spec

(* The journal, the destinations, the private trees and the retained records *)
(* always hold values the code can write: in particular a terminal record    *)
(* never states an undecided outcome.                                        *)
THEOREM TypeCorrect == Spec => []TypeOK
  BY Invariance, PTL DEF Inv

------------------------------------------------------------------------------
(* Outside the forward phases the writer can only return.                    *)
LEMMA WriterIsForward ==
  Inv /\ WriterStep => \/ journal.phase \in ForwardPhases
                       \/ UNCHANGED << journal, disk >>
<1> SUFFICES ASSUME Inv, WriterStep, ~WriterReturns
             PROVE  journal.phase \in ForwardPhases
  BY DEF WriterReturns
<1>1. journal.phase \in Phases
  BY DEF Inv, TypeOK, JournalType
<1>2. journal.checkpoint \in ForwardCheckpoints
  BY DEF WriterStep, ForwardCheckpoints, Writing, Publishing, ForwardBoundary,
     StageFile, record_staging, begin_staging, begin_backup, CopyBackup,
     record_backup, finish_preparation, begin_publication, StageDirectory,
     RecordDirectoryStage, PublishNew, ExchangeNew, UnlinkDisplaced,
     record_publication, begin_verification, finish_verification, commit
<1> QED
  BY <1>1, <1>2 DEF Inv, PhaseInv, Phases, ForwardPhases, CleanupPhases,
     CleanupCheckpoints, ForwardCheckpoints

(* What recovery may do to a destination: restore what was published before  *)
(* the commit, remove the archive marker after it, and nothing else.         *)
RecoveryEffect(k) ==
  \/ dest'[k] = dest[k]
  \/ ~journal.committed /\ dest[k] = "new" /\ dest'[k] = Restored(k)
  \/ k = "archive_marker" /\ dest[k] = "new" /\ dest'[k] = "absent"

LEMMA RecoveryDestinations ==
  Inv /\ RecoveryStep => \A k \in Keys : RecoveryEffect(k)
<1> SUFFICES ASSUME Inv, RecoveryStep PROVE \A k \in Keys : RecoveryEffect(k)
  OBVIOUS
<1> USE DEF RecoveryEffect
<1>t. dest \in [Keys -> DestStates]
  BY DEF Inv, TypeOK
<1>1. CASE UnlinkMarker
  BY <1>1, <1>t DEF UnlinkMarker
<1>2. ASSUME NEW h \in Keys, RollbackRemove(h) \/ RollbackExchange(h)
      PROVE  \A k \in Keys : RecoveryEffect(k)
  <2>1. ~journal.committed
    BY <1>2 DEF RollbackRemove, RollbackExchange, RollingBack, RollbackPending,
                Inv, PhaseInv
  <2>2. dest[h] = "new" /\ dest' = [dest EXCEPT ![h] = Restored(h)]
    BY <1>2 DEF RollbackRemove, RollbackExchange, Restored
  <2> QED BY <1>t, <2>1, <2>2
<1>3. ASSUME dest' = dest PROVE \A k \in Keys : RecoveryEffect(k)
  BY <1>3
<1> QED
  BY <1>1, <1>2, <1>3 DEF RecoveryStep, RewriteOnly, disk, ReconcilePublication,
     DiscardDirectoryStage, ForgetDirectoryStage, SetRollbackPending,
     RollbackUnlinkDisplaced, record_rollback, BeginRootRestore,
     RestoreArchiveRoot, RecordRootRestored, BeginCompletion, WriteCompletion,
     RecordCompletion, BeginEvidenceClear, EnterFailedCleanup, StartCleanup,
     EmptyStage, EmptyBackup, RemoveRoot, WriteTerminal, record_cleanup,
     NextCleanup, RemoveJournal

(* A decided outcome survives every recovery step.                           *)
LEMMA RecoveryDecision ==
  Inv /\ RecoveryStep =>
     /\ journal.committed => journal'.committed /\ journal'.outcome = "succeeded"
     /\ journal.outcome = "failed-pre-commit"
          => journal'.outcome = "failed-pre-commit"
<1> SUFFICES ASSUME Inv, RecoveryStep
             PROVE  /\ journal.committed =>
                          journal'.committed /\ journal'.outcome = "succeeded"
                    /\ journal.outcome = "failed-pre-commit"
                          => journal'.outcome = "failed-pre-commit"
  OBVIOUS
<1>t. journal \in JournalType
  BY DEF Inv, TypeOK
<1>1. journal.committed => /\ journal.outcome = "succeeded"
                           /\ journal.phase \in CleanupPhases \cup {"committed"}
  BY <1>t DEF Inv, PhaseInv, JournalType, Phases, ForwardPhases, CleanupPhases
<1> DEFINE Kept == /\ journal.committed => journal'.committed
                   /\ journal'.outcome = journal.outcome
           Failed == /\ journal.phase \in ForwardPhases \cup {"rolling-back"}
                     /\ journal'.outcome = "failed-pre-commit"
<1>2. ASSUME NEW k \in Keys, SetRollbackPending(k) \/ record_rollback(k)
      PROVE  Kept \/ Failed
  BY <1>2, <1>t DEF SetRollbackPending, record_rollback, Uncommitable,
                    ForwardPhases, JournalType
<1>3. ASSUME BeginRootRestore \/ BeginCompletion PROVE Failed
  BY <1>3, <1>t DEF BeginRootRestore, BeginCompletion, RollbackFinished,
                    Uncommitable, ForwardPhases, JournalType
<1>4. ASSUME ReconcilePublication \/ ForgetDirectoryStage \/ RecordRootRestored
             \/ RecordCompletion \/ BeginEvidenceClear
      PROVE  Kept
  BY <1>4, <1>t DEF ReconcilePublication, ForgetDirectoryStage,
     RecordRootRestored, RecordCompletion, BeginEvidenceClear, JournalType
<1>5. ASSUME EnterFailedCleanup \/ StartCleanup \/ RemoveJournal PROVE Kept
  BY <1>5, <1>t DEF EnterFailedCleanup, StartCleanup, RemoveJournal, JournalType
<1>6. ASSUME NEW step \in CleanupSteps, record_cleanup(step) PROVE Kept
  BY <1>6, <1>t DEF record_cleanup, JournalType
<1>7. ASSUME NextCleanup PROVE Kept
  BY <1>7, <1>t DEF NextCleanup, JournalType
<1>8. ASSUME journal' = journal PROVE Kept
  BY <1>8
<1>9. Kept \/ Failed
  BY <1>2, <1>3, <1>4, <1>5, <1>6, <1>7, <1>8
     DEF RecoveryStep, DiscardDirectoryStage, RollbackRemove, RollbackExchange,
     RollbackUnlinkDisplaced, RestoreArchiveRoot, WriteCompletion, UnlinkMarker,
     EmptyStage, EmptyBackup, RemoveRoot, WriteTerminal
<1> QED
  BY <1>1, <1>9 DEF ForwardPhases, CleanupPhases

(* A step that is neither the writer's nor the recovery's moves nothing.     *)
LEMMA OtherSteps ==
  [Next]_vars => WriterStep \/ RecoveryStep \/ UNCHANGED << journal, disk >>
  BY DEF Next, StartRecovery, RefuseCleanup, Stop, vars

(* After the commit rewrite, no step of any process, crash or retry leaves   *)
(* a committed journal uncommitted or moves a published object other than    *)
(* the archive marker.                                                       *)
THEOREM CommitIsIrrevocable == Spec => CommitIrrevocable
<1> DEFINE Kept ==
      journal.committed =>
          /\ journal'.committed /\ journal'.outcome = "succeeded"
          /\ \A k \in Keys \ {"archive_marker"} : dest'[k] = dest[k]
<1>1. ASSUME Inv, [Next]_vars, journal.committed PROVE Kept
  <2>1. journal.phase \notin ForwardPhases /\ journal.outcome = "succeeded"
    BY <1>1 DEF Inv, TypeOK, JournalType, PhaseInv, Phases, ForwardPhases,
       CleanupPhases
  <2>2. CASE RecoveryStep
    BY <1>1, <2>2, RecoveryDestinations, RecoveryDecision DEF RecoveryEffect
  <2>3. CASE UNCHANGED << journal, disk >>
    BY <1>1, <2>1, <2>3 DEF disk
  <2> QED BY <1>1, <2>1, <2>2, <2>3, OtherSteps, WriterIsForward
<1>2. Inv /\ [Next]_vars => [Kept]_vars
  BY <1>1
<1> QED
  BY <1>2, Invariance, PTL DEF Spec, CommitIrrevocable

(* A transaction that has begun to roll back never publishes again, and what *)
(* it has restored, or never touched, stays as it is.                        *)
THEOREM RollbackIsOneWay == Spec => RollbackOneWay
<1> DEFINE Kept ==
      journal.outcome = "failed-pre-commit" =>
          /\ journal'.outcome = "failed-pre-commit"
          /\ \A k \in Keys :
                /\ dest'[k] = "new" => dest[k] = "new"
                /\ dest[k] \in {"original", "copy"} => dest'[k] = dest[k]
<1>1. ASSUME Inv, [Next]_vars, journal.outcome = "failed-pre-commit" PROVE Kept
  <2>1. journal.phase \notin ForwardPhases
    BY <1>1 DEF Inv, PhaseInv
  <2>2. CASE RecoveryStep
    <3>1. \A k \in Keys : Restored(k) \in {"copy", "absent"}
      BY DEF Restored
    <3> QED BY <1>1, <2>2, <3>1, RecoveryDestinations, RecoveryDecision
               DEF RecoveryEffect
  <2>3. CASE UNCHANGED << journal, disk >>
    BY <1>1, <2>3 DEF disk
  <2> QED BY <1>1, <2>1, <2>2, <2>3, OtherSteps, WriterIsForward
<1>2. Inv /\ [Next]_vars => [Kept]_vars
  BY <1>1
<1> QED
  BY <1>2, Invariance, PTL DEF Spec, RollbackOneWay
------------------------------------------------------------------------------

------------------------------------------------------------------------------
(* Prefixes of a sequence without repetition.                              *)

LEMMA PrefixStep ==
  ASSUME NEW S, NEW s \in Seq(S), NEW n \in Nat, n < Len(s)
  PROVE  Prefix(s, n + 1) = Prefix(s, n) \cup {s[n + 1]}
<1>1. \A i : i \in 1..(n + 1) <=> i \in 1..n \/ i = n + 1
  OBVIOUS
<1> QED BY <1>1 DEF Prefix

LEMMA PrefixNext ==
  ASSUME NEW S, NEW s \in Seq(S), NEW n \in Nat, n < Len(s), IsInjective(s)
  PROVE  s[n + 1] \in S /\ s[n + 1] \in Range(s) /\ s[n + 1] \notin Prefix(s, n)
<1>1. n + 1 \in DOMAIN s /\ \A i \in 1..n : i \in DOMAIN s /\ i # n + 1
  OBVIOUS
<1> QED BY <1>1 DEF Prefix, IsInjective, Range

LEMMA PrefixWhole ==
  ASSUME NEW S, NEW s \in Seq(S)
  PROVE  Prefix(s, Len(s)) = Range(s)
BY DEF Prefix, Range

LEMMA PrefixSubset ==
  ASSUME NEW S, NEW s \in Seq(S), NEW n \in Nat, n <= Len(s)
  PROVE  Prefix(s, n) \subseteq Range(s)
<1>1. \A i \in 1..n : i \in DOMAIN s
  OBVIOUS
<1> QED BY <1>1 DEF Prefix, Range

LEMMA PrefixEmpty ==
  ASSUME NEW s PROVE Prefix(s, 0) = {}
BY DEF Prefix

------------------------------------------------------------------------------
LEMMA PlanKept == [Next]_vars => plan' = plan
BY DEF Next, vars, WriterStep, StartRecovery, RecoveryStep, RefuseCleanup, Stop,
   RewriteOnly, StageFile, record_staging, begin_staging, begin_backup, CopyBackup,
   record_backup, finish_preparation, begin_publication, StageDirectory,
   RecordDirectoryStage, PublishNew, ExchangeNew, UnlinkDisplaced, record_publication,
   begin_verification, finish_verification, commit, WriterReturns,
   ReconcilePublication, DiscardDirectoryStage, ForgetDirectoryStage, SetRollbackPending,
   RollbackRemove, RollbackExchange, RollbackUnlinkDisplaced, record_rollback,
   BeginRootRestore, RestoreArchiveRoot, RecordRootRestored, BeginCompletion,
   WriteCompletion, RecordCompletion, BeginEvidenceClear, EnterFailedCleanup,
   StartCleanup, UnlinkMarker, EmptyStage, EmptyBackup, RemoveRoot, WriteTerminal,
   record_cleanup, NextCleanup, RemoveJournal

------------------------------------------------------------------------------
(* Progress: what the journal's counts, checkpoints and rolled back keys say *)
(* about each other.                                                       *)

CompletionCheckpoints == {"rollback-completion-pending", "rollback-completion-done",
                          "rollback-evidence-clear-pending"}

ProgressInv ==
  /\ journal.published_count <= Len(plan.publication)
  /\ PublicationPending =>
        /\ journal.published_count < Len(plan.publication)
        /\ journal.mutation = plan.publication[journal.published_count + 1]
  /\ journal.checkpoint \in {"verification-pending", "verification-done"}
     \/ journal.committed
        => journal.published_count = Len(plan.publication)
  /\ journal.phase # "rolling-back" => journal.rolled_back = {}
  /\ journal.rolled_back \subseteq Published
  /\ RollbackPending =>
        journal.mutation \in Published \ journal.rolled_back /\ ~RootRestoreDue
  /\ journal.checkpoint \in CompletionCheckpoints =>
        journal.rolled_back = Published /\ ~RootRestoreDue
  /\ journal.completion_recorded =>
        \/ journal.phase \in CleanupPhases
        \/ journal.checkpoint \in CompletionCheckpoints
  /\ journal.checkpoint = "rollback-evidence-clear-pending"
        => journal.completion_recorded
  /\ journal.phase \in CleanupPhases
        => journal.committed \/ journal.completion_recorded

LEMMA ProgressInit == Init => ProgressInv
<1> SUFFICES ASSUME Init PROVE ProgressInv
  OBVIOUS
<1>1. WellFormed(plan)
  BY PlansAssumption DEF Init
<1>2. Len(plan.publication) \in Nat
  BY <1>1 DEF WellFormed
<1> QED BY <1>2 DEF Init, InitialJournal, ProgressInv, PublicationPending,
           RollbackPending, CompletionCheckpoints, CleanupPhases

(* Steps that leave the journal alone.                                     *)
LEMMA ProgressStutter == ProgressInv /\ UNCHANGED << plan, journal >> => ProgressInv'
BY DEF ProgressInv, PublicationPending, RollbackPending, Published, RootRestoreDue,
       RootRestoreNeeded

LEMMA ProgressWriter == Inv /\ ProgressInv /\ WriterStep => ProgressInv'
<1> SUFFICES ASSUME Inv, ProgressInv, WriterStep PROVE ProgressInv'
  OBVIOUS
<1>t. journal \in JournalType /\ WellFormed(plan)
  BY PlansAssumption DEF Inv, TypeOK
<1>l. Len(plan.publication) \in Nat /\ journal.published_count \in Nat
  BY <1>t DEF WellFormed, JournalType
<1> DEFINE Quiet ==
      /\ plan' = plan
      /\ journal.checkpoint \in ForwardCheckpoints
      /\ journal'.checkpoint \in ForwardCheckpoints \ {"verification-done"}
      /\ journal'.phase \in ForwardPhases
      /\ ~journal'.committed /\ ~journal'.completion_recorded
      /\ journal'.rolled_back = journal.rolled_back
<1>f. journal.checkpoint \in ForwardCheckpoints =>
        /\ journal.phase \in ForwardPhases /\ journal.rolled_back = {}
        /\ ~journal.committed /\ ~journal.completion_recorded
  BY <1>t DEF Inv, PhaseInv, ForwardCheckpoints, ForwardPhases, CleanupPhases,
     CleanupCheckpoints, JournalType, Phases, ProgressInv
<1>1. ASSUME Quiet, journal'.published_count = journal.published_count,
             journal'.checkpoint \notin {"publication-pending", "verification-pending"}
      PROVE  ProgressInv'
  BY <1>1, <1>f, <1>l DEF ProgressInv, PublicationPending, RollbackPending, ForwardPhases,
     CleanupPhases, ForwardCheckpoints, CompletionCheckpoints, Published
<1>2. CASE record_staging \/ begin_staging \/ begin_backup \/ record_backup
           \/ finish_preparation
  <2>1. Quiet /\ journal'.published_count = journal.published_count
        /\ journal'.checkpoint \notin {"publication-pending", "verification-pending"}
    BY ZenonT(60), <1>2, <1>f, <1>t DEF record_staging, begin_staging, begin_backup, record_backup,
       finish_preparation, Writing, RewriteOnly, JournalType, ForwardPhases,
       ForwardCheckpoints
  <2> QED BY <2>1, <1>1
<1>3. CASE begin_publication
  <2>1. /\ Quiet /\ journal'.published_count = journal.published_count
        /\ journal'.checkpoint = "publication-pending"
        /\ journal.published_count < Len(plan.publication)
        /\ journal'.mutation = plan.publication[journal.published_count + 1]
    BY <1>3, <1>f, <1>t DEF begin_publication, Writing, RewriteOnly, JournalType,
       ForwardPhases, ForwardCheckpoints
  <2> QED BY <2>1, <1>f, <1>l DEF ProgressInv, PublicationPending, RollbackPending,
          ForwardPhases, CleanupPhases, CompletionCheckpoints, Published
<1>4. ASSUME NEW k \in Keys, record_publication(k) PROVE ProgressInv'
  <2>1. PublicationPending
    BY <1>4 DEF record_publication, Publishing, Writing, PublicationPending, Inv, PhaseInv
  <2>2. journal.published_count + 1 <= Len(plan.publication)
    BY <2>1, <1>l DEF ProgressInv
  <2>3. /\ Quiet /\ journal'.published_count = journal.published_count + 1
        /\ journal'.checkpoint = "publication-done"
    BY <1>4, <1>f, <1>t DEF record_publication, Publishing, Writing, RewriteOnly,
       JournalType, ForwardPhases, ForwardCheckpoints
  <2> QED BY <2>2, <2>3, <1>f, <1>l DEF ProgressInv, PublicationPending, RollbackPending,
          ForwardPhases, CleanupPhases, CompletionCheckpoints, Published
<1>5. CASE begin_verification
  <2>1. /\ Quiet /\ journal'.published_count = journal.published_count
        /\ journal'.checkpoint = "verification-pending"
        /\ journal.published_count = Len(plan.publication)
    BY <1>5, <1>f, <1>t DEF begin_verification, Writing, RewriteOnly, JournalType,
       ForwardPhases, ForwardCheckpoints
  <2> QED BY <2>1, <1>f, <1>l DEF ProgressInv, PublicationPending, RollbackPending,
          ForwardPhases, CleanupPhases, CompletionCheckpoints, Published
<1>6. CASE finish_verification \/ commit
  <2>1. /\ plan' = plan /\ journal'.published_count = journal.published_count
        /\ journal.published_count = Len(plan.publication)
        /\ journal.checkpoint \in ForwardCheckpoints
        /\ journal'.checkpoint \in {"verification-done", "commit-done"}
        /\ journal'.phase \in ForwardPhases \cup {"committed"}
        /\ journal'.rolled_back = journal.rolled_back
        /\ ~journal'.completion_recorded
    BY ZenonT(60), <1>6, <1>f, <1>t DEF finish_verification, commit, Writing, RewriteOnly,
       JournalType, ForwardPhases, ForwardCheckpoints, ProgressInv
  <2> QED BY <2>1, <1>f, <1>l DEF ProgressInv, PublicationPending, RollbackPending,
          ForwardPhases, CleanupPhases, CompletionCheckpoints, Published
<1>7. ASSUME NEW k \in Keys, RecordDirectoryStage(k) PROVE ProgressInv'
  <2>1. journal' = [journal EXCEPT !.directory_stage = TRUE] /\ plan' = plan
    BY <1>7 DEF RecordDirectoryStage, RewriteOnly
  <2> QED BY <2>1, <1>t DEF ProgressInv, PublicationPending, RollbackPending, Published,
          RootRestoreDue, RootRestoreNeeded, JournalType
<1>8. CASE UNCHANGED << plan, journal >>
  BY <1>8, ProgressStutter
<1> QED
  BY <1>2, <1>3, <1>4, <1>5, <1>6, <1>7, <1>8 DEF WriterStep, StageFile, CopyBackup,
     StageDirectory, PublishNew, ExchangeNew, UnlinkDisplaced, WriterReturns

LEMMA ProgressRecovery == Inv /\ ProgressInv /\ RecoveryStep => ProgressInv'
<1> SUFFICES ASSUME Inv, ProgressInv, RecoveryStep PROVE ProgressInv'
  OBVIOUS
<1>t. journal \in JournalType /\ WellFormed(plan)
  BY PlansAssumption DEF Inv, TypeOK
<1>l. Len(plan.publication) \in Nat /\ journal.published_count \in Nat
  BY <1>t DEF WellFormed, JournalType
<1>u. Uncommitable => /\ journal.phase \in ForwardPhases \cup {"rolling-back"}
                      /\ ~journal.committed
  BY DEF Uncommitable, Inv, PhaseInv, ForwardPhases
<1>f. journal.phase \in ForwardPhases =>
         journal.rolled_back = {} /\ ~journal.completion_recorded
  BY DEF ProgressInv, Inv, PhaseInv, ForwardPhases
<1>r. \/ Published' = Published /\ RootRestoreNeeded' = RootRestoreNeeded
      \/ journal'.published_count # journal.published_count
      \/ plan' # plan
  BY DEF Published, RootRestoreNeeded
<1>1. CASE ReconcilePublication
  <2>1. journal.published_count + 1 <= Len(plan.publication)
    BY <1>1, <1>l DEF ReconcilePublication, PublicationApplied, ProgressInv
  <2>2. /\ plan' = plan /\ journal'.phase = "publishing"
        /\ journal'.checkpoint = "publication-done"
        /\ journal'.published_count = journal.published_count + 1
        /\ journal'.rolled_back = {} /\ ~journal'.completion_recorded
        /\ ~journal'.committed
    BY <1>1, <1>f, <1>t DEF ReconcilePublication, PublicationApplied, PublicationPending,
       RewriteOnly, JournalType, ForwardPhases, Inv, PhaseInv
  <2> QED BY <2>1, <2>2, <1>l DEF ProgressInv, PublicationPending, RollbackPending,
          CleanupPhases, CompletionCheckpoints
<1>2. CASE ForgetDirectoryStage
  <2>1. journal' = [journal EXCEPT !.directory_stage = FALSE] /\ plan' = plan
    BY <1>2 DEF ForgetDirectoryStage, RewriteOnly
  <2> QED BY <2>1, <1>t DEF ProgressInv, PublicationPending, RollbackPending, Published,
          RootRestoreDue, RootRestoreNeeded, JournalType
<1>3. ASSUME NEW k \in Keys, SetRollbackPending(k) PROVE ProgressInv'
  <2>1. /\ plan' = plan /\ journal'.phase = "rolling-back"
        /\ journal'.checkpoint = "rollback-pending" /\ journal'.mutation = k
        /\ journal'.published_count = journal.published_count
        /\ journal'.rolled_back = journal.rolled_back
        /\ journal'.root_restored = journal.root_restored
        /\ journal'.completion_recorded = journal.completion_recorded
        /\ journal'.committed = journal.committed
    BY <1>3, <1>t DEF SetRollbackPending, RewriteOnly, JournalType
  <2>2. k \in Published \ journal.rolled_back /\ ~RootRestoreDue
    BY <1>3 DEF SetRollbackPending, RollbackNext
  <2>3. ~journal.completion_recorded /\ ~journal.committed
    BY <1>3, <1>u, <1>f, <2>2 DEF SetRollbackPending, ProgressInv, CleanupPhases,
       ForwardPhases
  <2> QED BY <2>1, <2>2, <2>3, <1>r DEF ProgressInv, PublicationPending, RollbackPending,
          Published, RootRestoreDue, CleanupPhases, CompletionCheckpoints
<1>4. ASSUME NEW k \in Keys, record_rollback(k) PROVE ProgressInv'
  <2>1. /\ plan' = plan /\ journal'.phase = "rolling-back"
        /\ journal'.checkpoint = "rollback-done"
        /\ journal'.published_count = journal.published_count
        /\ journal'.rolled_back = journal.rolled_back \cup {k}
        /\ journal'.completion_recorded = journal.completion_recorded
        /\ journal'.committed = journal.committed
        /\ k \in Published
        /\ journal.checkpoint = "rollback-pending" /\ journal.phase = "rolling-back"
    BY <1>4, <1>t DEF record_rollback, RollingBack, RollbackPending, RewriteOnly,
       JournalType, ProgressInv
  <2>2. ~journal.completion_recorded /\ ~journal.committed
    BY <2>1 DEF ProgressInv, CleanupPhases, CompletionCheckpoints, Inv, PhaseInv
  <2> QED BY <2>1, <2>2, <1>r DEF ProgressInv, PublicationPending, RollbackPending,
          CleanupPhases, CompletionCheckpoints
<1>5. CASE BeginRootRestore
  <2>1. /\ plan' = plan /\ journal'.phase = "rolling-back"
        /\ journal'.checkpoint = "archive-root-restore-pending"
        /\ journal'.published_count = journal.published_count
        /\ journal'.rolled_back = journal.rolled_back
        /\ journal'.completion_recorded = journal.completion_recorded
        /\ journal'.committed = journal.committed
    BY <1>5, <1>t DEF BeginRootRestore, RewriteOnly, JournalType
  <2>2. ~journal.completion_recorded /\ ~journal.committed
    BY <1>5, <1>u, <1>f DEF BeginRootRestore, ProgressInv, CleanupPhases, ForwardPhases
  <2> QED BY <2>1, <2>2, <1>r DEF ProgressInv, PublicationPending, RollbackPending,
          CleanupPhases, CompletionCheckpoints
<1>6. CASE RecordRootRestored
  <2>1. /\ plan' = plan /\ journal'.phase = "rolling-back"
        /\ journal'.checkpoint = "archive-root-restore-done"
        /\ journal'.published_count = journal.published_count
        /\ journal'.rolled_back = journal.rolled_back
        /\ journal'.completion_recorded = journal.completion_recorded
        /\ journal'.committed = journal.committed
        /\ journal.checkpoint = "archive-root-restore-pending"
        /\ journal.phase = "rolling-back"
    BY <1>6, <1>t DEF RecordRootRestored, At, RewriteOnly, JournalType
  <2>2. ~journal.completion_recorded /\ ~journal.committed
    BY <2>1 DEF ProgressInv, CleanupPhases, CompletionCheckpoints, Inv, PhaseInv
  <2> QED BY <2>1, <2>2, <1>r DEF ProgressInv, PublicationPending, RollbackPending,
          CleanupPhases, CompletionCheckpoints
<1>7. CASE BeginCompletion \/ RecordCompletion \/ BeginEvidenceClear
  <2>1. RollbackFinished
    BY <1>7 DEF BeginCompletion, RecordCompletion, BeginEvidenceClear
  <2>2. /\ journal.rolled_back = Published /\ ~RootRestoreDue
        /\ ~journal.committed
    BY <2>1, <1>u DEF RollbackFinished
  <2>3. CASE BeginCompletion
    <3>1. /\ plan' = plan /\ journal'.phase = "rolling-back"
          /\ journal'.checkpoint = "rollback-completion-pending"
          /\ journal'.published_count = journal.published_count
          /\ journal'.rolled_back = journal.rolled_back
          /\ journal'.root_restored = journal.root_restored
          /\ journal'.committed = journal.committed
      BY <2>3, <1>t DEF BeginCompletion, RewriteOnly, JournalType
    <3> QED BY <3>1, <2>2, <1>r DEF ProgressInv, PublicationPending, RollbackPending,
            RootRestoreDue, CleanupPhases, CompletionCheckpoints
  <2>4. CASE RecordCompletion
    <3>1. journal.phase = "rolling-back"
      BY <2>4, <2>1, <1>u DEF RecordCompletion, RollbackFinished, Inv, PhaseInv
    <3>2. /\ plan' = plan /\ journal'.phase = "rolling-back"
          /\ journal'.checkpoint = "rollback-completion-done"
          /\ journal'.published_count = journal.published_count
          /\ journal'.rolled_back = journal.rolled_back
          /\ journal'.root_restored = journal.root_restored
          /\ journal'.committed = journal.committed
      BY <2>4, <3>1, <1>t DEF RecordCompletion, RewriteOnly, JournalType
    <3> QED BY <3>2, <2>2, <1>r DEF ProgressInv, PublicationPending, RollbackPending,
            RootRestoreDue, CleanupPhases, CompletionCheckpoints
  <2>5. CASE BeginEvidenceClear
    <3>1. journal.phase = "rolling-back"
      BY <2>5, <1>u, <1>f DEF BeginEvidenceClear, RollbackFinished
    <3>2. /\ plan' = plan /\ journal'.phase = "rolling-back"
          /\ journal'.checkpoint = "rollback-evidence-clear-pending"
          /\ journal'.published_count = journal.published_count
          /\ journal'.rolled_back = journal.rolled_back
          /\ journal'.root_restored = journal.root_restored
          /\ journal'.completion_recorded
          /\ journal'.committed = journal.committed
      BY <2>5, <3>1, <1>t DEF BeginEvidenceClear, RewriteOnly, JournalType
    <3> QED BY <3>2, <2>2, <1>r DEF ProgressInv, PublicationPending, RollbackPending,
            RootRestoreDue, CleanupPhases, CompletionCheckpoints
  <2> QED BY <1>7, <2>3, <2>4, <2>5
<1>8. CASE EnterFailedCleanup
  <2>1. /\ plan' = plan /\ journal'.phase = "cleaning-up"
        /\ journal'.checkpoint = "cleanup-pending"
        /\ journal'.published_count = journal.published_count
        /\ journal'.rolled_back = {}
        /\ journal'.completion_recorded = journal.completion_recorded
        /\ journal'.committed = journal.committed
        /\ journal.checkpoint = "rollback-evidence-clear-pending"
        /\ journal.phase = "rolling-back"
    BY <1>8, <1>t DEF EnterFailedCleanup, At, RewriteOnly, JournalType
  <2>2. journal.completion_recorded /\ ~journal.committed
    BY <2>1 DEF ProgressInv, Inv, PhaseInv
  <2> QED BY <2>1, <2>2, <1>r DEF ProgressInv, PublicationPending, RollbackPending,
          CleanupPhases, CompletionCheckpoints
<1> DEFINE Cleaning ==
      /\ plan' = plan /\ journal'.phase \in CleanupPhases
      /\ journal'.checkpoint \in CleanupCheckpoints
      /\ journal'.published_count = journal.published_count
      /\ journal'.rolled_back = {}
      /\ journal'.completion_recorded = journal.completion_recorded
      /\ journal'.committed = journal.committed
      /\ journal.committed \/ journal.completion_recorded
<1>9. ASSUME Cleaning PROVE ProgressInv'
  BY <1>9, <1>r DEF ProgressInv, PublicationPending, RollbackPending,
     CleanupPhases, CleanupCheckpoints, CompletionCheckpoints
<1>10. CASE StartCleanup
  <2>1. Cleaning
    BY <1>10, <1>t DEF StartCleanup, RewriteOnly, JournalType, CleanupPhases,
       CleanupCheckpoints, ProgressInv, Inv, PhaseInv
  <2> QED BY <2>1, <1>9
<1>11. ASSUME NEW step \in CleanupSteps, record_cleanup(step) PROVE ProgressInv'
  <2>1. Cleaning
    BY <1>11, <1>t DEF record_cleanup, CleanupPending, At, RewriteOnly, JournalType,
       CleanupPhases, CleanupCheckpoints, ProgressInv
  <2> QED BY <2>1, <1>9
<1>12. CASE NextCleanup
  <2>1. Cleaning
    BY <1>12, <1>t DEF NextCleanup, At, RewriteOnly, JournalType,
       CleanupPhases, CleanupCheckpoints, ProgressInv
  <2> QED BY <2>1, <1>9
<1>13. CASE RemoveJournal
  <2>1. Cleaning
    BY <1>13, <1>t DEF RemoveJournal, JournalType,
       CleanupPhases, ProgressInv, Inv, PhaseInv
  <2> QED BY <2>1, <1>9
<1>14. CASE UNCHANGED << plan, journal >>
  BY <1>14, ProgressStutter
<1> QED
  BY <1>1, <1>2, <1>3, <1>4, <1>5, <1>6, <1>7, <1>8, <1>10, <1>11, <1>12, <1>13, <1>14
     DEF RecoveryStep, DiscardDirectoryStage, RollbackRemove, RollbackExchange,
     RollbackUnlinkDisplaced, RestoreArchiveRoot, WriteCompletion, UnlinkMarker,
     EmptyStage, EmptyBackup, RemoveRoot, WriteTerminal

------------------------------------------------------------------------------
(* Cleanup: which steps are behind the journal, and what they left behind.   *)

CleanupInv ==
  /\ journal.phase \notin CleanupPhases => journal.removed = {} /\ terminal = "absent"
  /\ journal.phase \in CleanupPhases =>
        /\ journal.step = "archive-marker" \/ "archive-marker" \in journal.removed
              => journal.committed /\ plan.operation = "renew"
        /\ journal.step # "archive-marker" /\ journal.committed /\ plan.operation = "renew"
              => "archive-marker" \in journal.removed
        /\ journal.checkpoint = "cleanup-done" => journal.step \in journal.removed
        /\ journal.step = "backup" => "stage" \in journal.removed
        /\ journal.step = "terminal" => Trees \subseteq journal.removed
        /\ terminal # "absent" =>
              journal.step = "terminal" /\ terminal = journal.outcome
  /\ \A t \in Trees : t \in journal.removed => tree[t] = "gone"

LEMMA CleanupInit == Init => CleanupInv
BY DEF Init, InitialJournal, CleanupInv, CleanupPhases, Trees

LEMMA CleanupWriter == Inv /\ CleanupInv /\ WriterStep => CleanupInv'
<1> SUFFICES ASSUME Inv, CleanupInv, WriterStep PROVE CleanupInv'
  OBVIOUS
<1>t. journal \in JournalType
  BY DEF Inv, TypeOK
<1>1. CASE UNCHANGED << journal, disk >>
  BY <1>1, PlanKept DEF CleanupInv, disk, Next
<1>2. CASE journal.phase \in ForwardPhases
  <2>1. /\ journal'.phase \in ForwardPhases \cup {"committed"}
        /\ journal'.removed = journal.removed
        /\ terminal' = terminal /\ tree' = tree
    BY ZenonT(60), <1>2, <1>t DEF JournalType, Writing, Publishing, ForwardPhases, RewriteOnly, disk,
       ForwardBoundary, WriterStep, StageFile, record_staging, begin_staging, begin_backup,
       CopyBackup, record_backup, finish_preparation, begin_publication, StageDirectory,
       RecordDirectoryStage, PublishNew, ExchangeNew, UnlinkDisplaced,
       record_publication, begin_verification, finish_verification, commit, WriterReturns
  <2> QED BY <1>2, <2>1 DEF CleanupInv, ForwardPhases, CleanupPhases
<1> QED BY <1>1, <1>2, WriterIsForward

LEMMA CleanupRecovery == Inv /\ ProgressInv /\ CleanupInv /\ RecoveryStep => CleanupInv'
<1> SUFFICES ASSUME Inv, ProgressInv, CleanupInv, RecoveryStep PROVE CleanupInv'
  OBVIOUS
<1>t. /\ journal \in JournalType /\ WellFormed(plan)
      /\ tree \in [Trees -> {"whole", "partial", "gone"}]
  BY PlansAssumption DEF Inv, TypeOK
<1>o. journal.phase \in CleanupPhases \cup {"committed"} =>
         journal.outcome = IF journal.committed THEN "succeeded" ELSE "failed-pre-commit"
  BY DEF Inv, PhaseInv
<1> DEFINE Before ==
      /\ plan' = plan /\ terminal' = terminal /\ tree' = tree
      /\ journal.phase \notin CleanupPhases /\ journal'.phase \notin CleanupPhases
      /\ journal'.removed = journal.removed
<1>1. ASSUME Before PROVE CleanupInv'
  BY <1>1 DEF CleanupInv
<1>2. ASSUME \/ ReconcilePublication \/ ForgetDirectoryStage
             \/ \E k \in Keys : SetRollbackPending(k) \/ record_rollback(k)
             \/ BeginRootRestore \/ RecordRootRestored
             \/ BeginCompletion \/ RecordCompletion \/ BeginEvidenceClear
      PROVE  Before
  <2>1. journal.phase \notin CleanupPhases
    BY <1>2 DEF ReconcilePublication, ForgetDirectoryStage, SetRollbackPending,
       record_rollback, BeginRootRestore, RecordRootRestored, BeginCompletion,
       RecordCompletion, BeginEvidenceClear, RollingBack, RollbackPending, RollbackFinished,
       Uncommitable, PublicationApplied, PublicationPending, At, CleanupPhases,
       Inv, PhaseInv
  <2>2. RewriteOnly
    BY <1>2 DEF ReconcilePublication, ForgetDirectoryStage, SetRollbackPending,
       record_rollback, BeginRootRestore, RecordRootRestored, BeginCompletion,
       RecordCompletion, BeginEvidenceClear
  <2>3. /\ journal'.removed = journal.removed
        /\ journal'.phase \in {journal.phase, "rolling-back"}
    BY ZenonT(60), <1>2, <1>t DEF ReconcilePublication, ForgetDirectoryStage, SetRollbackPending,
       record_rollback, BeginRootRestore, RecordRootRestored, BeginCompletion,
       RecordCompletion, BeginEvidenceClear, JournalType
  <2> QED BY <2>1, <2>2, <2>3 DEF RewriteOnly, disk, CleanupPhases
<1>3. ASSUME \/ DiscardDirectoryStage \/ RestoreArchiveRoot \/ WriteCompletion \/ UnlinkMarker
             \/ \E k \in Keys : RollbackRemove(k) \/ RollbackExchange(k)
                                \/ RollbackUnlinkDisplaced(k)
      PROVE  UNCHANGED << plan, journal, terminal, tree >>
  BY <1>3 DEF DiscardDirectoryStage, RestoreArchiveRoot, WriteCompletion, UnlinkMarker,
     RollbackRemove, RollbackExchange, RollbackUnlinkDisplaced
<1>4. ASSUME UNCHANGED << plan, journal, terminal, tree >> PROVE CleanupInv'
  BY <1>4 DEF CleanupInv
<1>5. CASE EnterFailedCleanup
  <2>1. /\ journal.phase = "rolling-back" /\ journal'.step = "stage"
        /\ ~journal'.committed /\ journal'.removed = journal.removed
        /\ journal'.phase = "cleaning-up" /\ journal'.checkpoint = "cleanup-pending"
        /\ UNCHANGED << plan, terminal, tree >>
    BY <1>5, <1>t DEF EnterFailedCleanup, At, JournalType, RewriteOnly, disk, Inv, PhaseInv
  <2> QED BY <2>1 DEF CleanupInv, CleanupPhases
<1>6. CASE StartCleanup
  <2>1. /\ journal.phase = "committed" /\ journal'.step = CleanupOrder[1]
        /\ journal'.committed = journal.committed /\ journal'.removed = journal.removed
        /\ journal'.phase = "cleaning-up" /\ journal'.checkpoint = "cleanup-pending"
        /\ UNCHANGED << plan, terminal, tree >>
    BY <1>6, <1>t DEF StartCleanup, JournalType, RewriteOnly, disk
  <2>2. journal.committed /\ journal.outcome = "succeeded"
    BY <2>1 DEF Inv, PhaseInv
  <2>3. CleanupOrder[1] = IF plan.operation = "renew" THEN "archive-marker" ELSE "stage"
    BY <2>2 DEF CleanupOrder
  <2> QED BY <2>1, <2>2, <2>3 DEF CleanupInv, CleanupPhases
<1>7. CASE EmptyStage \/ EmptyBackup
  <2>1. PICK t \in Trees : /\ tree[t] = "whole" /\ tree' = [tree EXCEPT ![t] = "partial"]
                           /\ UNCHANGED << plan, journal, terminal >>
    BY <1>7 DEF EmptyStage, EmptyBackup, TreeExact, Trees
  <2> QED BY <2>1, <1>t DEF CleanupInv
<1>8. ASSUME NEW t \in Trees, RemoveRoot(t) PROVE CleanupInv'
  BY <1>8, <1>t DEF RemoveRoot, CleanupInv
<1>9. CASE WriteTerminal
  <2>1. /\ journal.step = "terminal" /\ terminal' = journal.outcome
        /\ journal.phase \in CleanupPhases /\ UNCHANGED << plan, journal, tree >>
    BY <1>9 DEF WriteTerminal, CleanupPending, At, CleanupPhases
  <2> QED BY <2>1 DEF CleanupInv
<1>10. ASSUME NEW step \in CleanupSteps, record_cleanup(step) PROVE CleanupInv'
  <2>1. /\ journal.step = step /\ journal'.step = step
        /\ journal.phase = "cleaning-up" /\ journal'.phase = "cleaning-up"
        /\ journal'.checkpoint = "cleanup-done"
        /\ journal'.removed = journal.removed \cup {step}
        /\ journal'.committed = journal.committed /\ journal'.outcome = journal.outcome
        /\ UNCHANGED << plan, terminal, tree >>
    BY <1>10, <1>t DEF record_cleanup, CleanupPending, At, JournalType, RewriteOnly, disk
  <2>2. step \in Trees => tree[step] = "gone"
    BY <1>10 DEF record_cleanup, CleanupApplied, Trees
  <2> QED BY <2>1, <2>2 DEF CleanupInv, CleanupPhases
<1>11. CASE NextCleanup
  <2>1. PICK i \in DOMAIN CleanupOrder :
           /\ journal.step = CleanupOrder[i]
           /\ journal' = IF i = Len(CleanupOrder)
                         THEN [journal EXCEPT !.phase = "terminal",
                                              !.checkpoint = "journal-cleanup-pending"]
                         ELSE [journal EXCEPT !.checkpoint = "cleanup-pending",
                                              !.step = CleanupOrder[i + 1]]
    BY <1>11 DEF NextCleanup
  <2>2. /\ journal.phase = "cleaning-up" /\ journal.checkpoint = "cleanup-done"
        /\ UNCHANGED << plan, terminal, tree >>
    BY <1>11 DEF NextCleanup, At, RewriteOnly, disk
  <2>3. /\ journal'.removed = journal.removed /\ journal'.committed = journal.committed
        /\ journal'.outcome = journal.outcome
        /\ journal'.phase \in CleanupPhases /\ journal'.checkpoint # "cleanup-done"
    BY <2>1, <2>2, <1>t DEF JournalType, CleanupPhases
  <2>4. \/ journal'.step = journal.step
        \/ journal.step = "archive-marker" /\ journal'.step = "stage"
        \/ journal.step = "stage" /\ journal'.step = "backup"
        \/ journal.step = "backup" /\ journal'.step = "terminal"
    <3>1. CASE i = Len(CleanupOrder)
      BY <2>1, <3>1, <1>t DEF JournalType
    <3>2. CASE i # Len(CleanupOrder)
      <4>1. journal'.step = CleanupOrder[i + 1]
        BY <2>1, <3>2, <1>t DEF JournalType
      <4>2. CASE CleanupOrder = << "archive-marker", "stage", "backup", "terminal" >>
        BY <2>1, <3>2, <4>1, <4>2
      <4>3. CASE CleanupOrder = << "stage", "backup", "terminal" >>
        BY <2>1, <3>2, <4>1, <4>3
      <4> QED BY <4>2, <4>3 DEF CleanupOrder
    <3> QED BY <3>1, <3>2
  <2>5. journal.step \in journal.removed
    BY <2>2 DEF CleanupInv, CleanupPhases
  <2>6. terminal # "absent" => journal'.step = journal.step
    BY <2>2, <2>4 DEF CleanupInv, CleanupPhases
  <2> QED BY <2>2, <2>3, <2>4, <2>5, <2>6 DEF CleanupInv, CleanupPhases, Trees
<1>12. CASE RemoveJournal
  <2>1. /\ journal' = [journal EXCEPT !.phase = "removed"] /\ journal.phase = "terminal"
        /\ UNCHANGED << plan, terminal, tree >>
    BY <1>12 DEF RemoveJournal, disk
  <2> QED BY <2>1, <1>t DEF CleanupInv, CleanupPhases, JournalType
<1> QED
  BY <1>1, <1>2, <1>3, <1>4, <1>5, <1>6, <1>7, <1>8, <1>9, <1>10, <1>11, <1>12
     DEF RecoveryStep

------------------------------------------------------------------------------
(* Destinations: each holds what the journal's evidence says, except the one *)
(* whose mutation the journal announces and that has already happened.       *)

Expected(k) ==
  IF k = "archive_marker" /\ "archive-marker" \in journal.removed THEN "absent"
  ELSE IF journal.committed THEN "new"
  ELSE IF k \in journal.rolled_back
          \/ (journal.phase \in CleanupPhases /\ k \in Published) THEN Restored(k)
  ELSE IF k \in Published THEN "new"
  ELSE Original(k)

DestInv ==
  \A k \in Planned :
     \/ dest[k] = Expected(k)
     \/ PublicationPending /\ k = journal.mutation /\ dest[k] = "new"
     \/ RollbackPending /\ k = journal.mutation /\ dest[k] = Restored(k)
     \/ /\ CleanupPending("archive-marker")
        /\ k = "archive_marker" /\ dest[k] = "absent"

NoWindow ==
  ~PublicationApplied /\ ~RollbackPending /\ ~CleanupPending("archive-marker")

LEMMA PlannedKeys == TypeOK => WellFormed(plan) /\ Planned \subseteq Keys
<1> SUFFICES ASSUME TypeOK PROVE WellFormed(plan) /\ Planned \subseteq Keys
  OBVIOUS
<1>1. WellFormed(plan)
  BY PlansAssumption DEF TypeOK
<1>2. plan.publication \in Seq(Keys)
  BY <1>1 DEF WellFormed
<1> QED BY <1>1, <1>2 DEF Planned, Range

LEMMA ExpectedKept ==
  ASSUME plan' = plan, journal'.published_count = journal.published_count,
         journal'.removed = journal.removed, journal'.committed = journal.committed,
         journal'.rolled_back = journal.rolled_back,
         (journal'.phase \in CleanupPhases) <=> (journal.phase \in CleanupPhases)
  PROVE  \A k : Expected(k)' = Expected(k)
BY DEF Expected, Published, Restored, Original

LEMMA DestQuiet ==
  ASSUME DestInv, NoWindow, dest' = dest, plan' = plan,
         \A k \in Planned : Expected(k)' = Expected(k)
  PROVE  DestInv'
BY DEF DestInv, NoWindow, PublicationApplied, Planned

LEMMA DestInit == Init => DestInv
<1> SUFFICES ASSUME Init PROVE DestInv
  OBVIOUS
<1>1. Published = {} /\ Planned \subseteq Keys
  BY PlannedKeys, TypeInit, PrefixEmpty DEF Published, Init, InitialJournal
<1> QED BY <1>1 DEF Init, InitialJournal, DestInv, Expected, CleanupPhases

(* A publication that has reached the disk is recorded.                      *)
LEMMA DestPublished ==
  ASSUME Inv, ProgressInv, CleanupInv, DestInv, PublicationApplied, plan' = plan, dest' = dest,
         journal' = [journal EXCEPT !.published_count = @ + 1,
                                    !.checkpoint = "publication-done",
                                    !.directory_stage = FALSE]
  PROVE  DestInv'
<1>t. journal \in JournalType /\ WellFormed(plan)
  BY PlansAssumption DEF Inv, TypeOK
<1>1. /\ journal'.published_count = journal.published_count + 1
      /\ journal'.phase = "publishing" /\ journal.phase = "publishing"
      /\ journal'.rolled_back = {} /\ journal.rolled_back = {}
      /\ ~journal'.committed /\ ~journal.committed
      /\ journal'.removed = journal.removed
      /\ journal.mutation = plan.publication[journal.published_count + 1]
      /\ journal.published_count < Len(plan.publication)
      /\ journal.checkpoint = "publication-pending"
  BY <1>t DEF PublicationApplied, PublicationPending, JournalType, Inv, PhaseInv,
     ProgressInv, ForwardPhases
<1>2. Published' = Published \cup {journal.mutation}
  BY <1>1, <1>t, PrefixStep DEF Published, WellFormed, JournalType
<1>3. dest[journal.mutation] = "new"
  BY DEF PublicationApplied
<1>4. ASSUME NEW k \in Planned, k # journal.mutation
      PROVE  dest[k] = Expected(k)'
  <2>1. dest[k] = Expected(k)
    BY <1>1, <1>4 DEF DestInv, CleanupPending, At, RollbackPending
  <2> QED BY <2>1, <1>1, <1>2, <1>4 DEF Expected, CleanupPhases, Original
<1>5. journal.mutation = "archive_marker" => "archive-marker" \notin journal'.removed
  BY <1>1 DEF CleanupInv, CleanupPhases
<1> QED BY <1>1, <1>2, <1>3, <1>4, <1>5 DEF DestInv, Expected, CleanupPhases, Planned

LEMMA DestWriter == Inv /\ ProgressInv /\ CleanupInv /\ DestInv /\ WriterStep => DestInv'
<1> SUFFICES ASSUME Inv, ProgressInv, CleanupInv, DestInv, WriterStep PROVE DestInv'
  OBVIOUS
<1>t. /\ journal \in JournalType /\ WellFormed(plan)
      /\ dest \in [Keys -> DestStates] /\ plan' = plan
  BY PlansAssumption, PlanKept DEF Inv, TypeOK, Next
<1>1. CASE UNCHANGED << journal, disk >>
  BY <1>1, <1>t DEF DestInv, disk, Expected, PublicationPending, RollbackPending,
     CleanupPending, At, Planned, Published, Restored, Original
<1>f. CASE journal.phase \in ForwardPhases
  <2>c. journal.checkpoint \in ForwardCheckpoints
    BY <1>f DEF Inv, PhaseInv
  <2>w. ~RollbackPending /\ ~CleanupPending("archive-marker")
    BY <1>f DEF RollbackPending, CleanupPending, At, ForwardPhases
  <2>1. CASE begin_staging \/ record_staging \/ begin_backup \/ record_backup
             \/ finish_preparation \/ begin_publication
             \/ begin_verification \/ finish_verification
    <3>1. /\ journal'.published_count = journal.published_count
          /\ journal'.removed = journal.removed /\ journal'.committed = journal.committed
          /\ journal'.rolled_back = journal.rolled_back
          /\ journal'.phase \in ForwardPhases
      BY ZenonT(60), <2>1, <1>f, <1>t DEF begin_staging, record_staging, begin_backup, record_backup,
         finish_preparation, begin_publication, begin_verification, finish_verification,
         JournalType, ForwardPhases
    <3>2. dest' = dest /\ ~PublicationPending
      BY <2>1 DEF begin_staging, record_staging, begin_backup, record_backup,
         finish_preparation, begin_publication, begin_verification, finish_verification,
         RewriteOnly, disk, PublicationPending, Writing
    <3>3. NoWindow
      BY <2>w, <3>2 DEF NoWindow, PublicationApplied
    <3> QED BY <1>t, <1>f, <3>1, <3>2, <3>3, ExpectedKept, DestQuiet
            DEF ForwardPhases, CleanupPhases
  <2>2. CASE commit
    <3>1. /\ journal.published_count = Len(plan.publication)
          /\ journal.rolled_back = {} /\ ~journal.committed /\ journal.removed = {}
          /\ ~PublicationPending /\ dest' = dest
      BY <2>2, <1>f DEF commit, Writing, ProgressInv, CleanupInv, Inv, PhaseInv,
         PublicationPending, RewriteOnly, disk, ForwardPhases, CleanupPhases
    <3>2. Published = Planned
      BY <1>t, <3>1, PrefixWhole DEF Published, Planned, WellFormed
    <3>3. \A k \in Planned : dest[k] = "new"
      BY <1>f, <2>w, <3>1, <3>2 DEF DestInv, Expected, ForwardPhases, CleanupPhases
    <3>4. journal'.committed /\ journal'.removed = {}
      BY <2>2, <3>1, <1>t DEF commit, JournalType
    <3> QED BY <1>t, <3>1, <3>3, <3>4 DEF DestInv, Expected, Planned
  <2>3. ASSUME NEW k \in Keys, RecordDirectoryStage(k) PROVE DestInv'
    <3>1. journal' = [journal EXCEPT !.directory_stage = TRUE] /\ dest' = dest
      BY <2>3 DEF RecordDirectoryStage, RewriteOnly, disk
    <3> QED BY <3>1, <1>t DEF DestInv, Expected, PublicationPending, RollbackPending,
            CleanupPending, At, Planned, Published, Restored, Original, JournalType
  <2>4. ASSUME NEW k \in Keys, PublishNew(k) \/ ExchangeNew(k) PROVE DestInv'
    <3>1. /\ dest' = [dest EXCEPT ![k] = "new"] /\ journal' = journal
          /\ journal.checkpoint = "publication-pending" /\ journal.mutation = k
      BY <2>4 DEF PublishNew, ExchangeNew, ForwardBoundary, Publishing, Writing
    <3>2. PublicationPending
      BY <3>1 DEF PublicationPending, Inv, PhaseInv
    <3> QED BY <3>1, <3>2, <1>t, <2>w DEF DestInv, Expected, PublicationPending, Planned,
            Published, Original, Restored
  <2>5. ASSUME NEW k \in Keys, record_publication(k) PROVE DestInv'
    <3>1. PublicationApplied
      BY <2>5 DEF record_publication, Publishing, Writing, PublicationApplied,
         PublicationPending, Inv, PhaseInv
    <3> QED BY <2>5, <3>1, <1>t, DestPublished DEF record_publication, RewriteOnly, disk
  <2>6. CASE UNCHANGED << journal, dest >>
    BY <2>6, <1>t DEF DestInv, Expected, PublicationPending, RollbackPending,
       CleanupPending, At, Planned, Published, Restored, Original
  <2> QED BY <2>1, <2>2, <2>3, <2>4, <2>5, <2>6 DEF WriterStep, StageFile, CopyBackup,
          StageDirectory, UnlinkDisplaced, WriterReturns, disk
<1> QED BY <1>1, <1>f, WriterIsForward

LEMMA DestRecovery ==
  Inv /\ ProgressInv /\ CleanupInv /\ DestInv /\ RecoveryStep => DestInv'
<1> SUFFICES ASSUME Inv, ProgressInv, CleanupInv, DestInv, RecoveryStep PROVE DestInv'
  OBVIOUS
<1>t. /\ journal \in JournalType /\ WellFormed(plan) /\ Planned \subseteq Keys
      /\ dest \in [Keys -> DestStates] /\ plan' = plan
  BY PlannedKeys, PlanKept DEF Inv, TypeOK, Next
<1>1. CASE ReconcilePublication
  BY <1>1, <1>t, DestPublished DEF ReconcilePublication, RewriteOnly, disk
<1>2. CASE ForgetDirectoryStage
  <2>1. journal' = [journal EXCEPT !.directory_stage = FALSE] /\ dest' = dest
    BY <1>2 DEF ForgetDirectoryStage, RewriteOnly, disk
  <2> QED BY <2>1, <1>t DEF DestInv, Expected, PublicationPending, RollbackPending,
          CleanupPending, At, Planned, Published, Restored, Original, JournalType
<1> DEFINE Quiet ==
      /\ NoWindow /\ dest' = dest
      /\ journal'.published_count = journal.published_count
      /\ journal'.removed = journal.removed /\ journal'.committed = journal.committed
      /\ journal'.rolled_back = journal.rolled_back
      /\ (journal'.phase \in CleanupPhases) <=> (journal.phase \in CleanupPhases)
<1>3. ASSUME Quiet PROVE DestInv'
  BY <1>3, <1>t, ExpectedKept, DestQuiet
<1>u. Uncommitable => /\ journal.phase \notin CleanupPhases /\ ~PublicationApplied
                      /\ ~CleanupPending("archive-marker")
  BY DEF Uncommitable, CleanupPhases, CleanupPending, At
<1>4. ASSUME \/ \E k \in Keys : SetRollbackPending(k)
             \/ BeginRootRestore \/ BeginCompletion \/ RecordCompletion \/ BeginEvidenceClear
      PROVE  Quiet
  <2>1. Uncommitable /\ dest' = dest
    BY <1>4 DEF SetRollbackPending, BeginRootRestore, BeginCompletion, RecordCompletion,
       BeginEvidenceClear, RollbackFinished, RewriteOnly, disk
  <2>2. ~RollbackPending
    BY <1>4 DEF SetRollbackPending, BeginRootRestore, BeginCompletion, RecordCompletion,
       BeginEvidenceClear, RollbackFinished, ProgressInv
  <2>3. /\ journal'.published_count = journal.published_count
        /\ journal'.removed = journal.removed /\ journal'.committed = journal.committed
        /\ journal'.rolled_back = journal.rolled_back
        /\ journal'.phase \in {journal.phase, "rolling-back"}
    BY <1>4, <1>t DEF SetRollbackPending, BeginRootRestore, BeginCompletion,
       RecordCompletion, BeginEvidenceClear, JournalType
  <2> QED BY <1>u, <2>1, <2>2, <2>3 DEF NoWindow, CleanupPhases
<1>5. ASSUME RecordRootRestored PROVE Quiet
  BY <1>5, <1>t DEF RecordRootRestored, At, RewriteOnly, disk, JournalType, NoWindow,
     PublicationApplied, PublicationPending, RollbackPending, CleanupPending, CleanupPhases
<1>6. ASSUME NEW k \in Keys, RollbackRemove(k) \/ RollbackExchange(k) PROVE DestInv'
  <2>1. /\ dest' = [dest EXCEPT ![k] = Restored(k)] /\ journal' = journal
        /\ RollbackPending /\ journal.mutation = k
    BY <1>6 DEF RollbackRemove, RollbackExchange, RollingBack, Restored
  <2>2. ~PublicationPending /\ ~CleanupPending("archive-marker")
    BY <2>1 DEF RollbackPending, PublicationPending, CleanupPending, At
  <2> QED BY <2>1, <2>2, <1>t DEF DestInv, Expected, RollbackPending, Planned,
          Published, Original, Restored
<1>7. ASSUME NEW k \in Keys, record_rollback(k) PROVE DestInv'
  <2>1. /\ journal.phase = "rolling-back" /\ journal'.phase = "rolling-back"
        /\ RollbackPending /\ journal.mutation = k
        /\ journal'.checkpoint = "rollback-done"
        /\ journal'.published_count = journal.published_count
        /\ journal'.removed = journal.removed /\ journal'.committed = journal.committed
        /\ journal'.rolled_back = journal.rolled_back \cup {k}
        /\ dest' = dest /\ dest[k] = Restored(k)
    BY <1>7, <1>t DEF record_rollback, RollingBack, RollbackPending, RewriteOnly, disk,
       JournalType
  <2>2. ~journal.committed /\ journal.removed = {}
    BY <2>1 DEF Inv, PhaseInv, CleanupInv, CleanupPhases
  <2>3. ~PublicationPending /\ ~CleanupPending("archive-marker")
    BY <2>1 DEF PublicationPending, CleanupPending, At
  <2>4. Published' = Published /\ Planned' = Planned
    BY <2>1, <1>t DEF Published, Planned
  <2>5. \A h \in Planned : Restored(h)' = Restored(h) /\ Original(h)' = Original(h)
    BY <1>t DEF Restored, Original
  <2>6. ASSUME NEW h \in Planned PROVE dest[h] = Expected(h)'
    <3>1. CASE h = k
      <4>1. Expected(h)' = Restored(h)
        BY <2>1, <2>2, <3>1, <1>t DEF Expected, Restored
      <4> QED BY <2>1, <3>1, <4>1
    <3>2. CASE h # k
      <4>1. dest[h] = Expected(h)
        BY <2>1, <2>3, <3>2 DEF DestInv
      <4> QED BY <2>1, <2>2, <2>4, <2>5, <3>2, <4>1 DEF Expected, CleanupPhases
    <3> QED BY <3>1, <3>2
  <2> QED BY <2>1, <2>4, <2>6 DEF DestInv
<1>8. CASE EnterFailedCleanup
  <2>1. /\ journal.phase = "rolling-back" /\ journal'.phase = "cleaning-up"
        /\ journal.checkpoint = "rollback-evidence-clear-pending"
        /\ journal'.published_count = journal.published_count
        /\ journal'.removed = journal.removed /\ journal'.committed = journal.committed
        /\ journal'.rolled_back = {} /\ dest' = dest
    BY <1>8, <1>t DEF EnterFailedCleanup, At, RewriteOnly, disk, JournalType
  <2>2. /\ ~journal.committed /\ journal.removed = {}
        /\ journal.rolled_back = Published
    BY <2>1 DEF Inv, PhaseInv, CleanupInv, CleanupPhases, ProgressInv,
       CompletionCheckpoints
  <2>3. NoWindow
    BY <2>1 DEF NoWindow, PublicationApplied, PublicationPending, RollbackPending,
       CleanupPending, At
  <2>4. Published' = Published
    BY <2>1, <1>t DEF Published
  <2>5. \A k \in Planned : Expected(k)' = Expected(k)
    BY <2>1, <2>2, <2>4, <1>t DEF Expected, CleanupPhases, Restored, Original
  <2> QED BY <2>1, <2>3, <2>5, <1>t, DestQuiet
<1>9. CASE StartCleanup
  <2>1. /\ journal.phase = "committed" /\ journal'.phase = "cleaning-up"
        /\ journal'.removed = journal.removed /\ journal'.committed = journal.committed
        /\ dest' = dest
    BY <1>9, <1>t DEF StartCleanup, RewriteOnly, disk, JournalType
  <2>2. journal.committed /\ NoWindow
    BY <2>1 DEF Inv, PhaseInv, NoWindow, PublicationApplied, PublicationPending,
       RollbackPending, CleanupPending, At
  <2>3. \A k \in Planned : Expected(k)' = Expected(k)
    BY <2>1, <2>2 DEF Expected
  <2> QED BY <2>1, <2>2, <2>3, <1>t, DestQuiet
<1>10. CASE UnlinkMarker
  <2>1. /\ CleanupPending("archive-marker") /\ journal' = journal
        /\ dest' = [dest EXCEPT !["archive_marker"] = "absent"]
    BY <1>10 DEF UnlinkMarker
  <2>2. ~PublicationPending /\ ~RollbackPending
    BY <2>1 DEF PublicationPending, RollbackPending, CleanupPending, At
  <2> QED BY <2>1, <2>2, <1>t DEF DestInv, Expected, CleanupPending, At, Planned,
          Published, Original, Restored
<1>11. ASSUME NEW step \in CleanupSteps, record_cleanup(step) PROVE DestInv'
  <2>1. /\ journal.phase = "cleaning-up" /\ journal'.phase = "cleaning-up"
        /\ journal.checkpoint = "cleanup-pending" /\ journal.step = step
        /\ journal'.checkpoint = "cleanup-done"
        /\ journal'.published_count = journal.published_count
        /\ journal'.removed = journal.removed \cup {step}
        /\ journal'.committed = journal.committed
        /\ journal'.rolled_back = journal.rolled_back
        /\ dest' = dest /\ CleanupApplied(step)
    BY <1>11, <1>t DEF record_cleanup, CleanupPending, At, RewriteOnly, disk, JournalType
  <2>2. ~PublicationPending /\ ~RollbackPending
    BY <2>1 DEF PublicationPending, RollbackPending
  <2>3. CASE step = "archive-marker"
    <3>1. dest["archive_marker"] = "absent"
      BY <2>1, <2>3 DEF CleanupApplied, Trees
    <3> QED BY <2>1, <2>2, <2>3, <3>1, <1>t DEF DestInv, Expected, CleanupPhases, Planned,
            Published, Original, Restored
  <2>4. CASE step # "archive-marker"
    <3>1. NoWindow
      BY <2>1, <2>2, <2>4 DEF NoWindow, PublicationApplied, CleanupPending
    <3>2. \A k \in Planned : Expected(k)' = Expected(k)
      BY <2>1, <2>4, <1>t DEF Expected, Published, Original, Restored
    <3> QED BY <2>1, <3>1, <3>2, <1>t, DestQuiet
  <2> QED BY <2>3, <2>4
<1>12. ASSUME NextCleanup \/ RemoveJournal PROVE Quiet
  <2>1. CASE NextCleanup
    BY <2>1, <1>t DEF NextCleanup, At, RewriteOnly, disk, JournalType, NoWindow,
       PublicationApplied, PublicationPending, RollbackPending, CleanupPending, CleanupPhases
  <2>2. CASE RemoveJournal
    BY <2>2, <1>t DEF RemoveJournal, At, disk, JournalType, NoWindow,
       PublicationApplied, PublicationPending, RollbackPending, CleanupPending, CleanupPhases
  <2> QED BY <1>12, <2>1, <2>2
<1>13. CASE UNCHANGED << journal, dest >>
  BY <1>13, <1>t DEF DestInv, Expected, PublicationPending, RollbackPending,
     CleanupPending, At, Planned, Published, Restored, Original
<1> QED
  BY <1>1, <1>2, <1>3, <1>4, <1>5, <1>6, <1>7, <1>8, <1>9, <1>10, <1>11, <1>12, <1>13
     DEF RecoveryStep, DiscardDirectoryStage, RollbackUnlinkDisplaced,
     RestoreArchiveRoot, WriteCompletion, EmptyStage, EmptyBackup, RemoveRoot, WriteTerminal

------------------------------------------------------------------------------
(* Backups: every backed up object exists as a private copy until that copy  *)
(* is back at its destination, and nothing is published before all are made. *)

PreparedCheckpoints ==
  {"planned", "publication-pending", "publication-done",
   "verification-pending", "verification-done"}

RetainInv ==
  /\ journal.backed_up_count <= Len(plan.backups)
  /\ journal.checkpoint = "backup-pending" =>
        /\ journal.backed_up_count < Len(plan.backups)
        /\ journal.mutation = plan.backups[journal.backed_up_count + 1]
  /\ journal.published_count > 0 \/ journal.checkpoint \in PreparedCheckpoints
        => journal.backed_up_count = Len(plan.backups)
  /\ journal.phase \notin CleanupPhases =>
        \A k \in BackedUp : backup[k] = "copy" \/ dest[k] = "copy"

LEMMA RetainInit == Init => RetainInv
<1> SUFFICES ASSUME Init PROVE RetainInv
  OBVIOUS
<1>1. WellFormed(plan) /\ BackedUp = {}
  BY PlannedKeys, TypeInit, PrefixEmpty DEF BackedUp, Init, InitialJournal
<1>2. Len(plan.backups) \in Nat
  BY <1>1 DEF WellFormed
<1> QED BY <1>1, <1>2 DEF Init, InitialJournal, RetainInv, PreparedCheckpoints

LEMMA RetainWriter == Inv /\ ProgressInv /\ RetainInv /\ WriterStep => RetainInv'
<1> SUFFICES ASSUME Inv, ProgressInv, RetainInv, WriterStep PROVE RetainInv'
  OBVIOUS
<1>t. /\ journal \in JournalType /\ WellFormed(plan) /\ plan' = plan
      /\ dest \in [Keys -> DestStates] /\ backup \in [Keys -> BackupStates]
  BY PlansAssumption, PlanKept DEF Inv, TypeOK, Next
<1>l. /\ Len(plan.backups) \in Nat /\ journal.backed_up_count \in Nat
      /\ journal.published_count \in Nat
  BY <1>t DEF WellFormed, JournalType
<1>b. BackedUp \subseteq Keys
  BY <1>t, <1>l, PrefixSubset DEF BackedUp, WellFormed, Range, RetainInv
<1>f. journal.checkpoint \in ForwardCheckpoints => journal.phase \in ForwardPhases
  BY <1>t DEF Inv, PhaseInv, ForwardCheckpoints, ForwardPhases, CleanupPhases,
     CleanupCheckpoints, JournalType, Phases
<1> DEFINE Quiet ==
      /\ backup' = backup /\ dest' = dest
      /\ journal'.backed_up_count = journal.backed_up_count
      /\ journal.phase \notin CleanupPhases
<1>1. ASSUME Quiet
      PROVE  journal'.phase \notin CleanupPhases =>
                \A k \in BackedUp' : backup'[k] = "copy" \/ dest'[k] = "copy"
  BY <1>1, <1>t DEF RetainInv, BackedUp
<1>2. CASE begin_staging \/ record_staging \/ finish_preparation \/ begin_publication
           \/ begin_verification \/ finish_verification \/ commit
  <2>1. Quiet
    BY <1>2, <1>f, <1>t DEF begin_staging, record_staging, finish_preparation,
       begin_publication, begin_verification, finish_verification, commit, Writing,
       RewriteOnly, disk, JournalType, ForwardCheckpoints, ForwardPhases, CleanupPhases
  <2>2. /\ journal'.published_count = journal.published_count
        /\ journal'.checkpoint # "backup-pending"
        /\ journal'.checkpoint \in PreparedCheckpoints =>
              \/ journal.checkpoint \in PreparedCheckpoints
              \/ journal.backed_up_count = Len(plan.backups)
    BY <1>2, <1>t DEF begin_staging, record_staging, finish_preparation,
       begin_publication, begin_verification, finish_verification, commit, Writing,
       JournalType, PreparedCheckpoints, Prepared
  <2> QED BY <2>1, <2>2, <1>1, <1>t DEF RetainInv
<1>3. CASE begin_backup
  <2>1. /\ Quiet /\ journal'.published_count = journal.published_count
        /\ journal.backed_up_count < Len(plan.backups)
        /\ journal'.mutation = plan.backups[journal.backed_up_count + 1]
        /\ journal'.checkpoint = "backup-pending"
    BY <1>3, <1>f, <1>t DEF begin_backup, Writing, RewriteOnly, disk, JournalType,
       ForwardCheckpoints, ForwardPhases, CleanupPhases
  <2> QED BY <2>1, <1>1, <1>t, <1>l DEF RetainInv, PreparedCheckpoints
<1>4. CASE record_backup
  <2>1. /\ backup' = backup /\ dest' = dest
        /\ journal'.published_count = journal.published_count
        /\ journal'.backed_up_count = journal.backed_up_count + 1
        /\ journal'.phase = journal.phase /\ journal.phase \notin CleanupPhases
        /\ journal'.checkpoint = "backup-done"
        /\ backup[journal.mutation] = "copy"
        /\ journal.checkpoint = "backup-pending"
    BY <1>4, <1>f, <1>t DEF record_backup, Writing, RewriteOnly, disk, JournalType,
       ForwardCheckpoints, ForwardPhases, CleanupPhases
  <2>2. BackedUp' = BackedUp \cup {journal.mutation}
    <3>1. plan.backups \in Seq(Keys)
      BY <1>t DEF WellFormed
    <3>2. /\ journal.backed_up_count < Len(plan.backups)
          /\ journal.mutation = plan.backups[journal.backed_up_count + 1]
      BY <2>1 DEF RetainInv
    <3>3. Prefix(plan.backups, journal.backed_up_count + 1)
          = BackedUp \cup {journal.mutation}
      BY <3>1, <3>2, <1>l, PrefixStep DEF BackedUp
    <3> QED BY <2>1, <3>3, <1>t DEF BackedUp
  <2>3. /\ journal'.backed_up_count <= Len(plan.backups)
        /\ ~(journal.published_count > 0)
    BY <2>1, <1>l DEF RetainInv
  <2> QED BY <2>1, <2>2, <2>3, <1>t DEF RetainInv, PreparedCheckpoints
<1>5. CASE CopyBackup
  <2>1. backup' = [backup EXCEPT ![journal.mutation] = "copy"] /\ dest' = dest
        /\ journal' = journal
    BY <1>5 DEF CopyBackup
  <2> QED BY <2>1, <1>t, <1>b DEF RetainInv, BackedUp
<1>6. ASSUME NEW k \in Keys, PublishNew(k) \/ ExchangeNew(k) PROVE RetainInv'
  <2>1. /\ dest' = [dest EXCEPT ![k] = "new"] /\ backup' = backup
        /\ journal' = journal /\ dest[k] # "copy"
    BY <1>6 DEF PublishNew, ExchangeNew
  <2> QED BY <2>1, <1>t, <1>b DEF RetainInv, BackedUp
<1>7. ASSUME NEW k \in Keys, RecordDirectoryStage(k) PROVE RetainInv'
  <2>1. /\ journal' = [journal EXCEPT !.directory_stage = TRUE]
        /\ dest' = dest /\ backup' = backup
    BY <1>7 DEF RecordDirectoryStage, RewriteOnly, disk
  <2> QED BY <2>1, <1>t DEF RetainInv, BackedUp, JournalType
<1>8. ASSUME NEW k \in Keys, record_publication(k) PROVE RetainInv'
  <2>1. /\ Quiet /\ journal'.checkpoint = "publication-done"
        /\ journal.checkpoint = "publication-pending"
    BY <1>8, <1>f, <1>t DEF record_publication, Publishing, Writing, RewriteOnly, disk,
       JournalType, ForwardCheckpoints, ForwardPhases, CleanupPhases
  <2> QED BY <2>1, <1>1, <1>t DEF RetainInv, PreparedCheckpoints
<1>9. CASE UNCHANGED << journal, dest, backup >>
  BY <1>9, <1>t DEF RetainInv, BackedUp
<1> QED
  BY <1>2, <1>3, <1>4, <1>5, <1>6, <1>7, <1>8, <1>9 DEF WriterStep, StageFile,
     StageDirectory, UnlinkDisplaced, WriterReturns, disk

LEMMA RetainRecovery == Inv /\ ProgressInv /\ RetainInv /\ RecoveryStep => RetainInv'
<1> SUFFICES ASSUME Inv, ProgressInv, RetainInv, RecoveryStep PROVE RetainInv'
  OBVIOUS
<1>t. /\ journal \in JournalType /\ WellFormed(plan) /\ plan' = plan
      /\ dest \in [Keys -> DestStates] /\ backup \in [Keys -> BackupStates]
  BY PlansAssumption, PlanKept DEF Inv, TypeOK, Next
<1>l. Len(plan.backups) \in Nat /\ journal.backed_up_count \in Nat
  BY <1>t DEF WellFormed, JournalType
<1>b. BackedUp \subseteq Keys
  BY <1>t, <1>l, PrefixSubset DEF BackedUp, WellFormed, Range, RetainInv
<1> DEFINE Quiet ==
      /\ journal'.backed_up_count = journal.backed_up_count
      /\ journal'.phase \in CleanupPhases \/ journal.phase \notin CleanupPhases
      /\ \/ /\ journal'.published_count = journal.published_count
            /\ journal'.checkpoint \notin PreparedCheckpoints
         \/ journal.checkpoint \in PreparedCheckpoints
      /\ journal'.checkpoint # "backup-pending"
      /\ backup' = backup /\ dest' = dest
<1>1. ASSUME Quiet PROVE RetainInv'
  BY <1>1, <1>t DEF RetainInv, BackedUp
<1>2. CASE ReconcilePublication
  <2>1. journal.checkpoint = "publication-pending" /\ journal.phase = "publishing"
    BY <1>2 DEF ReconcilePublication, PublicationApplied, PublicationPending
  <2>2. Quiet
    BY <1>2, <2>1, <1>t DEF ReconcilePublication, RewriteOnly, disk, JournalType,
       CleanupPhases, PreparedCheckpoints
  <2> QED BY <2>2, <1>1
<1>3. CASE ForgetDirectoryStage
  <2>1. /\ journal' = [journal EXCEPT !.directory_stage = FALSE]
        /\ dest' = dest /\ backup' = backup
    BY <1>3 DEF ForgetDirectoryStage, RewriteOnly, disk
  <2> QED BY <2>1, <1>t DEF RetainInv, BackedUp, JournalType
<1>4. ASSUME \/ \E k \in Keys : SetRollbackPending(k) \/ record_rollback(k)
             \/ BeginRootRestore \/ RecordRootRestored
             \/ BeginCompletion \/ RecordCompletion \/ BeginEvidenceClear
             \/ EnterFailedCleanup
      PROVE  Quiet
  <2>1. journal.phase \notin CleanupPhases
    BY <1>4 DEF SetRollbackPending, record_rollback, BeginRootRestore,
       RecordRootRestored, BeginCompletion, RecordCompletion, BeginEvidenceClear,
       EnterFailedCleanup, RollingBack, RollbackPending, RollbackFinished,
       Uncommitable, At, CleanupPhases
  <2>2. RewriteOnly
    BY <1>4 DEF SetRollbackPending, record_rollback, BeginRootRestore,
       RecordRootRestored, BeginCompletion, RecordCompletion, BeginEvidenceClear,
       EnterFailedCleanup
  <2>3. /\ journal'.backed_up_count = journal.backed_up_count
        /\ journal'.published_count = journal.published_count
        /\ journal'.checkpoint \notin PreparedCheckpoints \cup {"backup-pending"}
    BY ZenonT(60), <1>4, <1>t DEF SetRollbackPending, record_rollback, BeginRootRestore,
       RecordRootRestored, BeginCompletion, RecordCompletion, BeginEvidenceClear,
       EnterFailedCleanup, JournalType, PreparedCheckpoints
  <2> QED BY <2>1, <2>2, <2>3 DEF RewriteOnly, disk
<1>5. ASSUME \/ StartCleanup \/ \E step \in CleanupSteps : record_cleanup(step)
             \/ NextCleanup \/ RemoveJournal
      PROVE  Quiet
  <2>1. backup' = backup /\ dest' = dest
    BY <1>5 DEF StartCleanup, record_cleanup, NextCleanup, RemoveJournal, RewriteOnly, disk
  <2>2. /\ journal'.backed_up_count = journal.backed_up_count
        /\ journal'.published_count = journal.published_count
        /\ journal'.phase \in CleanupPhases
        /\ journal'.checkpoint \notin PreparedCheckpoints \cup {"backup-pending"}
    <3>1. CASE StartCleanup \/ \E step \in CleanupSteps : record_cleanup(step)
      BY <3>1, <1>t DEF StartCleanup, record_cleanup, CleanupPending, At, JournalType,
         CleanupPhases, PreparedCheckpoints
    <3>2. CASE NextCleanup
      BY <3>2, <1>t DEF NextCleanup, At, JournalType, CleanupPhases, PreparedCheckpoints
    <3>3. CASE RemoveJournal
      BY <3>3, <1>t DEF RemoveJournal, JournalType, CleanupPhases, PreparedCheckpoints,
         Inv, PhaseInv, CleanupCheckpoints
    <3> QED BY <1>5, <3>1, <3>2, <3>3
  <2> QED BY <2>1, <2>2
<1>6. ASSUME NEW k \in Keys,
             RollbackRemove(k) \/ RollbackExchange(k) \/ RollbackUnlinkDisplaced(k)
      PROVE  RetainInv'
  <2>1. journal' = journal
    BY <1>6 DEF RollbackRemove, RollbackExchange, RollbackUnlinkDisplaced
  <2>2. ASSUME NEW h \in BackedUp, backup[h] = "copy" \/ dest[h] = "copy"
        PROVE  backup'[h] = "copy" \/ dest'[h] = "copy"
    BY <1>6, <2>2, <1>t, <1>b DEF RollbackRemove, RollbackExchange,
       RollbackUnlinkDisplaced
  <2>3. BackedUp' = BackedUp
    BY <2>1, <1>t DEF BackedUp
  <2> QED BY <2>1, <2>2, <2>3, <1>t DEF RetainInv
<1>7. ASSUME UnlinkMarker \/ EmptyBackup PROVE RetainInv'
  <2>1. journal' = journal /\ journal.phase \in CleanupPhases
    BY <1>7 DEF UnlinkMarker, EmptyBackup, CleanupPending, At, CleanupPhases
  <2> QED BY <2>1, <1>t DEF RetainInv
<1>8. CASE UNCHANGED << journal, dest, backup >>
  BY <1>8, <1>t DEF RetainInv, BackedUp
<1> QED
  BY <1>1, <1>2, <1>3, <1>4, <1>5, <1>6, <1>7, <1>8 DEF RecoveryStep,
     DiscardDirectoryStage, RestoreArchiveRoot, WriteCompletion, EmptyStage,
     RemoveRoot, WriteTerminal

------------------------------------------------------------------------------
(* The archive root: its mtime is off only while the archive directory is    *)
(* published into it, or has been removed from it and not been made up for.  *)

RootInv ==
  /\ journal.phase = "rolling-back" /\ journal.root_restored
        => "archive_dir" \in journal.rolled_back
  /\ journal.checkpoint = "archive-root-restore-pending" => RootRestoreDue
  /\ journal.phase \in ForwardPhases => ~journal.root_restored
  /\ root_changed /\ ~journal.committed =>
        /\ plan.restores_root
        /\ \/ /\ PublicationPending /\ journal.mutation = "archive_dir"
              /\ dest["archive_dir"] = "new"
           \/ /\ journal.phase \notin CleanupPhases
              /\ "archive_dir" \in Published /\ ~journal.root_restored

LEMMA RootInit == Init => RootInv
BY DEF Init, InitialJournal, RootInv

(* A publication that has reached the disk is recorded.                      *)
LEMMA RootPublished ==
  ASSUME Inv, ProgressInv, RootInv, PublicationApplied, plan' = plan, dest' = dest,
         root_changed' = root_changed,
         journal' = [journal EXCEPT !.published_count = @ + 1,
                                    !.checkpoint = "publication-done",
                                    !.directory_stage = FALSE]
  PROVE  RootInv'
<1>t. journal \in JournalType /\ WellFormed(plan)
  BY PlansAssumption DEF Inv, TypeOK
<1>1. /\ journal'.published_count = journal.published_count + 1
      /\ journal'.phase = "publishing" /\ journal.phase = "publishing"
      /\ journal'.checkpoint = "publication-done"
      /\ ~journal'.committed /\ ~journal.committed
      /\ journal'.root_restored = journal.root_restored /\ ~journal.root_restored
      /\ journal.mutation = plan.publication[journal.published_count + 1]
      /\ journal.published_count < Len(plan.publication)
  BY <1>t DEF PublicationApplied, PublicationPending, JournalType, Inv, PhaseInv,
     ProgressInv, RootInv, ForwardPhases
<1>2. Published' = Published \cup {journal.mutation}
  BY <1>1, <1>t, PrefixStep DEF Published, WellFormed, JournalType
<1> QED BY <1>1, <1>2 DEF RootInv, CleanupPhases

LEMMA RootWriter == Inv /\ ProgressInv /\ RootInv /\ WriterStep => RootInv'
<1> SUFFICES ASSUME Inv, ProgressInv, RootInv, WriterStep PROVE RootInv'
  OBVIOUS
<1>t. /\ journal \in JournalType /\ plan' = plan /\ dest \in [Keys -> DestStates]
  BY PlanKept DEF Inv, TypeOK, Next
<1>f. journal.checkpoint \in ForwardCheckpoints => journal.phase \in ForwardPhases
  BY <1>t DEF Inv, PhaseInv, ForwardCheckpoints, ForwardPhases, CleanupPhases,
     CleanupCheckpoints, JournalType, Phases
<1>1. CASE begin_staging \/ record_staging \/ begin_backup \/ record_backup
           \/ finish_preparation \/ begin_publication
           \/ begin_verification \/ finish_verification
  <2>1. /\ dest' = dest /\ root_changed' = root_changed
        /\ journal.checkpoint \in ForwardCheckpoints \ {"publication-pending"}
    BY <1>1 DEF begin_staging, record_staging, begin_backup, record_backup,
       finish_preparation, begin_publication, begin_verification, finish_verification,
       RewriteOnly, disk, Writing, ForwardCheckpoints
  <2>2. /\ journal'.published_count = journal.published_count
        /\ journal'.committed = journal.committed
        /\ journal'.root_restored = journal.root_restored
        /\ journal'.checkpoint \in ForwardCheckpoints
        /\ journal'.phase \in ForwardPhases
    BY ZenonT(60), <1>1, <1>f, <2>1, <1>t DEF begin_staging, record_staging, begin_backup,
       record_backup, finish_preparation, begin_publication, begin_verification,
       finish_verification, JournalType, ForwardPhases, ForwardCheckpoints
  <2>3. Published' = Published
    BY <2>2, <1>t DEF Published
  <2> QED BY <1>f, <1>t, <2>1, <2>2, <2>3 DEF RootInv, PublicationPending, ForwardPhases,
          CleanupPhases, ForwardCheckpoints
<1>2. CASE commit
  <2>1. /\ journal'.committed /\ journal'.phase = "committed"
        /\ journal'.checkpoint = "commit-done"
    BY <1>2, <1>t DEF commit, JournalType
  <2> QED BY <2>1 DEF RootInv, ForwardPhases
<1>3. ASSUME NEW k \in Keys, RecordDirectoryStage(k) PROVE RootInv'
  <2>1. /\ journal' = [journal EXCEPT !.directory_stage = TRUE]
        /\ dest' = dest /\ root_changed' = root_changed
    BY <1>3 DEF RecordDirectoryStage, RewriteOnly, disk
  <2> QED BY <2>1, <1>t DEF RootInv, PublicationPending, Published, RootRestoreDue,
          RootRestoreNeeded, JournalType
<1>4. ASSUME NEW k \in Keys, PublishNew(k) \/ ExchangeNew(k) PROVE RootInv'
  <2>1. /\ dest' = [dest EXCEPT ![k] = "new"] /\ journal' = journal
        /\ PublicationPending /\ journal.mutation = k
    BY <1>4 DEF PublishNew, ExchangeNew, ForwardBoundary, Publishing, Writing,
       PublicationPending, Inv, PhaseInv
  <2>2. Published' = Published /\ RootRestoreDue' = RootRestoreDue
    BY <2>1, <1>t DEF Published, RootRestoreDue, RootRestoreNeeded
  <2>3. "archive_dir" \in Keys
    BY DEF Keys, DirectoryKeys, ArchiveContainers
  <2>4. dest["archive_dir"] = "new" \/ k = "archive_dir" => dest'["archive_dir"] = "new"
    BY <2>1, <2>3, <1>t
  <2>5. /\ PublicationPending'
        /\ root_changed' => \/ root_changed
                            \/ plan.restores_root /\ k = "archive_dir"
    <3>1. PublicationPending'
      BY <2>1 DEF PublicationPending
    <3>2. root_changed' => root_changed \/ (plan.restores_root /\ k = "archive_dir")
      BY <1>4, Zenon DEF PublishNew, ExchangeNew
    <3> QED BY <3>1, <3>2
  <2>6. root_changed' /\ ~journal'.committed =>
          /\ plan'.restores_root
          /\ \/ journal'.mutation = "archive_dir" /\ dest'["archive_dir"] = "new"
             \/ /\ journal'.phase \notin CleanupPhases
                /\ "archive_dir" \in Published' /\ ~journal'.root_restored
    <3>1. CASE root_changed
      BY <2>1, <2>2, <2>4, <3>1, <1>t DEF RootInv
    <3>2. CASE plan.restores_root /\ k = "archive_dir"
      BY <2>1, <2>4, <3>2, <1>t
    <3> QED BY <2>5, <3>1, <3>2
  <2> QED BY <2>1, <2>2, <2>5, <2>6 DEF RootInv
<1>5. ASSUME NEW k \in Keys, record_publication(k) PROVE RootInv'
  <2>1. PublicationApplied
    BY <1>5 DEF record_publication, Publishing, Writing, PublicationApplied,
       PublicationPending, Inv, PhaseInv
  <2> QED BY <1>5, <2>1, <1>t, RootPublished DEF record_publication, RewriteOnly, disk
<1>6. CASE UNCHANGED << journal, dest, root_changed >>
  BY <1>6, <1>t DEF RootInv, PublicationPending, Published, RootRestoreDue,
     RootRestoreNeeded
<1> QED
  BY <1>1, <1>2, <1>3, <1>4, <1>5, <1>6 DEF WriterStep, StageFile, CopyBackup,
     StageDirectory, UnlinkDisplaced, WriterReturns, disk

LEMMA RootRecovery ==
  Inv /\ ProgressInv /\ RootInv /\ RecoveryStep => RootInv'
<1> SUFFICES ASSUME Inv, ProgressInv, RootInv, RecoveryStep PROVE RootInv'
  OBVIOUS
<1>t. /\ journal \in JournalType /\ plan' = plan /\ dest \in [Keys -> DestStates]
      /\ root_changed \in BOOLEAN
  BY PlanKept DEF Inv, TypeOK, Next
<1>1. CASE ReconcilePublication
  BY <1>1, <1>t, RootPublished DEF ReconcilePublication, RewriteOnly, disk
<1>2. CASE ForgetDirectoryStage
  <2>1. /\ journal' = [journal EXCEPT !.directory_stage = FALSE]
        /\ dest' = dest /\ root_changed' = root_changed
    BY <1>2 DEF ForgetDirectoryStage, RewriteOnly, disk
  <2> QED BY <2>1, <1>t DEF RootInv, PublicationPending, Published, RootRestoreDue,
          RootRestoreNeeded, JournalType
<1>3. ASSUME \/ \E k \in Keys : SetRollbackPending(k)
             \/ BeginRootRestore \/ BeginCompletion \/ RecordCompletion \/ BeginEvidenceClear
      PROVE  RootInv'
  <2>1. /\ Uncommitable /\ dest' = dest /\ root_changed' = root_changed
    BY <1>3 DEF SetRollbackPending, BeginRootRestore, BeginCompletion, RecordCompletion,
       BeginEvidenceClear, RollbackFinished, RewriteOnly, disk
  <2>2. /\ journal'.published_count = journal.published_count
        /\ journal'.rolled_back = journal.rolled_back
        /\ journal'.root_restored = journal.root_restored
        /\ journal'.committed = journal.committed
    BY <1>3, <1>t DEF SetRollbackPending, BeginRootRestore, BeginCompletion,
       RecordCompletion, BeginEvidenceClear, JournalType
  <2>3. /\ journal'.checkpoint = "archive-root-restore-pending" => RootRestoreDue
        /\ journal'.checkpoint # "publication-pending"
        /\ journal'.phase = "rolling-back"
    <3>1. CASE BeginRootRestore \/ BeginCompletion \/ \E k \in Keys : SetRollbackPending(k)
      BY ZenonT(60), <3>1, <1>t DEF SetRollbackPending, BeginRootRestore, BeginCompletion, JournalType
    <3>2. CASE RecordCompletion \/ BeginEvidenceClear
      <4>1. journal.phase = "rolling-back"
        BY <3>2 DEF RecordCompletion, BeginEvidenceClear, RollbackFinished, Uncommitable,
           Inv, PhaseInv, ForwardPhases
      <4> QED BY <3>2, <4>1, <1>t DEF RecordCompletion, BeginEvidenceClear, JournalType
    <3> QED BY <1>3, <3>1, <3>2
  <2>4. /\ Published' = Published
        /\ RootRestoreDue' = RootRestoreDue
    BY <2>2, <1>t DEF Published, RootRestoreDue, RootRestoreNeeded
  <2>5. /\ journal.phase \in ForwardPhases \cup {"rolling-back"}
        /\ ~PublicationApplied
    BY <2>1 DEF Uncommitable, ForwardPhases
  <2>6. journal.root_restored => "archive_dir" \in journal.rolled_back
    BY <2>5 DEF RootInv
  <2>7. root_changed /\ ~journal.committed =>
           /\ plan.restores_root /\ "archive_dir" \in Published
           /\ ~journal.root_restored
    BY <2>5 DEF RootInv, PublicationApplied
  <2> QED BY <2>1, <2>2, <2>3, <2>4, <2>6, <2>7, <1>t DEF RootInv,
          ForwardPhases, CleanupPhases
<1>4. CASE RecordRootRestored
  <2>1. /\ ~root_changed /\ root_changed' = root_changed
        /\ journal.checkpoint = "archive-root-restore-pending"
        /\ journal'.checkpoint = "archive-root-restore-done"
        /\ journal'.phase = "rolling-back"
        /\ journal'.rolled_back = journal.rolled_back
    BY <1>4, <1>t DEF RecordRootRestored, At, RewriteOnly, disk, JournalType
  <2>2. "archive_dir" \in journal.rolled_back
    BY <2>1 DEF RootInv, RootRestoreDue
  <2> QED BY <2>1, <2>2 DEF RootInv, ForwardPhases
<1>5. CASE RestoreArchiveRoot
  <2>1. journal' = journal /\ ~root_changed'
    BY <1>5 DEF RestoreArchiveRoot
  <2> QED BY <2>1, <1>t DEF RootInv, RootRestoreDue, RootRestoreNeeded, Published
<1>6. ASSUME NEW k \in Keys, RollbackRemove(k) \/ RollbackExchange(k) PROVE RootInv'
  <2>1. /\ journal' = journal /\ RollbackPending /\ journal.mutation = k
        /\ \/ root_changed' = root_changed
           \/ root_changed' = (root_changed \/ (plan.restores_root /\ k = "archive_dir"))
    BY <1>6 DEF RollbackRemove, RollbackExchange, RollingBack
  <2>2. k \in Published \ journal.rolled_back /\ journal.phase = "rolling-back"
    BY <2>1 DEF ProgressInv, RollbackPending
  <2>3. Published' = Published /\ RootRestoreDue' = RootRestoreDue
    BY <2>1, <1>t DEF Published, RootRestoreDue, RootRestoreNeeded
  <2> QED BY <2>1, <2>2, <2>3, <1>t DEF RootInv, PublicationPending, CleanupPhases,
          ForwardPhases
<1>7. ASSUME NEW k \in Keys, record_rollback(k) PROVE RootInv'
  <2>1. /\ journal.phase = "rolling-back" /\ journal'.phase = "rolling-back"
        /\ journal'.checkpoint = "rollback-done"
        /\ journal'.published_count = journal.published_count
        /\ journal'.rolled_back = journal.rolled_back \cup {k}
        /\ journal'.root_restored = journal.root_restored
        /\ journal'.committed = journal.committed
        /\ dest' = dest /\ root_changed' = root_changed
    BY <1>7, <1>t DEF record_rollback, RollingBack, RollbackPending, RewriteOnly, disk,
       JournalType
  <2>2. Published' = Published
    BY <2>1, <1>t DEF Published
  <2> QED BY <2>1, <2>2, <1>t DEF RootInv, PublicationPending, CleanupPhases,
          ForwardPhases
<1>8. CASE EnterFailedCleanup
  <2>1. /\ journal'.phase = "cleaning-up" /\ journal'.checkpoint = "cleanup-pending"
        /\ journal.phase = "rolling-back"
        /\ journal.checkpoint = "rollback-evidence-clear-pending"
        /\ root_changed' = root_changed
    BY <1>8, <1>t DEF EnterFailedCleanup, At, RewriteOnly, disk, JournalType
  <2>2. journal.rolled_back = Published /\ ~RootRestoreDue /\ ~journal.committed
    BY <2>1 DEF ProgressInv, CompletionCheckpoints, Inv, PhaseInv
  <2>3. ~root_changed
    BY <2>1, <2>2 DEF RootInv, RootRestoreDue, RootRestoreNeeded, PublicationPending
  <2> QED BY <2>1, <2>3, <1>t DEF RootInv, ForwardPhases
<1>9. ASSUME \/ StartCleanup \/ \E step \in CleanupSteps : record_cleanup(step)
             \/ NextCleanup \/ RemoveJournal
      PROVE  RootInv'
  <2>1. /\ root_changed' = root_changed
        /\ journal.phase \in CleanupPhases \cup {"committed"}
    BY <1>9 DEF StartCleanup, record_cleanup, NextCleanup, RemoveJournal, RewriteOnly,
       disk, CleanupPending, At, CleanupPhases
  <2>2. /\ journal'.committed = journal.committed
        /\ journal'.phase \in CleanupPhases
        /\ journal'.checkpoint # "archive-root-restore-pending"
    <3>1. CASE StartCleanup \/ \E step \in CleanupSteps : record_cleanup(step)
      BY <3>1, <1>t DEF StartCleanup, record_cleanup, CleanupPending, At, JournalType,
         CleanupPhases
    <3>2. CASE NextCleanup
      BY <3>2, <1>t DEF NextCleanup, At, JournalType, CleanupPhases
    <3>3. CASE RemoveJournal
      BY <3>3, <1>t DEF RemoveJournal, JournalType, CleanupPhases,
         Inv, PhaseInv, CleanupCheckpoints
    <3> QED BY <1>9, <3>1, <3>2, <3>3
  <2>3. root_changed => journal.committed
    BY <2>1 DEF RootInv, PublicationPending, CleanupPhases, Inv, PhaseInv
  <2> QED BY <2>1, <2>2, <2>3, <1>t DEF RootInv, CleanupPhases, ForwardPhases
<1>10. CASE UnlinkMarker
  <2>1. /\ journal' = journal /\ root_changed' = root_changed
        /\ journal.phase \in CleanupPhases
        /\ dest' = [dest EXCEPT !["archive_marker"] = "absent"]
    BY <1>10 DEF UnlinkMarker, CleanupPending, At, CleanupPhases
  <2> QED BY <2>1, <1>t DEF RootInv, PublicationPending, Published, RootRestoreDue,
          RootRestoreNeeded, CleanupPhases
<1>11. CASE UNCHANGED << journal, dest, root_changed >>
  BY <1>11, <1>t DEF RootInv, PublicationPending, Published, RootRestoreDue,
     RootRestoreNeeded
<1> QED
  BY <1>1, <1>2, <1>3, <1>4, <1>5, <1>6, <1>7, <1>8, <1>9, <1>10, <1>11 DEF RecoveryStep,
     DiscardDirectoryStage, RollbackUnlinkDisplaced, WriteCompletion, EmptyStage,
     EmptyBackup, RemoveRoot, WriteTerminal

------------------------------------------------------------------------------
AtomicityInv ==
  /\ Inv /\ ProgressInv /\ CleanupInv /\ DestInv /\ RetainInv /\ RootInv

LEMMA ControlAtomicity ==
  AtomicityInv /\ (StartRecovery \/ RefuseCleanup \/ Stop \/ UNCHANGED vars)
     => AtomicityInv'
<1> SUFFICES ASSUME AtomicityInv, StartRecovery \/ RefuseCleanup \/ Stop \/ UNCHANGED vars
             PROVE  AtomicityInv'
  OBVIOUS
<1>1. UNCHANGED << plan, journal, disk >>
  BY DEF StartRecovery, RefuseCleanup, Stop, vars
<1>2. Inv'
  BY ControlSteps DEF AtomicityInv
<1>3. ProgressInv'
  BY <1>1, ProgressStutter DEF AtomicityInv
<1>4. CleanupInv'
  BY <1>1 DEF AtomicityInv, CleanupInv, disk
<1>5. DestInv'
  BY <1>1 DEF AtomicityInv, DestInv, disk, Expected, PublicationPending, RollbackPending,
     CleanupPending, At, Planned, Published, Restored, Original
<1>6. RetainInv'
  BY <1>1 DEF AtomicityInv, RetainInv, BackedUp, disk
<1>7. RootInv'
  BY <1>1 DEF AtomicityInv, RootInv, PublicationPending, Published, RootRestoreDue,
     RootRestoreNeeded, disk
<1> QED BY <1>2, <1>3, <1>4, <1>5, <1>6, <1>7 DEF AtomicityInv

LEMMA AtomicityStep == AtomicityInv /\ [Next]_vars => AtomicityInv'
<1>1. AtomicityInv /\ WriterStep => AtomicityInv'
  BY TypeWriter, PhaseWriter, ProgressWriter, CleanupWriter, DestWriter, RetainWriter,
     RootWriter DEF AtomicityInv, Inv
<1>2. AtomicityInv /\ RecoveryStep => AtomicityInv'
  BY TypeRecovery, PhaseRecovery, ProgressRecovery, CleanupRecovery, DestRecovery,
     RetainRecovery, RootRecovery DEF AtomicityInv, Inv
<1> QED BY <1>1, <1>2, ControlAtomicity DEF Next

(* The inductive invariant holds in every reachable state.                   *)
THEOREM AtomicityInvariance == Spec => []AtomicityInv
<1>1. Init => AtomicityInv
  BY TypeInit, PhaseInit, ProgressInit, CleanupInit, DestInit, RetainInit, RootInit
     DEF AtomicityInv, Inv
<1> QED BY <1>1, AtomicityStep, PTL DEF Spec

------------------------------------------------------------------------------
(* Whatever a crash leaves on the disk beyond the evidence of the journal is *)
(* the single mutation the journal announces: recovery never has to guess    *)
(* between two.                                                              *)
THEOREM WriteAhead == Spec => []OneMutationAhead
<1>1. AtomicityInv => OneMutationAhead
  <2> SUFFICES ASSUME AtomicityInv, NEW k \in Planned, k # journal.mutation,
                      ~( /\ journal.phase # "removed" /\ RemovalPending("archive-marker")
                         /\ k = "archive_marker")
               PROVE  dest[k] = IF "archive-marker" \in journal.removed /\ k = "archive_marker"
                     THEN "absent"
                     ELSE IF journal.committed THEN "new"
                     ELSE IF journal.phase \in {"cleaning-up", "terminal", "removed"}
                     THEN (IF k \in Published THEN Restored(k) ELSE Original(k))
                     ELSE IF k \in journal.rolled_back THEN Restored(k)
                     ELSE IF k \in Published THEN "new"
                     ELSE Original(k)
    BY DEF OneMutationAhead
  <2>1. dest[k] = Expected(k)
    BY DEF AtomicityInv, DestInv, CleanupPending, At, RemovalPending
  <2>2. journal.phase \in CleanupPhases => journal.rolled_back = {}
    BY DEF AtomicityInv, ProgressInv, CleanupPhases
  <2> QED BY <2>1, <2>2 DEF Expected, CleanupPhases
<1> QED BY <1>1, AtomicityInvariance, PTL

(* Until the commit rewrite, no object the transaction replaces is lost: it  *)
(* is at its destination, or its private copy is.                            *)
THEOREM OriginalsSurvive == Spec => []OriginalRetained
<1>1. AtomicityInv => OriginalRetained
  <2> SUFFICES ASSUME AtomicityInv, ~journal.committed, NEW k \in plan.existing,
                      dest[k] \notin {"original", "copy"}
               PROVE  backup[k] = "copy"
    BY DEF OriginalRetained
  <2>1. WellFormed(plan) /\ journal \in JournalType
    BY PlannedKeys DEF AtomicityInv, Inv, TypeOK
  <2>2. k \in Planned /\ k \in Range(plan.backups)
    BY <2>1 DEF WellFormed, Planned
  <2>3. Restored(k) = "copy" /\ Original(k) = "original"
    BY DEF Restored, Original
  <2>4. k = "archive_marker" => "archive-marker" \notin journal.removed
    BY DEF AtomicityInv, CleanupInv
  <2>5. ~CleanupPending("archive-marker")
    BY DEF AtomicityInv, CleanupInv, CleanupPending, At, CleanupPhases
  <2>6. /\ k \in Published \/ PublicationPending
        /\ journal.phase \notin CleanupPhases
    <3>1. CASE dest[k] = Expected(k)
      BY <2>3, <2>4, <3>1 DEF Expected
    <3>2. CASE dest[k] # Expected(k)
      BY <2>2, <2>3, <2>5, <3>2 DEF AtomicityInv, DestInv, PublicationPending, CleanupPhases
    <3> QED BY <3>1, <3>2
  <2>7. journal.published_count > 0 \/ journal.checkpoint = "publication-pending"
    BY <2>1, <2>6, PrefixEmpty DEF Published, PublicationPending, JournalType
  <2>8. journal.backed_up_count = Len(plan.backups)
    BY <2>7 DEF AtomicityInv, RetainInv, PreparedCheckpoints
  <2>9. k \in BackedUp
    BY <2>1, <2>2, <2>8, PrefixWhole DEF BackedUp, WellFormed
  <2> QED BY <2>6, <2>9 DEF AtomicityInv, RetainInv
<1> QED BY <1>1, AtomicityInvariance, PTL

(* The terminal record tells the truth about every planned object, about the *)
(* archive root and about the private trees.                                 *)
THEOREM OutcomeIsAtomic == Spec => []AtomicOutcome
<1>1. AtomicityInv => AtomicOutcome
  <2> SUFFICES ASSUME AtomicityInv, terminal # "absent" PROVE AtomicOutcome
    BY DEF AtomicOutcome
  <2>1. /\ journal.phase \in CleanupPhases /\ journal.step = "terminal"
        /\ terminal = journal.outcome /\ \A t \in Trees : tree[t] = "gone"
    BY DEF AtomicityInv, CleanupInv
  <2>2. journal.outcome = IF journal.committed THEN "succeeded" ELSE "failed-pre-commit"
    BY <2>1 DEF AtomicityInv, Inv, PhaseInv
  <2>3. \A k \in Planned : dest[k] = Expected(k)
    BY <2>1 DEF AtomicityInv, DestInv, CleanupPending, PublicationPending,
       RollbackPending, CleanupPhases
  <2>4. "archive-marker" \in journal.removed
           <=> journal.committed /\ plan.operation = "renew"
    BY <2>1 DEF AtomicityInv, CleanupInv
  <2>5. CASE journal.committed
    BY <2>1, <2>2, <2>3, <2>4, <2>5 DEF AtomicOutcome, Expected
  <2>6. CASE ~journal.committed
    <3>1. \A k \in Planned : dest[k] \in {Original(k), Restored(k)}
      BY <2>1, <2>3, <2>4, <2>6 DEF Expected
    <3>2. ~root_changed
      BY <2>1, <2>6 DEF AtomicityInv, RootInv, PublicationPending, CleanupPhases
    <3> QED BY <2>1, <2>2, <2>6, <3>1, <3>2 DEF AtomicOutcome
  <2> QED BY <2>5, <2>6
<1> QED BY <1>1, AtomicityInvariance, PTL

------------------------------------------------------------------------------
(* The transaction implements AtomicService.                                 *)

(* The writer decides by its commit rewrite alone.                           *)
LEMMA WriterDecision ==
  Inv /\ WriterStep =>
     \/ commit
     \/ /\ journal'.committed = journal.committed
        /\ journal'.completion_recorded = journal.completion_recorded
<1> SUFFICES ASSUME Inv, WriterStep, ~commit
             PROVE  /\ journal'.committed = journal.committed
                    /\ journal'.completion_recorded = journal.completion_recorded
  OBVIOUS
<1>t. journal \in JournalType
  BY DEF Inv, TypeOK
<1>1. CASE journal' = journal
  BY <1>1
<1>2. CASE record_staging \/ begin_staging \/ begin_backup \/ record_backup
           \/ finish_preparation \/ begin_publication \/ begin_verification
           \/ finish_verification
           \/ \E k \in Keys : RecordDirectoryStage(k) \/ record_publication(k)
  BY <1>2, <1>t DEF record_staging, begin_staging, begin_backup, record_backup,
     finish_preparation, begin_publication, begin_verification, finish_verification,
     RecordDirectoryStage, record_publication, JournalType
<1> QED
  BY <1>1, <1>2 DEF WriterStep, StageFile, CopyBackup, StageDirectory, PublishNew,
     ExchangeNew, UnlinkDisplaced, WriterReturns

(* The recovery decides by the rewrite that records the completion alone.    *)
LEMMA RecoveryDecides ==
  Inv /\ RecoveryStep =>
     \/ RecordCompletion /\ journal'.committed = journal.committed
     \/ /\ journal'.committed = journal.committed
        /\ journal'.completion_recorded = journal.completion_recorded
<1> SUFFICES ASSUME Inv, RecoveryStep
             PROVE  /\ journal'.committed = journal.committed
                    /\ \/ RecordCompletion
                       \/ journal'.completion_recorded = journal.completion_recorded
  OBVIOUS
<1>t. journal \in JournalType
  BY DEF Inv, TypeOK
<1>1. CASE journal' = journal
  BY <1>1
<1>2. CASE \/ ReconcilePublication \/ ForgetDirectoryStage
           \/ \E k \in Keys : SetRollbackPending(k) \/ record_rollback(k)
           \/ BeginRootRestore \/ RecordRootRestored
           \/ BeginCompletion \/ RecordCompletion \/ BeginEvidenceClear
  BY <1>2, <1>t DEF ReconcilePublication, ForgetDirectoryStage, SetRollbackPending,
     record_rollback, BeginRootRestore, RecordRootRestored, BeginCompletion,
     RecordCompletion, BeginEvidenceClear, JournalType
<1>3. CASE \/ EnterFailedCleanup \/ StartCleanup
           \/ \E step \in CleanupSteps : record_cleanup(step)
           \/ RemoveJournal
  BY <1>3, <1>t DEF EnterFailedCleanup, StartCleanup, record_cleanup, RemoveJournal,
     JournalType
<1>4. CASE NextCleanup
  BY <1>4, <1>t DEF NextCleanup, JournalType
<1> QED
  BY <1>1, <1>2, <1>3, <1>4 DEF RecoveryStep, DiscardDirectoryStage, RollbackRemove,
     RollbackExchange, RollbackUnlinkDisplaced, RestoreArchiveRoot, WriteCompletion,
     UnlinkMarker, EmptyStage, EmptyBackup, RemoveRoot, WriteTerminal

(* Once the rollback is recorded as complete no destination moves.           *)
LEMMA FailedIsStill ==
  AtomicityInv /\ [Next]_vars /\ ~journal.committed /\ journal.completion_recorded
     => dest' = dest
<1> SUFFICES ASSUME AtomicityInv, [Next]_vars, ~journal.committed,
                    journal.completion_recorded
             PROVE  dest' = dest
  OBVIOUS
<1>1. journal.phase \notin ForwardPhases /\ ~RollbackPending
  BY DEF AtomicityInv, Inv, PhaseInv, ProgressInv, RollbackPending, ForwardPhases,
     CleanupPhases, CompletionCheckpoints
<1>2. ~CleanupPending("archive-marker")
  BY DEF AtomicityInv, CleanupInv, CleanupPending, At, CleanupPhases
<1>3. CASE WriterStep
  BY <1>1, <1>3, WriterIsForward DEF AtomicityInv, disk
<1>4. CASE RecoveryStep
  BY <1>1, <1>2, <1>4 DEF RecoveryStep, RewriteOnly, disk, ReconcilePublication,
     DiscardDirectoryStage, ForgetDirectoryStage, SetRollbackPending, RollbackRemove,
     RollbackExchange, RollingBack,
     RollbackUnlinkDisplaced, record_rollback, BeginRootRestore,
     RestoreArchiveRoot, RecordRootRestored, BeginCompletion, WriteCompletion,
     RecordCompletion, BeginEvidenceClear, EnterFailedCleanup, StartCleanup,
     UnlinkMarker, EmptyStage, EmptyBackup, RemoveRoot, WriteTerminal, record_cleanup,
     NextCleanup, RemoveJournal
<1> QED BY <1>3, <1>4, OtherSteps DEF disk

(* A removed journal stays removed.                                          *)
LEMMA RemovedIsFinal ==
  Inv /\ [Next]_vars /\ journal.phase = "removed" => journal' = journal
<1> SUFFICES ASSUME Inv, [Next]_vars, journal.phase = "removed" PROVE journal' = journal
  OBVIOUS
<1>1. CASE WriterStep
  BY <1>1, WriterIsForward DEF ForwardPhases
<1>2. CASE RecoveryStep
  BY <1>2 DEF RecoveryStep, ReconcilePublication, PublicationApplied, PublicationPending,
     DiscardDirectoryStage, ForgetDirectoryStage, SetRollbackPending, RollbackRemove,
     RollbackExchange, RollingBack, RollbackPending, Uncommitable, RollbackFinished, At,
     RollbackUnlinkDisplaced, record_rollback, BeginRootRestore, Inv, PhaseInv,
     RestoreArchiveRoot, RecordRootRestored, BeginCompletion, WriteCompletion,
     RecordCompletion, BeginEvidenceClear, EnterFailedCleanup, StartCleanup,
     UnlinkMarker, EmptyStage, EmptyBackup, RemoveRoot, WriteTerminal, record_cleanup,
     CleanupPending, NextCleanup, RemoveJournal
<1> QED BY <1>1, <1>2, OtherSteps

(* After the decision nothing visible moves.                                 *)
LEMMA DecidedIsStill ==
  AtomicityInv /\ [Next]_vars /\ Decision # "open" => Visible' = Visible
<1> SUFFICES ASSUME AtomicityInv, [Next]_vars, Decision # "open"
             PROVE  Visible' = Visible
  OBVIOUS
<1>1. Planned \subseteq Keys /\ plan' = plan
  BY PlannedKeys, PlanKept DEF AtomicityInv, Inv
<1>2. CASE journal.committed
  <2>1. journal.phase \notin ForwardPhases
    BY <1>2 DEF AtomicityInv, Inv, PhaseInv
  <2>2. \A k \in Keys \ {"archive_marker"} : dest'[k] = dest[k]
    BY <1>2, <2>1, WriterIsForward, RecoveryDestinations, OtherSteps
       DEF AtomicityInv, RecoveryEffect, disk
  <2> QED BY <1>1, <2>2 DEF Visible, Planned, Original, Restored
<1>3. CASE ~journal.committed
  <2>1. dest' = dest
    BY <1>3, FailedIsStill DEF Decision
  <2> QED BY <1>1, <2>1 DEF Visible, Planned, Original, Restored
<1> QED BY <1>2, <1>3

(* What a committed, and a completely rolled back, transaction shows.        *)
LEMMA CommittedShowsNew == AtomicityInv /\ journal.committed => Visible = "new"
<1> SUFFICES ASSUME AtomicityInv, journal.committed,
                    NEW k \in Planned \ {"archive_marker"}
             PROVE  dest[k] = "new"
  BY DEF Visible
<1>1. ~PublicationPending /\ ~RollbackPending
  BY DEF AtomicityInv, Inv, PhaseInv, PublicationPending, RollbackPending, ForwardPhases
<1> QED BY <1>1 DEF AtomicityInv, DestInv, Expected

LEMMA RolledBackShowsOld ==
  AtomicityInv /\ ~journal.committed /\ journal.completion_recorded => Visible = "old"
<1> SUFFICES ASSUME AtomicityInv, ~journal.committed, journal.completion_recorded
             PROVE  Visible = "old"
  OBVIOUS
<1>1. journal.phase \notin ForwardPhases /\ ~PublicationPending /\ ~RollbackPending
  BY DEF AtomicityInv, Inv, PhaseInv, ProgressInv, PublicationPending, RollbackPending,
     ForwardPhases, CleanupPhases, CompletionCheckpoints
<1>2. journal.phase \in CleanupPhases \/ journal.rolled_back = Published
  BY DEF AtomicityInv, ProgressInv
<1>3. \A k \in Planned \ {"archive_marker"} : dest[k] \in {Original(k), Restored(k)}
  BY <1>1, <1>2 DEF AtomicityInv, DestInv, Expected
<1>4. "ca_index" \in Planned \ {"archive_marker"}
  BY PlannedKeys DEF AtomicityInv, Inv, WellFormed, RequiredCAState, Planned
<1>5. dest["ca_index"] # "new"
  BY <1>3, <1>4 DEF Original, Restored
<1> QED BY <1>3, <1>4, <1>5 DEF Visible

LEMMA RefinementInit == Init => Abstract!Init
<1> SUFFICES ASSUME Init PROVE Abstract!Init
  OBVIOUS
<1>1. WellFormed(plan) /\ Planned \subseteq Keys
  BY PlannedKeys, TypeInit
<1>2. "ca_index" \in Planned \ {"archive_marker"}
  BY <1>1 DEF WellFormed, RequiredCAState, Planned
<1>3. \A k \in Planned : dest[k] = Original(k)
  BY <1>1 DEF Init
<1>4. Visible = "old"
  BY <1>2, <1>3 DEF Visible, Original
<1>5. Decision = "open" /\ journal.phase # "removed"
  BY DEF Init, InitialJournal, Decision
<1> QED BY <1>4, <1>5 DEF Abstract!Init

LEMMA RefinementStep ==
  AtomicityInv /\ AtomicityInv' /\ [Next]_vars
     => [Abstract!Next]_<< Decision, Visible, journal.phase = "removed" >>
<1> SUFFICES ASSUME AtomicityInv, AtomicityInv', [Next]_vars
             PROVE  \/ Abstract!Next
                    \/ UNCHANGED << Decision, Visible, journal.phase = "removed" >>
  OBVIOUS
<1>d. Decision \in {"open", "succeeded", "failed-pre-commit"}
  BY DEF Decision
<1>o. /\ Decision = "open" => journal.phase # "removed"
      /\ Decision' = "open" => journal'.phase # "removed"
  BY DEF Decision, AtomicityInv, ProgressInv, CleanupPhases
<1>v. Visible \in {"old", "mixed", "new"} /\ Visible' \in {"old", "mixed", "new"}
  BY DEF Visible
<1>k. \/ journal'.committed = journal.committed
         /\ journal'.completion_recorded = journal.completion_recorded
      \/ commit
      \/ RecordCompletion /\ journal'.committed = journal.committed
  BY WriterDecision, RecoveryDecides, OtherSteps DEF AtomicityInv
<1>1. CASE Decision = "open"
  <2>1. CASE Decision' = "open"
    BY <1>1, <2>1, <1>o, <1>v DEF Abstract!Next, Abstract!Mutate
  <2>2. CASE Decision' # "open"
    <3>1. CASE commit
      <4>1. dest' = dest /\ plan' = plan
        BY <3>1 DEF commit, RewriteOnly, disk
      <4>2. Visible' = Visible
        BY <4>1 DEF Visible, Planned, Original, Restored
      <4>3. journal'.committed /\ journal'.phase = "committed"
        BY <3>1 DEF commit, AtomicityInv, Inv, TypeOK, JournalType
      <4>4. Visible' = "new" /\ Decision' = "succeeded"
        <5>1. (AtomicityInv /\ journal.committed => Visible = "new")'
          BY CommittedShowsNew, PTL
        <5> QED BY <4>3, <5>1 DEF Decision
      <4> QED BY <1>1, <1>o, <4>2, <4>3, <4>4 DEF Abstract!Next, Abstract!Succeed
    <3>2. CASE RecordCompletion /\ journal'.committed = journal.committed
      <4>1. dest' = dest /\ plan' = plan
        BY <3>2 DEF RecordCompletion, RewriteOnly, disk
      <4>2. Visible' = Visible
        BY <4>1 DEF Visible, Planned, Original, Restored
      <4>3. /\ ~journal'.committed /\ journal'.completion_recorded
            /\ journal'.phase = journal.phase
        BY <1>1, <3>2 DEF RecordCompletion, AtomicityInv, Inv, TypeOK, JournalType, Decision
      <4>4. Visible' = "old" /\ Decision' = "failed-pre-commit"
        <5>1. (AtomicityInv /\ ~journal.committed /\ journal.completion_recorded
                  => Visible = "old")'
          BY RolledBackShowsOld, PTL
        <5> QED BY <4>3, <5>1 DEF Decision
      <4> QED BY <1>1, <1>o, <4>2, <4>3, <4>4 DEF Abstract!Next, Abstract!Fail
    <3> QED BY <1>1, <2>2, <1>k, <3>1, <3>2 DEF Decision
  <2> QED BY <2>1, <2>2
<1>2. CASE Decision # "open"
  <2>1. Visible' = Visible
    BY <1>2, DecidedIsStill
  <2>2. Decision' = Decision
    <3>1. ~commit
      BY <1>2 DEF commit, Writing, Decision, AtomicityInv, Inv, TypeOK, JournalType, Phases,
         PhaseInv, ForwardPhases, CleanupPhases, CleanupCheckpoints, ForwardCheckpoints
    <3>2. RecordCompletion => journal'.completion_recorded /\ ~journal.completion_recorded
      BY DEF RecordCompletion, AtomicityInv, Inv, TypeOK, JournalType
    <3> QED BY <1>2, <1>k, <3>1, <3>2 DEF Decision
  <2>3. journal.phase = "removed" => journal'.phase = "removed"
    BY RemovedIsFinal DEF AtomicityInv
  <2> QED BY <1>2, <2>1, <2>2, <2>3 DEF Abstract!Next, Abstract!Close
<1> QED BY <1>1, <1>2

(* A managed service operation ends in one decision, succeeds only with      *)
(* everything new in place, fails only with everything old back, and moves   *)
(* nothing visible after the decision, whatever crashes and retries happen.  *)
THEOREM ImplementsAtomicService == Spec => AtomicServiceSpec
<1> QED BY RefinementInit, RefinementStep, AtomicityInvariance, PTL
        DEF Spec, AtomicServiceSpec, Abstract!Spec
==============================================================================
