------------------------ MODULE ServiceJournal_proofs ------------------------
(***************************************************************************)
(* No process of a managed service transaction ever writes a journal that  *)
(* the parser would refuse, no directory is filled before it exists or     *)
(* removed before it is empty, and recovery gives up only in the known     *)
(* windows: proofs, for every set of plans whose orders nest.              *)
(*                                                                         *)
(* The parser's table, JournalLegal, is inductive once it is joined with   *)
(* the invariant of ServiceTransaction_proofs and with OrderInv, which says*)
(* that the rolled back keys are always a prefix of the rollback order.    *)
(* PrivateInv, inductive beside it, says what each name of the two private *)
(* trees holds at each point of the journal, which is what the preflight   *)
(* of a recovery compares with the disk.                                   *)
(***************************************************************************)
EXTENDS ServiceTransaction_proofs

------------------------------------------------------------------------------
(* Rollback goes through the published keys in the plan's order and leaves   *)
(* none behind; completion is started before it is written or recorded.      *)
OrderInv ==
  /\ \A i, j \in DOMAIN plan.rollback :
        /\ j < i /\ plan.rollback[i] \in journal.rolled_back
        /\ plan.rollback[j] \in Published
        => plan.rollback[j] \in journal.rolled_back
  /\ RollbackPending => RollbackNext(journal.mutation)
  /\ journal.completion_started =>
        \/ journal.phase \in CleanupPhases
        \/ journal.checkpoint \in CompletionCheckpoints
  /\ completion \/ journal.completion_recorded => journal.completion_started

LegalInv == AtomicityInv /\ JournalLegal /\ OrderInv

------------------------------------------------------------------------------
(* The forward half of the table, read from the checkpoint.                  *)
LEMMA ForwardState ==
  ASSUME Inv, JournalLegal, journal.checkpoint \in ForwardCheckpoints
  PROVE  /\ journal.phase \in ForwardPhases
         /\ Forward /\ LegalForward
         /\ journal.removed = {} /\ ~journal.root_restored
<1>1. journal.phase \in ForwardPhases
  BY DEF Inv, TypeOK, PhaseInv, JournalType, Phases, ForwardPhases, CleanupPhases,
     ForwardCheckpoints, CleanupCheckpoints
<1> QED BY <1>1 DEF JournalLegal, ForwardPhases

(* What each forward checkpoint says of the counts and the pending item.     *)
Counts ==
  /\ journal.checkpoint = "staging-pending" =>
        /\ journal.phase = "staging" /\ journal.staged_count < Len(plan.staging)
        /\ journal.backed_up_count = 0 /\ journal.published_count = 0
  /\ journal.checkpoint = "staging-done" =>
        /\ journal.phase = "staging" /\ journal.staged_count \in 1..Len(plan.staging)
        /\ journal.backed_up_count = 0 /\ journal.published_count = 0
  /\ journal.checkpoint = "backup-pending" =>
        /\ journal.phase = "backing-up" /\ journal.staged_count = Len(plan.staging)
        /\ journal.backed_up_count < Len(plan.backups)
        /\ journal.published_count = 0
  /\ journal.checkpoint = "backup-done" =>
        /\ journal.phase = "backing-up" /\ journal.staged_count = Len(plan.staging)
        /\ journal.published_count = 0
  /\ journal.checkpoint = "planned" => Prepared /\ journal.published_count = 0
  /\ journal.checkpoint \in {"publication-pending", "publication-done",
                             "verification-pending", "verification-done"} => Prepared
  /\ journal.checkpoint = "publication-pending" =>
        /\ journal.published_count < Len(plan.publication)
        /\ journal.mutation = plan.publication[journal.published_count + 1]
  /\ journal.checkpoint \in {"verification-pending", "verification-done"} =>
        /\ journal.phase = "verifying" /\ journal.mutation = "none"
        /\ journal.published_count = Len(plan.publication)

(* The table gives those counts in every legal state.                        *)
LEMMA ForwardTable == Inv /\ JournalLegal => Counts
<1> SUFFICES ASSUME Inv, JournalLegal, journal.checkpoint \in ForwardCheckpoints
             PROVE  Counts
  BY DEF ForwardCheckpoints, Counts
<1>1. LegalForward
  BY ForwardState
<1> QED BY <1>1 DEF LegalForward, NamesNext, Counts

(* A rewrite that stays in the forward phases is legal when the counts and   *)
(* the pending item fit its phase.                                           *)
LEMMA ForwardRewrite ==
  ASSUME journal'.phase \in ForwardPhases, Forward', LegalForward',
         (journal.directory_stage => PublicationPending)',
         journal'.removed = {}, ~journal'.root_restored,
         (journal.backed_up_count > 0 => journal.staged_count = Len(plan.staging))',
         (journal.published_count > 0 => Prepared)'
  PROVE  JournalLegal'
BY DEF JournalLegal, ForwardPhases

(* The writer and the recovery record a publication with the same rewrite.   *)
LEMMA PublicationIsLegal ==
  ASSUME Inv, JournalLegal, journal.phase = "publishing",
         journal.checkpoint = "publication-pending", plan' = plan,
         journal' = [journal EXCEPT !.published_count = @ + 1,
                                    !.checkpoint = "publication-done",
                                    !.directory_stage = FALSE]
  PROVE  JournalLegal'
<1>t. journal \in JournalType /\ WellFormed(plan)
  BY PlansAssumption DEF Inv, TypeOK
<1>1. /\ Len(plan.publication) \in Nat /\ journal.published_count \in Nat
  BY <1>t DEF WellFormed, JournalType
<1>2. /\ journal'.phase = "publishing" /\ journal'.checkpoint = "publication-done"
      /\ journal'.mutation = journal.mutation
      /\ journal'.published_count = journal.published_count + 1
      /\ ~journal'.directory_stage
      /\ journal'.committed = journal.committed
      /\ journal'.recovery_mode = journal.recovery_mode
      /\ journal'.outcome = journal.outcome
      /\ journal'.rolled_back = journal.rolled_back
      /\ journal'.completion_started = journal.completion_started
      /\ journal'.completion_recorded = journal.completion_recorded
      /\ journal'.removed = journal.removed
      /\ journal'.root_restored = journal.root_restored
      /\ journal'.staged_count = journal.staged_count
      /\ journal'.backed_up_count = journal.backed_up_count
  BY <1>t DEF JournalType
<1>3. /\ Forward /\ journal.removed = {} /\ ~journal.root_restored
      /\ Prepared /\ journal.published_count < Len(plan.publication)
      /\ journal.mutation = plan.publication[journal.published_count + 1]
  BY ForwardState, ForwardTable DEF Counts, ForwardCheckpoints
<1>4. Forward' /\ Prepared'
  BY <1>2, <1>3 DEF Forward, Uncommitted, NoCompletion, Prepared
<1>5. LegalForward'
  BY <1>1, <1>2, <1>3, <1>4 DEF LegalForward, NamesNext
<1> QED BY <1>2, <1>3, <1>4, <1>5, ForwardRewrite DEF ForwardPhases, Prepared

(* A legal journal that is left alone stays legal.                           *)
LEMMA LegalStutter == JournalLegal /\ UNCHANGED << plan, journal >> => JournalLegal'
BY DEF JournalLegal, Forward, LegalForward, LegalCommitted, LegalRollback, LegalTerminal,
   LegalCleanup, NamesNext, Uncommitted, NoCompletion, Prepared, RootRestoreNeeded,
   Published, RollbackNext, CleanupOrder, PublicationPending

(* The writer only writes legal journals.                                    *)
LEMMA LegalWriter == Inv /\ JournalLegal /\ WriterStep => JournalLegal'
<1> SUFFICES ASSUME Inv, JournalLegal, WriterStep PROVE JournalLegal'
  OBVIOUS
<1>t. /\ journal \in JournalType /\ WellFormed(plan) /\ plan' = plan
  BY PlansAssumption, PlanKept DEF Inv, TypeOK, Next
<1>l. /\ Len(plan.staging) \in Nat \ {0} /\ Len(plan.backups) \in Nat \ {0}
      /\ Len(plan.publication) \in Nat \ {0}
      /\ journal.staged_count \in Nat /\ journal.backed_up_count \in Nat
      /\ journal.published_count \in Nat
  BY <1>t DEF WellFormed, JournalType
<1>c. Counts
  BY ForwardTable
<1>f. journal.checkpoint \in ForwardCheckpoints =>
        /\ Forward /\ journal.removed = {} /\ ~journal.root_restored
        /\ journal.directory_stage => PublicationPending
  BY ForwardState DEF Inv, PhaseInv
(* What every rewrite of the forward phases leaves alone.                    *)
<1> DEFINE Kept ==
      /\ journal'.committed = journal.committed
      /\ journal'.recovery_mode = journal.recovery_mode
      /\ journal'.outcome = journal.outcome
      /\ journal'.rolled_back = journal.rolled_back
      /\ journal'.completion_started = journal.completion_started
      /\ journal'.completion_recorded = journal.completion_recorded
      /\ journal'.removed = journal.removed
      /\ journal'.root_restored = journal.root_restored
      /\ journal.checkpoint \in ForwardCheckpoints
<1>k. Kept => Forward' /\ journal'.removed = {} /\ ~journal'.root_restored
  BY <1>f DEF Forward, Uncommitted, NoCompletion
<1>1. CASE record_staging
  <2>1. /\ Kept /\ journal.checkpoint = "staging-pending"
        /\ journal'.phase = journal.phase /\ journal'.checkpoint = "staging-done"
        /\ journal'.mutation = journal.mutation
        /\ journal'.staged_count = journal.staged_count + 1
        /\ journal'.backed_up_count = journal.backed_up_count
        /\ journal'.published_count = journal.published_count
        /\ journal'.directory_stage = journal.directory_stage
    BY <1>1, <1>t DEF record_staging, Writing, JournalType, ForwardCheckpoints
  <2>2. journal.mutation = plan.staging[journal.staged_count + 1]
    BY <2>1, <1>f, ForwardState DEF LegalForward, NamesNext, ForwardCheckpoints
  <2>3. LegalForward'
    BY <2>1, <2>2, <1>c, <1>l, <1>t DEF Counts, LegalForward, NamesNext
  <2>4. ~journal'.directory_stage
    BY <2>1, <1>f DEF PublicationPending
  <2> QED BY <2>1, <2>3, <2>4, <1>k, <1>c, ForwardRewrite DEF Counts, ForwardPhases
<1>2. CASE begin_staging
  <2>1. /\ Kept /\ journal.checkpoint = "staging-done"
        /\ journal'.phase = journal.phase /\ journal'.checkpoint = "staging-pending"
        /\ journal'.mutation = plan.staging[journal.staged_count + 1]
        /\ journal'.staged_count = journal.staged_count
        /\ journal'.staged_count < Len(plan.staging)
        /\ journal'.backed_up_count = journal.backed_up_count
        /\ journal'.published_count = journal.published_count
        /\ journal'.directory_stage = journal.directory_stage
    BY <1>2, <1>t DEF begin_staging, Writing, JournalType, ForwardCheckpoints
  <2>3. LegalForward'
    BY <2>1, <1>c, <1>l, <1>t DEF Counts, LegalForward, NamesNext
  <2>4. ~journal'.directory_stage
    BY <2>1, <1>f DEF PublicationPending
  <2> QED BY <2>1, <2>3, <2>4, <1>k, <1>c, ForwardRewrite DEF Counts, ForwardPhases
<1>3. CASE begin_backup
  <2>1. /\ Kept /\ journal.checkpoint \in {"staging-done", "backup-done"}
        /\ journal'.phase = "backing-up" /\ journal'.checkpoint = "backup-pending"
        /\ journal'.mutation = plan.backups[journal.backed_up_count + 1]
        /\ journal'.staged_count = journal.staged_count
        /\ journal'.backed_up_count = journal.backed_up_count
        /\ journal'.backed_up_count < Len(plan.backups)
        /\ journal'.published_count = journal.published_count
        /\ journal'.directory_stage = journal.directory_stage
        /\ journal.checkpoint = "staging-done"
              => journal.staged_count = Len(plan.staging)
    BY <1>3, <1>t DEF begin_backup, Writing, JournalType, ForwardCheckpoints
  <2>2. journal'.staged_count = Len(plan.staging) /\ journal'.published_count = 0
    BY <2>1, <1>c DEF Counts
  <2>3. LegalForward'
    BY <2>1, <2>2, <1>l, <1>t DEF LegalForward, NamesNext
  <2>4. ~journal'.directory_stage
    BY <2>1, <1>f DEF PublicationPending, ForwardCheckpoints
  <2> QED BY <2>1, <2>2, <2>3, <2>4, <1>k, <1>t, ForwardRewrite DEF ForwardPhases
<1>4. CASE record_backup
  <2>1. /\ Kept /\ journal.checkpoint = "backup-pending"
        /\ journal'.phase = journal.phase /\ journal'.checkpoint = "backup-done"
        /\ journal'.mutation = journal.mutation
        /\ journal'.staged_count = journal.staged_count
        /\ journal'.backed_up_count = journal.backed_up_count + 1
        /\ journal'.published_count = journal.published_count
        /\ journal'.directory_stage = journal.directory_stage
    BY <1>4, <1>t DEF record_backup, Writing, JournalType, ForwardCheckpoints
  <2>2. journal.mutation = plan.backups[journal.backed_up_count + 1]
    BY <2>1, <1>f, ForwardState DEF LegalForward, NamesNext, ForwardCheckpoints
  <2>3. LegalForward'
    BY <2>1, <2>2, <1>c, <1>l, <1>t DEF Counts, LegalForward, NamesNext
  <2>4. ~journal'.directory_stage
    BY <2>1, <1>f DEF PublicationPending
  <2> QED BY <2>1, <2>3, <2>4, <1>k, <1>c, <1>t, ForwardRewrite DEF Counts, ForwardPhases
<1>5. CASE finish_preparation \/ begin_publication
  <2>1. /\ Kept
        /\ journal.checkpoint \in {"backup-done", "planned", "publication-done"}
        /\ \/ /\ journal'.phase = "planned" /\ journal'.checkpoint = "planned"
              /\ journal'.mutation = "none" /\ Prepared
              /\ journal.checkpoint = "backup-done"
           \/ /\ journal'.phase = "publishing"
              /\ journal'.checkpoint = "publication-pending"
              /\ journal'.mutation = plan.publication[journal.published_count + 1]
              /\ journal.published_count < Len(plan.publication)
              /\ journal.checkpoint \in {"planned", "publication-done"}
        /\ journal'.staged_count = journal.staged_count
        /\ journal'.backed_up_count = journal.backed_up_count
        /\ journal'.published_count = journal.published_count
        /\ journal'.directory_stage = journal.directory_stage
    BY <1>5, <1>t DEF finish_preparation, begin_publication, Writing, JournalType,
       ForwardCheckpoints
  <2>2. Prepared' /\ ~journal'.directory_stage
    BY <2>1, <1>c, <1>f, <1>t DEF Counts, Prepared, PublicationPending
  <2>3. LegalForward'
    BY <2>1, <2>2, <1>c, <1>l, <1>t DEF Counts, LegalForward, NamesNext
  <2> QED BY <2>1, <2>2, <2>3, <1>k, <1>t, ForwardRewrite DEF Prepared, ForwardPhases
<1>6. ASSUME NEW k \in Keys, RecordDirectoryStage(k) PROVE JournalLegal'
  <2>1. /\ Kept /\ journal.checkpoint = "publication-pending"
        /\ journal'.phase = journal.phase /\ journal'.checkpoint = journal.checkpoint
        /\ journal'.mutation = journal.mutation
        /\ journal'.staged_count = journal.staged_count
        /\ journal'.backed_up_count = journal.backed_up_count
        /\ journal'.published_count = journal.published_count
        /\ journal.phase = "publishing"
    BY <1>6, <1>t DEF RecordDirectoryStage, Publishing, Writing, JournalType,
       ForwardCheckpoints, Inv, PhaseInv
  <2>2. PublicationPending' /\ Prepared'
    BY <2>1, <1>c, <1>t DEF Counts, Prepared, PublicationPending
  <2>3. LegalForward'
    BY <2>1, <2>2, <1>c, <1>t DEF Counts, LegalForward, NamesNext
  <2> QED BY <2>1, <2>2, <2>3, <1>k, <1>t, ForwardRewrite DEF Prepared, ForwardPhases
<1>7. ASSUME NEW k \in Keys, record_publication(k) PROVE JournalLegal'
  <2>1. journal.phase = "publishing" /\ journal.checkpoint = "publication-pending"
    BY <1>7 DEF record_publication, Publishing, Writing, Inv, PhaseInv
  <2> QED BY <2>1, <1>7, PublicationIsLegal DEF record_publication, RewriteOnly
<1>8. CASE begin_verification \/ finish_verification
  <2>1. /\ Kept
        /\ journal.checkpoint \in {"publication-done", "verification-pending"}
        /\ journal'.checkpoint \in {"verification-pending", "verification-done"}
        /\ journal.checkpoint = "publication-done" =>
              /\ journal'.phase = "verifying" /\ journal'.mutation = "none"
              /\ journal.published_count = Len(plan.publication)
        /\ journal.checkpoint = "verification-pending" =>
              journal'.phase = journal.phase /\ journal'.mutation = journal.mutation
        /\ journal'.staged_count = journal.staged_count
        /\ journal'.backed_up_count = journal.backed_up_count
        /\ journal'.published_count = journal.published_count
        /\ journal'.directory_stage = journal.directory_stage
    BY <1>8, <1>t DEF begin_verification, finish_verification, Writing, JournalType,
       ForwardCheckpoints
  <2>2. /\ Prepared' /\ ~journal'.directory_stage
        /\ journal'.phase = "verifying" /\ journal'.mutation = "none"
        /\ journal'.published_count = Len(plan'.publication)
    BY <2>1, <1>c, <1>f, <1>t DEF Counts, Prepared, PublicationPending
  <2>3. LegalForward'
    BY <2>1, <2>2 DEF LegalForward
  <2> QED BY <2>1, <2>2, <2>3, <1>k, <1>t, ForwardRewrite DEF Prepared, ForwardPhases
<1>9. CASE commit
  <2>1. journal.checkpoint = "verification-done"
    BY <1>9 DEF commit, Writing
  <2>2. /\ Forward /\ journal.removed = {} /\ ~journal.root_restored
        /\ ~journal.directory_stage /\ Prepared
        /\ journal.published_count = Len(plan.publication)
    BY <2>1, <1>f, <1>c DEF Counts, ForwardCheckpoints, PublicationPending
  <2>3. /\ journal'.phase = "committed" /\ journal'.checkpoint = "commit-done"
        /\ journal'.mutation = "none" /\ journal'.committed
        /\ journal'.recovery_mode = "cleanup-only" /\ journal'.outcome = "succeeded"
        /\ journal'.rolled_back = journal.rolled_back
        /\ journal'.completion_started = journal.completion_started
        /\ journal'.completion_recorded = journal.completion_recorded
        /\ journal'.removed = journal.removed
        /\ journal'.root_restored = journal.root_restored
        /\ journal'.staged_count = journal.staged_count
        /\ journal'.backed_up_count = journal.backed_up_count
        /\ journal'.published_count = journal.published_count
        /\ journal'.directory_stage = journal.directory_stage
    BY <1>9, <1>t DEF commit, JournalType
  <2>4. LegalCommitted' /\ journal'.rolled_back = {}
    BY <2>2, <2>3, <1>t DEF LegalCommitted, Forward, NoCompletion, Prepared
  <2> QED BY <2>2, <2>3, <2>4, <1>t DEF JournalLegal, Prepared
<1>10. CASE UNCHANGED journal
  BY <1>10, <1>t, LegalStutter
<1> QED
  BY <1>1, <1>2, <1>3, <1>4, <1>5, <1>6, <1>7, <1>8, <1>9, <1>10 DEF WriterStep, StageFile,
     CopyBackup, StageDirectory, PublishNew, ExchangeNew, UnlinkDisplaced, WriterReturns

------------------------------------------------------------------------------
(* The rolled back keys stay a prefix of the rollback order.                 *)
LEMMA OrderInit == Init => OrderInv
<1> SUFFICES ASSUME Init PROVE OrderInv
  OBVIOUS
<1>1. /\ journal.rolled_back = {} /\ journal.phase = "staging" /\ ~completion
      /\ ~journal.completion_started /\ ~journal.completion_recorded
  BY DEF Init, InitialJournal
<1> QED BY <1>1 DEF OrderInv, RollbackPending

(* Before the first rollback there is nothing to order.                      *)
LEMMA NothingRolledBack ==
  ASSUME journal.rolled_back = {}, ~RollbackPending, ~completion,
         ~journal.completion_started, ~journal.completion_recorded
  PROVE  OrderInv
BY DEF OrderInv

(* Steps that neither publish nor roll back nor announce a rollback.         *)
LEMMA OrderKept ==
  ASSUME OrderInv, plan' = plan, journal'.published_count = journal.published_count,
         journal'.rolled_back = journal.rolled_back,
         RollbackPending' => RollbackPending /\ journal'.mutation = journal.mutation,
         journal'.completion_started =>
            \/ journal'.phase \in CleanupPhases
            \/ journal'.checkpoint \in CompletionCheckpoints,
         completion' \/ journal'.completion_recorded => journal'.completion_started
  PROVE  OrderInv'
<1>1. Published' = Published
  BY DEF Published
<1>2. RollbackPending' => RollbackNext(journal.mutation)'
  BY <1>1 DEF OrderInv, RollbackNext
<1> QED BY <1>1, <1>2 DEF OrderInv

(* Steps that leave the journal and the retained record alone.               *)
LEMMA OrderStutter ==
  OrderInv /\ UNCHANGED << plan, journal, completion >> => OrderInv'
<1> SUFFICES ASSUME OrderInv, UNCHANGED << plan, journal, completion >> PROVE OrderInv'
  OBVIOUS
<1>1. RollbackPending' => RollbackPending
  BY DEF RollbackPending
<1> QED BY <1>1, OrderKept DEF OrderInv

(* The writer rolls nothing back.                                            *)
LEMMA OrderWriter == Inv /\ JournalLegal /\ OrderInv /\ WriterStep => OrderInv'
<1> SUFFICES ASSUME Inv, JournalLegal, OrderInv, WriterStep PROVE OrderInv'
  OBVIOUS
<1>t. journal \in JournalType
  BY DEF Inv, TypeOK
<1>1. CASE UNCHANGED << journal, disk >>
  BY <1>1, PlanKept, OrderStutter DEF disk, Next
<1>2. CASE journal.phase \in ForwardPhases
  <2>1. /\ journal'.phase \in ForwardPhases \cup {"committed"}
        /\ journal'.rolled_back = journal.rolled_back
        /\ journal'.completion_started = journal.completion_started
        /\ journal'.completion_recorded = journal.completion_recorded
        /\ completion' = completion
    BY ZenonT(60), <1>2, <1>t DEF JournalType, Writing, Publishing, ForwardPhases,
       RewriteOnly, disk, ForwardBoundary, WriterStep, StageFile, record_staging,
       begin_staging, begin_backup, CopyBackup, record_backup, finish_preparation,
       begin_publication, StageDirectory, RecordDirectoryStage, PublishNew, ExchangeNew,
       UnlinkDisplaced, record_publication, begin_verification, finish_verification,
       commit, WriterReturns
  <2>2. /\ Forward /\ ~completion
    BY <1>2 DEF JournalLegal, ForwardPhases, Inv, PhaseInv
  <2>3. ~RollbackPending'
    BY <2>1 DEF RollbackPending, ForwardPhases
  <2> QED BY <2>1, <2>2, <2>3 DEF OrderInv, Forward, NoCompletion
<1> QED BY <1>1, <1>2, WriterIsForward

(* A published key out of its turn is never chosen, so whatever follows the  *)
(* key whose turn it is has not been rolled back.                            *)
LEMMA TurnIsLast ==
  ASSUME OrderInv, NEW i \in DOMAIN plan.rollback,
         plan.rollback[i] \in Published \ journal.rolled_back,
         NEW h \in DOMAIN plan.rollback, h > i
  PROVE  plan.rollback[h] \notin journal.rolled_back
BY DEF OrderInv

(* Recovery rolls keys back one at a time, each in its turn.                 *)
LEMMA OrderRecovery ==
  Inv /\ ProgressInv /\ JournalLegal /\ OrderInv /\ RecoveryStep => OrderInv'
<1> SUFFICES ASSUME Inv, ProgressInv, JournalLegal, OrderInv, RecoveryStep
             PROVE  OrderInv'
  OBVIOUS
<1>t. /\ journal \in JournalType /\ WellFormed(plan) /\ plan' = plan
  BY PlansAssumption, PlanKept DEF Inv, TypeOK, Next
<1>s. Uncommitable /\ journal.rolled_back # Published =>
         /\ ~journal.completion_started /\ ~completion /\ ~journal.completion_recorded
  BY DEF Uncommitable, OrderInv, ProgressInv, CleanupPhases
<1>1. CASE ReconcilePublication
  <2>1. journal.phase = "publishing" /\ Forward /\ ~completion
    BY <1>1 DEF ReconcilePublication, PublicationApplied, PublicationPending, JournalLegal,
       Inv, PhaseInv, ForwardPhases
  <2>2. /\ journal'.phase = "publishing" /\ journal'.rolled_back = journal.rolled_back
        /\ journal'.completion_started = journal.completion_started
        /\ journal'.completion_recorded = journal.completion_recorded
        /\ completion' = completion
    BY <1>1, <2>1, <1>t DEF ReconcilePublication, RewriteOnly, disk, JournalType
  <2> QED BY <2>1, <2>2 DEF OrderInv, Forward, NoCompletion, RollbackPending
<1>2. CASE ForgetDirectoryStage
  <2>1. journal' = [journal EXCEPT !.directory_stage = FALSE] /\ completion' = completion
    BY <1>2 DEF ForgetDirectoryStage, RewriteOnly, disk
  <2>2. /\ journal'.published_count = journal.published_count
        /\ journal'.rolled_back = journal.rolled_back
        /\ journal'.phase = journal.phase /\ journal'.checkpoint = journal.checkpoint
        /\ journal'.mutation = journal.mutation
        /\ journal'.completion_started = journal.completion_started
        /\ journal'.completion_recorded = journal.completion_recorded
    BY <2>1, <1>t DEF JournalType
  <2> QED BY <2>1, <2>2, <1>t, OrderKept DEF OrderInv, RollbackPending
<1>3. ASSUME NEW k \in Keys, SetRollbackPending(k) PROVE OrderInv'
  <2>1. /\ journal'.phase = "rolling-back" /\ journal'.mutation = k
        /\ journal'.published_count = journal.published_count
        /\ journal'.rolled_back = journal.rolled_back
        /\ journal'.completion_started = journal.completion_started
        /\ journal'.completion_recorded = journal.completion_recorded
        /\ completion' = completion /\ Uncommitable /\ RollbackNext(k)
    BY <1>3, <1>t DEF SetRollbackPending, RewriteOnly, disk, JournalType
  <2>2. journal.rolled_back # Published
    BY <2>1 DEF RollbackNext
  <2>3. RollbackNext(k)' /\ Published' = Published
    BY <2>1, <1>t DEF RollbackNext, Published
  <2> QED BY <2>1, <2>2, <2>3, <1>s, <1>t DEF OrderInv
<1>4. ASSUME NEW k \in Keys, record_rollback(k) PROVE OrderInv'
  <2>1. /\ journal.phase = "rolling-back" /\ journal.checkpoint = "rollback-pending"
        /\ journal.mutation = k /\ RollbackPending
        /\ journal'.checkpoint = "rollback-done"
        /\ journal'.published_count = journal.published_count
        /\ journal'.rolled_back = journal.rolled_back \cup {k}
        /\ journal'.completion_started = journal.completion_started
        /\ journal'.completion_recorded = journal.completion_recorded
        /\ completion' = completion
    BY <1>4, <1>t DEF record_rollback, RollingBack, RollbackPending, RewriteOnly, disk,
       JournalType
  <2>2. ~journal.completion_started
    BY <2>1 DEF OrderInv, CleanupPhases, CompletionCheckpoints
  <2>3. PICK i0 \in DOMAIN plan.rollback :
           /\ plan.rollback[i0] = k
           /\ \A h \in 1..(i0 - 1) : plan.rollback[h] \notin Published \ journal.rolled_back
    BY <2>1 DEF OrderInv, RollbackNext
  <2>4. Published' = Published
    BY <2>1, <1>t DEF Published
  <2>5. ASSUME NEW i \in DOMAIN plan.rollback, NEW j \in DOMAIN plan.rollback, j < i,
               plan.rollback[i] \in journal.rolled_back \cup {k},
               plan.rollback[j] \in Published
        PROVE  plan.rollback[j] \in journal.rolled_back
    <3>1. CASE plan.rollback[i] \in journal.rolled_back
      BY <2>5, <3>1 DEF OrderInv
    <3>2. CASE plan.rollback[i] = k
      <4>1. i = i0
        BY <3>2, <2>3, <1>t DEF WellFormed, IsInjective
      <4>2. j \in 1..(i0 - 1)
        BY <4>1, <2>5, <1>t DEF WellFormed
      <4> QED BY <4>2, <2>3, <2>5
    <3> QED BY <2>5, <3>1, <3>2
  <2> QED BY <2>1, <2>2, <2>4, <2>5, <1>t DEF OrderInv, RollbackPending
(* The steps of completion and cleanup announce no rollback.                 *)
<1> DEFINE Rewritten ==
      /\ journal'.published_count = journal.published_count
      /\ journal'.checkpoint # "rollback-pending"
      /\ completion' = completion
<1>5. CASE BeginRootRestore \/ RecordRootRestored
  <2>1. /\ Rewritten /\ journal'.rolled_back = journal.rolled_back
        /\ journal'.completion_started = journal.completion_started
        /\ journal'.completion_recorded = journal.completion_recorded
        /\ \/ Uncommitable /\ RootRestoreDue
           \/ At("rolling-back", "archive-root-restore-pending")
    BY <1>5, <1>t DEF BeginRootRestore, RecordRootRestored, RewriteOnly, disk, JournalType
  <2>2. ~journal.completion_started
    BY <2>1 DEF OrderInv, Uncommitable, ProgressInv, CompletionCheckpoints,
       CleanupPhases, At
  <2> QED BY <2>1, <2>2, <1>t, OrderKept DEF OrderInv, RollbackPending
<1>6. CASE BeginCompletion \/ RecordCompletion \/ BeginEvidenceClear
  <2>1. /\ Rewritten /\ journal'.rolled_back = journal.rolled_back
        /\ journal'.checkpoint \in CompletionCheckpoints
        /\ journal'.completion_started
    BY <1>6, <1>t DEF BeginCompletion, RecordCompletion, BeginEvidenceClear, RewriteOnly,
       disk, JournalType, CompletionCheckpoints, OrderInv
  <2> QED BY <2>1, <1>t, OrderKept DEF RollbackPending
<1>7. CASE WriteCompletion
  <2>1. journal' = journal /\ journal.completion_started
    BY <1>7 DEF WriteCompletion
  <2> QED BY <2>1, <1>t, OrderKept DEF OrderInv, RollbackPending
<1>8. CASE EnterFailedCleanup
  <2>1. /\ journal'.phase = "cleaning-up" /\ journal'.rolled_back = {}
        /\ journal'.completion_started = journal.completion_started
        /\ journal'.completion_recorded = journal.completion_recorded
        /\ completion' = completion
    BY <1>8, <1>t DEF EnterFailedCleanup, RewriteOnly, disk, JournalType
  <2> QED BY <2>1 DEF OrderInv, RollbackPending, CleanupPhases
<1>9. CASE StartCleanup \/ NextCleanup \/ RemoveJournal
           \/ \E step \in CleanupSteps : record_cleanup(step)
  <2>1. /\ Rewritten /\ journal'.rolled_back = journal.rolled_back
        /\ journal'.phase \in CleanupPhases
        /\ journal'.completion_started = journal.completion_started
        /\ journal'.completion_recorded = journal.completion_recorded
    <3>1. CASE StartCleanup
      BY <3>1, <1>t DEF StartCleanup, RewriteOnly, disk, JournalType, CleanupPhases
    <3>2. CASE NextCleanup
      BY <3>2, <1>t DEF NextCleanup, At, RewriteOnly, disk, JournalType, CleanupPhases
    <3>3. CASE RemoveJournal
      BY <3>3, <1>t DEF RemoveJournal, disk, JournalType, CleanupPhases, Inv, PhaseInv,
         CleanupCheckpoints
    <3>4. ASSUME NEW step \in CleanupSteps, record_cleanup(step)
          PROVE  /\ Rewritten /\ journal'.rolled_back = journal.rolled_back
                 /\ journal'.phase \in CleanupPhases
                 /\ journal'.completion_started = journal.completion_started
                 /\ journal'.completion_recorded = journal.completion_recorded
      BY <3>4, <1>t DEF record_cleanup, CleanupPending, At, RewriteOnly, disk, JournalType,
         CleanupPhases
    <3> QED BY <1>9, <3>1, <3>2, <3>3, <3>4
  <2> QED BY <2>1, <1>t, OrderKept DEF OrderInv, RollbackPending
<1>10. CASE UNCHANGED << journal, completion >>
  BY <1>10, <1>t, OrderStutter
<1> QED
  BY <1>1, <1>2, <1>3, <1>4, <1>5, <1>6, <1>7, <1>8, <1>9, <1>10
     DEF RecoveryStep, DiscardDirectoryStage, RollbackRemove, RollbackExchange,
     RollbackUnlinkDisplaced, RestoreArchiveRoot, UnlinkMarker, EmptyStage, EmptyBackup,
     RemoveRoot, WriteTerminal

------------------------------------------------------------------------------
(* The rollback half of the table.                                           *)

(* Nothing that follows the archive directory has been rolled back yet.      *)
Boundary ==
  /\ "archive_dir" \in journal.rolled_back
  /\ \A k \in journal.rolled_back : k \notin ServiceContainers \cup {"archive_root"}

(* A rewrite that stays in rollback is legal when it fits its checkpoint.    *)
LEMMA RollbackRewrite ==
  ASSUME journal'.phase = "rolling-back", LegalRollback', ~journal'.directory_stage,
         journal'.removed = {},
         (journal.root_restored => RootRestoreNeeded /\ ~journal.committed)',
         (journal.backed_up_count > 0 => journal.staged_count = Len(plan.staging))',
         (journal.published_count > 0 => Prepared)'
  PROVE  JournalLegal'
BY DEF JournalLegal

(* What a journal that may still be rolled back says.                        *)
LEMMA RollbackState ==
  ASSUME Inv, JournalLegal, Uncommitable
  PROVE  /\ Uncommitted /\ journal.removed = {} /\ ~journal.directory_stage
         /\ journal.phase # "rolling-back" => Forward /\ ~journal.root_restored
         /\ journal.phase = "rolling-back" => LegalRollback
         /\ journal.root_restored => RootRestoreNeeded
         /\ journal.root_restored => "archive_dir" \in journal.rolled_back
<1>1. /\ journal.phase # "rolling-back" => Forward /\ ~journal.root_restored
      /\ journal.phase = "rolling-back" => LegalRollback
      /\ journal.removed = {} /\ ~journal.directory_stage
      /\ journal.root_restored => RootRestoreNeeded
  BY DEF Uncommitable, JournalLegal
<1>2. Uncommitted
  BY <1>1 DEF Forward, LegalRollback
<1>3. ASSUME journal.root_restored PROVE "archive_dir" \in journal.rolled_back
  <2>1. LegalRollback /\ RootRestoreNeeded
    BY <1>1, <1>3
  <2> QED BY <2>1, <1>3 DEF LegalRollback, RootRestoreNeeded
<1> QED BY <1>1, <1>2, <1>3

(* Only planned objects are published.                                       *)
LEMMA PublishedPlanned == Inv /\ ProgressInv => Published \subseteq Planned
<1> SUFFICES ASSUME Inv, ProgressInv PROVE Published \subseteq Planned
  OBVIOUS
<1>1. /\ plan.publication \in Seq(Keys) /\ journal.published_count \in Nat
      /\ journal.published_count <= Len(plan.publication)
  BY PlansAssumption DEF Inv, TypeOK, WellFormed, JournalType, ProgressInv
<1> QED BY <1>1, PrefixSubset DEF Published, Planned

(* With an archive root to restore, what is rolled back after the archive    *)
(* directory is exactly the service directories and the archive root.        *)
LEMMA AfterArchive ==
  ASSUME Inv, RootRestoreNeeded
  PROVE  \E d \in DOMAIN plan.rollback :
            /\ plan.rollback[d] = "archive_dir"
            /\ \A j \in DOMAIN plan.rollback :
                  j > d <=> plan.rollback[j] \in ServiceContainers \cup {"archive_root"}
<1>1. WellFormed(plan) /\ Nested(plan) /\ journal \in JournalType
  BY PlansAssumption, OrdersAssumption DEF Inv, TypeOK
<1>2. "archive_dir" \in Range(plan.rollback)
  BY <1>1 DEF RootRestoreNeeded, WellFormed
<1>3. PICK d \in DOMAIN plan.rollback : plan.rollback[d] = "archive_dir"
  BY <1>2 DEF Range
<1> QED BY <1>1, <1>3 DEF Nested, RootRestoreNeeded

(* A rollback is recorded: the key is the last one rolled back, and the      *)
(* archive root awaits its restoration exactly when the key was the archive  *)
(* directory.                                                                *)
LEMMA RecordedRollback ==
  ASSUME Inv, ProgressInv, JournalLegal, OrderInv, RollbackPending,
         NEW k \in Keys, journal.mutation = k, plan' = plan,
         journal' = [journal EXCEPT !.rolled_back = @ \cup {k},
                                    !.checkpoint = "rollback-done"]
  PROVE  JournalLegal'
<1>t. journal \in JournalType /\ WellFormed(plan)
  BY PlansAssumption DEF Inv, TypeOK
<1>1. /\ journal'.phase = "rolling-back" /\ journal'.checkpoint = "rollback-done"
      /\ journal'.mutation = k
      /\ journal'.rolled_back = journal.rolled_back \cup {k}
      /\ journal'.committed = journal.committed
      /\ journal'.recovery_mode = journal.recovery_mode
      /\ journal'.outcome = journal.outcome
      /\ journal'.completion_started = journal.completion_started
      /\ journal'.completion_recorded = journal.completion_recorded
      /\ journal'.removed = journal.removed
      /\ journal'.root_restored = journal.root_restored
      /\ journal'.staged_count = journal.staged_count
      /\ journal'.backed_up_count = journal.backed_up_count
      /\ journal'.published_count = journal.published_count
      /\ journal'.directory_stage = journal.directory_stage
      /\ journal.phase = "rolling-back" /\ journal.checkpoint = "rollback-pending"
  BY <1>t DEF RollbackPending, JournalType
<1>2. /\ LegalRollback /\ NoCompletion /\ ~journal.directory_stage
      /\ journal.removed = {}
      /\ RootRestoreNeeded =>
            (journal.root_restored <=> "archive_dir" \in journal.rolled_back)
  BY <1>1 DEF JournalLegal, LegalRollback, PublicationPending
<1>3. PICK i \in DOMAIN plan.rollback :
         /\ plan.rollback[i] = k
         /\ k \in Published \ journal.rolled_back
         /\ \A h \in 1..(i - 1) : plan.rollback[h] \notin Published \ journal.rolled_back
  BY DEF OrderInv, RollbackNext
<1>4. \A h \in DOMAIN plan.rollback :
         h > i => plan.rollback[h] \notin journal.rolled_back \cup {k}
  BY <1>3, <1>t, TurnIsLast DEF WellFormed, IsInjective
<1>5. Published' = Published /\ RootRestoreNeeded' = RootRestoreNeeded
  BY <1>1 DEF Published, RootRestoreNeeded
<1>6. ASSUME RootRestoreNeeded
      PROVE  journal.root_restored <=> "archive_dir" \in journal'.rolled_back /\ ~Boundary'
  <2>1. PICK d \in DOMAIN plan.rollback :
           /\ plan.rollback[d] = "archive_dir"
           /\ \A j \in DOMAIN plan.rollback :
                 j > d <=> plan.rollback[j] \in ServiceContainers \cup {"archive_root"}
    BY <1>6, AfterArchive
  <2>2. "archive_dir" \in Published
    BY <1>6 DEF RootRestoreNeeded
  <2>3. CASE k = "archive_dir"
    <3>1. i = d
      BY <2>1, <2>3, <1>3, <1>t DEF WellFormed, IsInjective
    <3>2. ASSUME NEW c \in journal.rolled_back \cup {k}
          PROVE  c \notin ServiceContainers \cup {"archive_root"}
      <4>1. c \in Range(plan.rollback)
        <5>1. c \in Published
          BY <1>3 DEF ProgressInv
        <5> QED BY <5>1, <1>t, PublishedPlanned DEF WellFormed, Planned
      <4>2. PICK j \in DOMAIN plan.rollback : plan.rollback[j] = c
        BY <4>1 DEF Range
      <4>3. ~(j > d)
        BY <1>4, <3>1, <4>2
      <4> QED BY <2>1, <4>2, <4>3
    <3>3. Boundary'
      BY <1>1, <2>3, <3>2 DEF Boundary
    <3> QED BY <1>2, <1>3, <1>6, <2>3, <3>3
  <2>4. CASE k # "archive_dir" /\ "archive_dir" \in journal.rolled_back
    <3>1. d \in 1..(i - 1) \/ d = i \/ d > i
      BY <1>t DEF WellFormed
    <3>2. i > d
      BY <3>1, <1>4, <2>1, <2>4, <1>3, <1>t DEF WellFormed
    <3>3. k \in ServiceContainers \cup {"archive_root"}
      BY <3>2, <2>1, <1>3
    <3> QED BY <1>1, <1>2, <1>6, <2>4, <3>3 DEF Boundary
  <2>5. CASE k # "archive_dir" /\ "archive_dir" \notin journal.rolled_back
    BY <1>1, <1>2, <1>6, <2>5
  <2> QED BY <2>3, <2>4, <2>5
<1>7. LegalRollback'
  <2>1. \E g \in DOMAIN plan.rollback :
           /\ plan.rollback[g] = k
           /\ k \in journal'.rolled_back
           /\ \A h \in DOMAIN plan.rollback :
                 h > g => plan.rollback[h] \notin journal'.rolled_back
    BY <1>1, <1>3, <1>4
  <2>2. Uncommitted' /\ NoCompletion' /\ journal'.outcome = "failed-pre-commit"
    BY <1>1, <1>2 DEF LegalRollback, Uncommitted, NoCompletion
  <2> QED BY <1>1, <1>5, <1>6, <2>1, <2>2 DEF LegalRollback, Boundary
<1>8. Prepared' <=> Prepared
  BY <1>1 DEF Prepared
<1> QED BY <1>1, <1>2, <1>5, <1>7, <1>8, RollbackRewrite DEF JournalLegal

(* The cleanup steps, each of them once.                                     *)
LEMMA CleanupSequence ==
  /\ CleanupOrder \in Seq(CleanupSteps)
  /\ \A i, j \in DOMAIN CleanupOrder : CleanupOrder[i] = CleanupOrder[j] => i = j
<1>1. CASE CleanupOrder = << "archive-marker", "stage", "backup", "terminal" >>
  BY <1>1 DEF CleanupSteps
<1>2. CASE CleanupOrder = << "stage", "backup", "terminal" >>
  BY <1>2 DEF CleanupSteps
<1> QED BY <1>1, <1>2 DEF CleanupOrder

(* The cleanup table moves along CleanupOrder, one step at a time.           *)
LEMMA CleanupRewrite ==
  ASSUME journal'.phase \in {"cleaning-up", "terminal"}, LegalTerminal',
         ~journal'.directory_stage,
         (journal.root_restored => RootRestoreNeeded /\ ~journal.committed)',
         (journal.backed_up_count > 0 => journal.staged_count = Len(plan.staging))',
         (journal.published_count > 0 => Prepared)'
  PROVE  JournalLegal'
BY DEF JournalLegal

(* Recovery only writes legal journals.                                      *)
LEMMA LegalRecovery ==
  Inv /\ ProgressInv /\ JournalLegal /\ OrderInv /\ RecoveryStep => JournalLegal'
<1> SUFFICES ASSUME Inv, ProgressInv, JournalLegal, OrderInv, RecoveryStep
             PROVE  JournalLegal'
  OBVIOUS
<1>t. /\ journal \in JournalType /\ WellFormed(plan) /\ plan' = plan
  BY PlansAssumption, PlanKept DEF Inv, TypeOK, Next
(* What every rewrite of rollback and cleanup leaves alone.                  *)
<1> DEFINE Kept ==
      /\ journal'.committed = journal.committed
      /\ journal'.completion_recorded = journal.completion_recorded
      /\ journal'.removed = journal.removed
      /\ journal'.staged_count = journal.staged_count
      /\ journal'.backed_up_count = journal.backed_up_count
      /\ journal'.published_count = journal.published_count
      /\ journal'.directory_stage = journal.directory_stage
    RolledKept ==
      /\ journal'.recovery_mode = journal.recovery_mode
      /\ journal'.rolled_back = journal.rolled_back
<1>k. Kept => /\ Published' = Published /\ RootRestoreNeeded' = RootRestoreNeeded
              /\ Prepared' <=> Prepared
              /\ (journal.backed_up_count > 0
                     => journal.staged_count = Len(plan.staging))'
              /\ (journal.published_count > 0 => Prepared)'
  BY <1>t DEF Published, RootRestoreNeeded, Prepared, JournalLegal
<1>1. CASE ReconcilePublication
  <2>1. journal.phase = "publishing" /\ journal.checkpoint = "publication-pending"
    BY <1>1 DEF ReconcilePublication, PublicationApplied, PublicationPending
  <2> QED BY <1>1, <2>1, <1>t, PublicationIsLegal DEF ReconcilePublication
<1>2. CASE ForgetDirectoryStage
  <2>1. /\ journal' = [journal EXCEPT !.directory_stage = FALSE]
        /\ PublicationPending
    BY <1>2 DEF ForgetDirectoryStage, RewriteOnly, Inv, PhaseInv
  <2>2. /\ journal.phase = "publishing" /\ journal.checkpoint = "publication-pending"
        /\ Forward /\ journal.removed = {} /\ ~journal.root_restored /\ LegalForward
    BY <2>1, ForwardState DEF PublicationPending, ForwardCheckpoints
  <2>3. /\ Kept \/ ~journal'.directory_stage
        /\ journal'.phase = journal.phase /\ journal'.checkpoint = journal.checkpoint
        /\ journal'.mutation = journal.mutation /\ ~journal'.directory_stage
        /\ journal'.committed = journal.committed
        /\ journal'.outcome = journal.outcome
        /\ journal'.completion_started = journal.completion_started
        /\ journal'.completion_recorded = journal.completion_recorded
        /\ journal'.removed = journal.removed
        /\ journal'.root_restored = journal.root_restored
        /\ journal'.staged_count = journal.staged_count
        /\ journal'.backed_up_count = journal.backed_up_count
        /\ journal'.published_count = journal.published_count /\ RolledKept
    BY <2>1, <1>t DEF JournalType
  <2>4. Forward' /\ Prepared' /\ LegalForward'
    BY <2>2, <2>3, <1>t, ForwardTable DEF Forward, Uncommitted, NoCompletion, Prepared,
       LegalForward, NamesNext, Counts
  <2> QED BY <2>2, <2>3, <2>4, <1>t, ForwardRewrite DEF ForwardPhases, Prepared
<1>3. ASSUME NEW k \in Keys, SetRollbackPending(k) PROVE JournalLegal'
  <2>1. /\ Kept /\ RolledKept
        /\ journal'.phase = "rolling-back" /\ journal'.checkpoint = "rollback-pending"
        /\ journal'.mutation = k /\ journal'.outcome = "failed-pre-commit"
        /\ journal'.completion_started = journal.completion_started
        /\ journal'.root_restored = journal.root_restored
        /\ Uncommitable /\ ~RootRestoreDue /\ RollbackNext(k)
    BY <1>3, <1>t DEF SetRollbackPending, JournalType
  <2>2. /\ Uncommitted /\ journal.removed = {} /\ ~journal.directory_stage
        /\ journal.root_restored => RootRestoreNeeded
        /\ journal.root_restored => "archive_dir" \in journal.rolled_back
    BY <2>1, RollbackState
  <2>3. ~journal.completion_started /\ ~journal.completion_recorded
    <3>1. journal.rolled_back # Published
      BY <2>1 DEF RollbackNext
    <3> QED BY <2>1, <3>1 DEF OrderInv, ProgressInv, Uncommitable, CleanupPhases
  <2>4. RollbackNext(k)'
    BY <2>1, <1>k, <1>t DEF RollbackNext
  <2>5. RootRestoreNeeded =>
           (journal.root_restored <=> "archive_dir" \in journal.rolled_back)
    BY <2>1, <2>2 DEF RootRestoreDue
  <2>6. LegalRollback'
    BY <2>1, <2>2, <2>3, <2>4, <2>5, <1>k DEF LegalRollback, Uncommitted, NoCompletion
  <2> QED BY <2>1, <2>2, <2>6, <1>k, RollbackRewrite DEF Uncommitted
<1>4. ASSUME NEW k \in Keys, record_rollback(k) PROVE JournalLegal'
  BY <1>4, <1>t, RecordedRollback DEF record_rollback, RollingBack
<1>5. CASE BeginRootRestore
  <2>1. /\ Kept /\ RolledKept
        /\ journal'.phase = "rolling-back"
        /\ journal'.checkpoint = "archive-root-restore-pending"
        /\ journal'.mutation = "none" /\ journal'.outcome = "failed-pre-commit"
        /\ journal'.root_restored = journal.root_restored
        /\ Uncommitable /\ RootRestoreNeeded /\ ~journal.root_restored
        /\ "archive_dir" \in journal.rolled_back
        /\ journal.checkpoint # "archive-root-restore-pending"
    BY <1>5, <1>t DEF BeginRootRestore, RootRestoreDue, JournalType
  <2>2. /\ Uncommitted /\ journal.removed = {} /\ ~journal.directory_stage
        /\ journal.phase # "rolling-back" => Forward
        /\ journal.phase = "rolling-back" => LegalRollback
    BY <2>1, RollbackState
  <2>3. journal.phase = "rolling-back" /\ LegalRollback
    BY <2>1, <2>2 DEF Forward
  <2>4. Boundary
    BY <2>1, <2>3 DEF LegalRollback, Boundary
  <2>5. LegalRollback'
    BY <2>1, <2>2, <2>4, <1>k DEF LegalRollback, Boundary, Uncommitted
  <2> QED BY <2>1, <2>2, <2>5, <1>k, RollbackRewrite DEF Uncommitted
<1>6. CASE RecordRootRestored
  <2>1. /\ Kept /\ RolledKept
        /\ journal.phase = "rolling-back"
        /\ journal.checkpoint = "archive-root-restore-pending"
        /\ journal'.phase = "rolling-back"
        /\ journal'.checkpoint = "archive-root-restore-done"
        /\ journal'.mutation = journal.mutation /\ journal'.outcome = journal.outcome
        /\ journal'.root_restored
    BY <1>6, <1>t DEF RecordRootRestored, At, JournalType
  <2>2. LegalRollback /\ journal.removed = {} /\ ~journal.directory_stage
    BY <2>1 DEF JournalLegal, PublicationPending
  <2>3. RootRestoreNeeded /\ Boundary /\ journal.mutation = "none"
    BY <2>1, <2>2 DEF LegalRollback, Boundary
  <2>4. LegalRollback'
    BY <2>1, <2>2, <2>3, <1>k DEF LegalRollback, Boundary, Uncommitted
  <2> QED BY <2>1, <2>2, <2>3, <2>4, <1>k, RollbackRewrite DEF LegalRollback, Uncommitted
<1>7. CASE BeginCompletion \/ RecordCompletion \/ BeginEvidenceClear
  <2>1. /\ RollbackFinished /\ Uncommitable /\ journal.rolled_back = Published
        /\ ~RootRestoreDue
    BY <1>7 DEF BeginCompletion, RecordCompletion, BeginEvidenceClear, RollbackFinished
  <2>2. /\ Uncommitted /\ journal.removed = {} /\ ~journal.directory_stage
        /\ journal.phase # "rolling-back" => Forward
        /\ journal.phase = "rolling-back" => LegalRollback
        /\ journal.root_restored => RootRestoreNeeded
    BY <2>1, RollbackState
  <2>3. RootRestoreNeeded => journal.root_restored
    BY <2>1 DEF RootRestoreDue, RootRestoreNeeded
  <2>4. /\ RolledKept
        /\ journal'.committed = journal.committed
        /\ journal'.removed = journal.removed
        /\ journal'.staged_count = journal.staged_count
        /\ journal'.backed_up_count = journal.backed_up_count
        /\ journal'.published_count = journal.published_count
        /\ journal'.directory_stage = journal.directory_stage
        /\ journal'.root_restored = journal.root_restored
    BY <1>7, <1>t DEF BeginCompletion, RecordCompletion, BeginEvidenceClear, JournalType
  <2>5. /\ Published' = Published /\ RootRestoreNeeded' = RootRestoreNeeded
        /\ Prepared' <=> Prepared
    BY <2>4, <1>t DEF Published, RootRestoreNeeded, Prepared
  <2>6. /\ journal'.phase = "rolling-back" /\ journal'.mutation = "none"
        /\ journal'.outcome = "failed-pre-commit" /\ journal'.completion_started
        /\ journal'.checkpoint \in CompletionCheckpoints
        /\ journal'.completion_recorded <=>
              journal'.checkpoint # "rollback-completion-pending"
    <3>1. CASE BeginCompletion
      <4>1. ~journal.completion_recorded
        BY <3>1 DEF BeginCompletion, OrderInv
      <4> QED BY <3>1, <4>1, <1>t DEF BeginCompletion, JournalType, CompletionCheckpoints
    <3>2. CASE RecordCompletion \/ BeginEvidenceClear
      <4>1. journal.completion_started
        BY <3>2 DEF RecordCompletion, BeginEvidenceClear, OrderInv
      <4>2. journal.phase = "rolling-back" /\ LegalRollback
        BY <2>2, <4>1 DEF Forward, NoCompletion
      <4>3. journal.checkpoint \in CompletionCheckpoints
        BY <4>1, <4>2 DEF OrderInv, CleanupPhases
      <4>4. journal.mutation = "none" /\ journal.outcome = "failed-pre-commit"
        BY <4>2, <4>3 DEF LegalRollback, CompletionCheckpoints
      <4> QED BY <3>2, <4>1, <4>2, <4>4, <1>t DEF RecordCompletion, BeginEvidenceClear,
              JournalType, CompletionCheckpoints
    <3> QED BY <1>7, <3>1, <3>2
  <2>7. LegalRollback'
    BY <2>1, <2>2, <2>3, <2>4, <2>5, <2>6 DEF LegalRollback, Uncommitted,
       CompletionCheckpoints
  <2> QED BY <2>2, <2>4, <2>5, <2>6, <2>7, <1>t, RollbackRewrite
          DEF JournalLegal, Uncommitted
<1>8. CASE EnterFailedCleanup
  <2>1. /\ Kept
        /\ journal.phase = "rolling-back"
        /\ journal.checkpoint = "rollback-evidence-clear-pending"
        /\ journal'.phase = "cleaning-up" /\ journal'.checkpoint = "cleanup-pending"
        /\ journal'.step = "stage" /\ journal'.mutation = "none"
        /\ journal'.rolled_back = {} /\ journal'.recovery_mode = "cleanup-only"
        /\ journal'.outcome = journal.outcome
        /\ journal'.completion_started = journal.completion_started
        /\ journal'.root_restored = journal.root_restored
    BY <1>8, <1>t DEF EnterFailedCleanup, At, JournalType
  <2>2. LegalRollback /\ journal.removed = {} /\ ~journal.directory_stage
    BY <2>1 DEF JournalLegal, PublicationPending
  <2>3. /\ ~journal.committed /\ journal.outcome = "failed-pre-commit"
        /\ journal.completion_started /\ journal.completion_recorded
        /\ RootRestoreNeeded => journal.root_restored
    BY <2>1, <2>2 DEF LegalRollback, Uncommitted
  <2>4. CleanupOrder' = << "stage", "backup", "terminal" >>
    BY <2>1, <2>3 DEF CleanupOrder
  <2>5. LegalCleanup'
    <3>1. Prefix(CleanupOrder', 0) = {}
      BY PrefixEmpty
    <3>2. 1 \in 1..Len(CleanupOrder') /\ CleanupOrder'[1] = "stage" /\ 1 - 1 = 0
      BY <2>4
    <3> QED BY <2>1, <2>2, <3>1, <3>2 DEF LegalCleanup
  <2>6. LegalTerminal'
    BY <2>1, <2>3, <2>5, <1>k DEF LegalTerminal
  <2>7. journal.root_restored => RootRestoreNeeded
    BY DEF JournalLegal
  <2> QED BY <2>1, <2>2, <2>3, <2>6, <2>7, <1>k, CleanupRewrite
<1>9. CASE StartCleanup
  <2>1. /\ Kept /\ RolledKept /\ journal.phase = "committed"
        /\ journal'.phase = "cleaning-up" /\ journal'.checkpoint = "cleanup-pending"
        /\ journal'.step = CleanupOrder[1] /\ journal'.mutation = "none"
        /\ journal'.outcome = journal.outcome
        /\ journal'.completion_started = journal.completion_started
        /\ journal'.root_restored = journal.root_restored
    <3>1. CleanupOrder[1] \in CleanupSteps
      BY DEF CleanupOrder, CleanupSteps
    <3> QED BY <1>9, <3>1, <1>t DEF StartCleanup, JournalType
  <2>2. /\ LegalCommitted /\ journal.rolled_back = {} /\ journal.removed = {}
        /\ ~journal.directory_stage /\ ~journal.root_restored
    BY <2>1 DEF JournalLegal, PublicationPending
  <2>3. CleanupOrder' = CleanupOrder
    BY <2>1, <1>t DEF CleanupOrder
  <2>4. LegalCleanup'
    <3>1. Prefix(CleanupOrder', 0) = {}
      BY PrefixEmpty
    <3>2. 1 \in 1..Len(CleanupOrder) /\ 1 - 1 = 0
      BY DEF CleanupOrder
    <3> QED BY <2>1, <2>2, <2>3, <3>1, <3>2 DEF LegalCleanup
  <2>5. LegalCommitted'
    BY <2>1, <2>2, <1>k, <1>t DEF LegalCommitted, NoCompletion
  <2>6. LegalTerminal'
    BY <2>1, <2>2, <2>4, <2>5 DEF LegalTerminal, LegalCommitted
  <2> QED BY <2>1, <2>2, <2>6, <1>k, CleanupRewrite
(* A legal journal under cleanup stays one when only its place moves.        *)
<1> DEFINE Moving ==
      /\ RolledKept
      /\ journal.phase = "cleaning-up"
      /\ journal'.committed = journal.committed
      /\ journal'.completion_started = journal.completion_started
      /\ journal'.completion_recorded = journal.completion_recorded
      /\ journal'.staged_count = journal.staged_count
      /\ journal'.backed_up_count = journal.backed_up_count
      /\ journal'.published_count = journal.published_count
      /\ journal'.directory_stage = journal.directory_stage
      /\ journal'.mutation = journal.mutation /\ journal'.outcome = journal.outcome
      /\ journal'.root_restored = journal.root_restored
      /\ journal'.phase \in {"cleaning-up", "terminal"}
      /\ journal'.phase = "terminal" <=> journal'.checkpoint = "journal-cleanup-pending"
<1>m. Moving /\ LegalCleanup' => JournalLegal'
  <2> SUFFICES ASSUME Moving, LegalCleanup' PROVE JournalLegal'
    OBVIOUS
  <2>1. LegalTerminal /\ ~journal.directory_stage
    BY DEF JournalLegal, PublicationPending
  <2>2. /\ Published' = Published /\ RootRestoreNeeded' = RootRestoreNeeded
        /\ Prepared' <=> Prepared
    BY <1>t DEF Published, RootRestoreNeeded, Prepared
  <2>3. LegalCommitted' <=> LegalCommitted
    BY <2>2, <1>t DEF LegalCommitted, NoCompletion
  <2>4. LegalTerminal'
    BY <2>1, <2>2, <2>3 DEF LegalTerminal
  <2> QED BY <2>1, <2>2, <2>4, <1>t, CleanupRewrite DEF JournalLegal
<1>10. ASSUME NEW step \in CleanupSteps, record_cleanup(step) PROVE JournalLegal'
  <2>1. /\ Moving /\ journal.checkpoint = "cleanup-pending" /\ journal.step = step
        /\ journal'.checkpoint = "cleanup-done" /\ journal'.step = step
        /\ journal'.removed = journal.removed \cup {step}
    BY <1>10, <1>t DEF record_cleanup, CleanupPending, At, JournalType
  <2>2. CleanupOrder' = CleanupOrder /\ LegalCleanup
    BY <2>1, <1>t DEF CleanupOrder, JournalLegal, LegalTerminal
  <2>3. PICK i \in 1..Len(CleanupOrder) :
           step = CleanupOrder[i] /\ journal.removed = Prefix(CleanupOrder, i - 1)
    BY <2>1, <2>2 DEF LegalCleanup
  <2>4. journal'.removed = Prefix(CleanupOrder, i)
    <3>1. /\ CleanupOrder \in Seq(CleanupSteps) /\ i - 1 \in Nat
          /\ i - 1 < Len(CleanupOrder) /\ (i - 1) + 1 = i
      BY <2>3, CleanupSequence
    <3>2. Prefix(CleanupOrder, (i - 1) + 1)
             = Prefix(CleanupOrder, i - 1) \cup {CleanupOrder[(i - 1) + 1]}
      BY <3>1, PrefixStep
    <3> QED BY <2>1, <2>3, <3>1, <3>2
  <2>5. LegalCleanup'
    BY <2>1, <2>2, <2>3, <2>4 DEF LegalCleanup
  <2> QED BY <2>1, <2>5, <1>m
<1>11. CASE NextCleanup
  <2>1. journal.phase = "cleaning-up" /\ journal.checkpoint = "cleanup-done"
    BY <1>11 DEF NextCleanup, At
  <2>2. PICK i \in DOMAIN CleanupOrder :
           /\ journal.step = CleanupOrder[i]
           /\ journal' = IF i = Len(CleanupOrder)
                         THEN [journal EXCEPT !.phase = "terminal",
                                              !.checkpoint = "journal-cleanup-pending"]
                         ELSE [journal EXCEPT !.checkpoint = "cleanup-pending",
                                              !.step = CleanupOrder[i + 1]]
    BY <1>11 DEF NextCleanup
  <2>3. LegalCleanup
    BY <2>1 DEF JournalLegal, LegalTerminal
  <2>4. PICK j \in 1..Len(CleanupOrder) :
           journal.step = CleanupOrder[j] /\ journal.removed = Prefix(CleanupOrder, j)
    BY <2>1, <2>3 DEF LegalCleanup
  <2>5. i = j /\ i \in 1..Len(CleanupOrder) /\ CleanupOrder \in Seq(CleanupSteps)
    <3> HIDE DEF Kept, RolledKept, Moving
    <3>1. CleanupOrder \in Seq(CleanupSteps)
      BY CleanupSequence
    <3>2. DOMAIN CleanupOrder = 1..Len(CleanupOrder)
      BY <3>1
    <3>3. CleanupOrder[i] = CleanupOrder[j]
      BY <2>2, <2>4
    <3> QED BY <2>2, <2>4, <3>1, <3>2, <3>3, CleanupSequence
  <2>6. CASE i = Len(CleanupOrder)
    <3>1. /\ Moving /\ journal'.checkpoint = "journal-cleanup-pending"
          /\ journal'.removed = journal.removed
      BY <2>1, <2>2, <2>6, <1>t DEF JournalType
    <3>2. CleanupOrder' = CleanupOrder
      BY <3>1, <1>t DEF CleanupOrder
    <3>3. journal.removed = Range(CleanupOrder)
      BY <2>4, <2>5, <2>6, PrefixWhole
    <3>4. LegalCleanup'
      BY <3>1, <3>2, <3>3 DEF LegalCleanup
    <3> QED BY <3>1, <3>4, <1>m
  <2>7. CASE i # Len(CleanupOrder)
    <3>0. i + 1 \in 1..Len(CleanupOrder) /\ (i + 1) - 1 = i
          /\ CleanupOrder[i + 1] \in CleanupSteps
      BY <2>5, <2>7
    <3>1. /\ Moving /\ journal'.checkpoint = "cleanup-pending"
          /\ journal'.step = CleanupOrder[i + 1]
          /\ journal'.removed = journal.removed
      BY <2>1, <2>2, <2>7, <3>0, <1>t DEF JournalType
    <3>2. CleanupOrder' = CleanupOrder
      BY <3>1, <1>t DEF CleanupOrder
    <3>3. LegalCleanup'
      BY <3>0, <3>1, <3>2, <2>4, <2>5 DEF LegalCleanup
    <3> QED BY <3>1, <3>3, <1>m
  <2> QED BY <2>6, <2>7
<1>12. CASE RemoveJournal
  <2>1. /\ Kept /\ journal.phase = "terminal" /\ journal'.phase = "removed"
        /\ journal'.root_restored = journal.root_restored
    BY <1>12, <1>t DEF RemoveJournal, JournalType
  <2>2. ~journal.directory_stage
    BY <2>1 DEF JournalLegal, PublicationPending
  <2> QED BY <2>1, <2>2, <1>k DEF JournalLegal
<1>13. CASE UNCHANGED journal
  BY <1>13, <1>t, LegalStutter
<1> QED
  BY <1>1, <1>2, <1>3, <1>4, <1>5, <1>6, <1>7, <1>8, <1>9, <1>10, <1>11, <1>12, <1>13
     DEF RecoveryStep, DiscardDirectoryStage, RollbackRemove, RollbackExchange,
     RollbackUnlinkDisplaced, RestoreArchiveRoot, WriteCompletion, UnlinkMarker,
     EmptyStage, EmptyBackup, RemoveRoot, WriteTerminal

------------------------------------------------------------------------------
(* Steps that only start, refuse or end a process.                           *)
LEMMA ControlLegal ==
  LegalInv /\ (StartRecovery \/ RefuseCleanup \/ Stop \/ UNCHANGED vars)
     => JournalLegal' /\ OrderInv'
<1> SUFFICES ASSUME LegalInv, StartRecovery \/ RefuseCleanup \/ Stop \/ UNCHANGED vars
             PROVE  JournalLegal' /\ OrderInv'
  OBVIOUS
<1>1. UNCHANGED << plan, journal, completion >>
  BY DEF StartRecovery, RefuseCleanup, Stop, vars, disk
<1> QED BY <1>1, LegalStutter, OrderStutter DEF LegalInv

(* A transaction starts with a legal journal.                                *)
LEMMA LegalInit == Init => JournalLegal
<1> SUFFICES ASSUME Init PROVE JournalLegal
  OBVIOUS
<1>1. WellFormed(plan)
  BY PlansAssumption DEF Init
<1>2. Len(plan.staging) \in Nat /\ Len(plan.staging) > 0
  BY <1>1 DEF WellFormed
<1>3. /\ journal.phase = "staging" /\ journal.checkpoint = "staging-pending"
      /\ journal.mutation = plan.staging[1] /\ journal.staged_count = 0
      /\ journal.backed_up_count = 0 /\ journal.published_count = 0
      /\ journal.rolled_back = {} /\ journal.removed = {}
      /\ ~journal.committed /\ journal.recovery_mode = "rollback"
      /\ journal.outcome = "none" /\ ~journal.directory_stage
      /\ ~journal.completion_started /\ ~journal.completion_recorded
      /\ ~journal.root_restored
  BY DEF Init, InitialJournal
<1>4. Forward
  BY <1>3 DEF Forward, Uncommitted, NoCompletion
<1>5. LegalForward
  <2>1. NamesNext(plan.staging, journal.staged_count, "staging-pending", "staging-done")
    BY <1>2, <1>3 DEF NamesNext
  <2> QED BY <1>3, <2>1 DEF LegalForward
<1> QED BY <1>3, <1>4, <1>5 DEF JournalLegal

(* Every step preserves the joint invariant.                                 *)
LEMMA LegalStep == LegalInv /\ [Next]_vars => LegalInv'
<1>1. LegalInv /\ [Next]_vars => AtomicityInv'
  BY AtomicityStep DEF LegalInv
<1>2. LegalInv /\ WriterStep => JournalLegal' /\ OrderInv'
  BY LegalWriter, OrderWriter DEF LegalInv, AtomicityInv
<1>3. LegalInv /\ RecoveryStep => JournalLegal' /\ OrderInv'
  BY LegalRecovery, OrderRecovery DEF LegalInv, AtomicityInv
<1> QED BY <1>1, <1>2, <1>3, ControlLegal DEF Next, LegalInv

(* The joint invariant holds in every reachable state.                       *)
THEOREM LegalInvariance == Spec => []LegalInv
<1>1. Init => LegalInv
  <2>1. Init => AtomicityInv
    BY TypeInit, PhaseInit, ProgressInit, CleanupInit, DestInit, RetainInit, RootInit
       DEF AtomicityInv, Inv
  <2> QED BY <2>1, LegalInit, OrderInit DEF LegalInv
<1> QED BY <1>1, LegalStep, PTL DEF Spec

(* Whatever step a writer or a recovery takes, and wherever either of them   *)
(* is cut off, the journal is one parse_service_transaction accepts: no      *)
(* transaction is lost to a record that its own recovery cannot load.        *)
THEOREM JournalIsLegal == Spec => []JournalLegal
  BY LegalInvariance, PTL DEF LegalInv

------------------------------------------------------------------------------
(* A published object that has not been rolled back is the new one, unless   *)
(* it is the one the journal announces.                                      *)
LEMMA PublishedIsNew ==
  ASSUME LegalInv, PublicationPending, NEW k \in Published
  PROVE  dest[k] = "new"
<1>1. WellFormed(plan) /\ journal \in JournalType
  BY PlansAssumption DEF LegalInv, AtomicityInv, Inv, TypeOK
<1>2. /\ journal.published_count < Len(plan.publication)
      /\ journal.mutation = plan.publication[journal.published_count + 1]
      /\ journal.rolled_back = {} /\ journal.removed = {} /\ ~journal.committed
      /\ journal.phase = "publishing" /\ ~RollbackPending
  BY DEF LegalInv, AtomicityInv, ProgressInv, PublicationPending, JournalLegal, Forward,
     Uncommitted, RollbackPending
<1>3. k # journal.mutation
  BY <1>1, <1>2, PrefixNext DEF Published, WellFormed, JournalType
<1>4. k \in Planned
  BY PublishedPlanned DEF LegalInv, AtomicityInv
<1>5. dest[k] = Expected(k)
  BY <1>2, <1>3, <1>4 DEF LegalInv, AtomicityInv, DestInv, CleanupPending, At
<1> QED BY <1>2, <1>5 DEF Expected, CleanupPhases

(* Nothing is published into a directory that is not there, and no directory *)
(* is rolled back before everything published into it has gone.              *)
THEOREM NestingIsRespected == Spec => []NestingRespected
<1>1. LegalInv => NestingRespected
  <2> SUFFICES ASSUME LegalInv PROVE NestingRespected
    OBVIOUS
  <2>t. WellFormed(plan) /\ Nested(plan) /\ journal \in JournalType
    BY PlansAssumption, OrdersAssumption DEF LegalInv, AtomicityInv, Inv, TypeOK
  <2>1. ASSUME PublicationPending, ParentOf[journal.mutation] \in Planned
        PROVE  dest[ParentOf[journal.mutation]] = "new"
    <3>1. /\ journal.published_count \in Nat
          /\ journal.published_count < Len(plan.publication)
          /\ journal.mutation = plan.publication[journal.published_count + 1]
      BY <2>1, <2>t DEF LegalInv, AtomicityInv, ProgressInv, JournalType
    <3>2. /\ journal.published_count + 1 \in DOMAIN plan.publication
          /\ (journal.published_count + 1) - 1 = journal.published_count
      BY <3>1, <2>t DEF WellFormed
    <3>3. \E h \in 1..journal.published_count :
             plan.publication[h] = ParentOf[journal.mutation]
      BY <2>1, <2>t, <3>1, <3>2 DEF Nested, Planned
    <3>4. ParentOf[journal.mutation] \in Published
      BY <3>3 DEF Published, Prefix
    <3> QED BY <2>1, <3>4, PublishedIsNew
  <2>2. ASSUME RollbackPending, NEW c \in Planned, ParentOf[c] = journal.mutation
        PROVE  dest[c] = "absent"
    <3>1. PICK i \in DOMAIN plan.rollback :
             /\ plan.rollback[i] = journal.mutation
             /\ journal.mutation \in Published
             /\ \A h \in 1..(i - 1) :
                    plan.rollback[h] \notin Published \ journal.rolled_back
      BY <2>2 DEF LegalInv, OrderInv, RollbackNext
    <3>2. PICK j \in DOMAIN plan.rollback : plan.rollback[j] = c
      <4>1. c \in Range(plan.rollback)
        BY <2>2, <2>t DEF WellFormed, Planned
      <4> QED BY <4>1 DEF Range
    <3>3. j < i /\ j \in 1..(i - 1)
      BY <2>2, <2>t, <3>1, <3>2 DEF Nested, WellFormed
    <3>4. c # journal.mutation
      BY <2>t, <3>1, <3>2, <3>3 DEF WellFormed, IsInjective
    <3>5. c \in Published => c \in journal.rolled_back
      BY <3>1, <3>2, <3>3
    <3>6. journal.mutation \in Planned
      BY <3>1, PublishedPlanned DEF LegalInv, AtomicityInv
    <3>7. c \notin plan.existing
      BY <2>2, <2>t, <3>6 DEF Nested, Planned
    <3>8. /\ journal.removed = {} /\ ~journal.committed /\ journal.phase = "rolling-back"
          /\ ~PublicationPending
      BY <2>2 DEF LegalInv, JournalLegal, LegalRollback, Uncommitted, RollbackPending,
         PublicationPending
    <3>9. dest[c] = Expected(c)
      BY <2>2, <3>4, <3>8 DEF LegalInv, AtomicityInv, DestInv, CleanupPending, At
    <3> QED BY <3>5, <3>7, <3>8, <3>9 DEF Expected, Restored, Original, CleanupPhases
  <2> QED BY <2>1, <2>2 DEF NestingRespected, ParentReady
<1> QED BY <1>1, LegalInvariance, PTL

------------------------------------------------------------------------------
(* Where recovery gives up.  The rest of the invariant says what the two     *)
(* private trees and the retained records hold, so that a stopped            *)
(* transaction outside the refused windows is one recovery authenticates.    *)

EvidenceInv ==
  /\ journal.staged_count <= Len(plan.staging)
  /\ journal.directory_stage => journal.mutation \in DirectoryKeys
  /\ PublicationApplied /\ journal.mutation \in DirectoryKeys => journal.directory_stage
  /\ journal.completion_recorded => completion
  /\ "terminal" \in journal.removed => terminal # "absent"
  /\ \A t \in Trees : tree[t] # "whole" => t \in journal.removed \/ CleanupPending(t)

(* A staged name holds its object until that is published; the pending one   *)
(* may have left already.                                                    *)
StagePlace(n) ==
  IF PublicationPending /\ n = journal.mutation
  THEN IF dest[n] = "new"
       THEN stage[n] # "new"
       ELSE stage[n] # "original" /\ (n \in StagedNames => stage[n] = "new")
  ELSE /\ n \in StagedNames => stage[n] = IF n \in Published THEN "absent" ELSE "new"
       /\ n \notin StagedNames => stage[n] # "original"
       /\ n \in DirectoryKeys => stage[n] = "absent"

StageInv == tree["stage"] = "whole" => \A n \in Names : StagePlace(n)

(* A backup is a copy until the copy is back; the pending one may be on its  *)
(* way.                                                                      *)
BackupPlace(k) ==
  /\ k \notin BackedUp => backup[k] # "new"
  /\ k \in BackedUp =>
        IF RollbackPending /\ k = journal.mutation
        THEN \/ dest[k] = "new" /\ backup[k] = "copy"
             \/ dest[k] = "copy" /\ backup[k] \in {"new", "absent"}
        ELSE backup[k] = IF \/ k \in journal.rolled_back
                            \/ /\ journal.phase \in CleanupPhases
                               /\ ~journal.committed /\ k \in Published
                         THEN "absent" ELSE "copy"

BackupInv == tree["backup"] = "whole" => \A k \in Keys : BackupPlace(k)

(* A recovery that has begun has seen neither an interrupted exchange nor a  *)
(* directory whose stage the journal does not know.                          *)
RecoveringInv ==
  process = "recovering" /\ PublicationPending =>
     /\ stage[journal.mutation] # "original"
     /\ journal.mutation \in DirectoryKeys /\ stage[journal.mutation] = "new"
           => journal.directory_stage

PrivateInv == EvidenceInv /\ StageInv /\ BackupInv /\ RecoveringInv

(* A private name is a file or a signing input, never a directory.           *)
LEMMA FilesAreNotDirectories == DirectoryKeys \cap (FileKeys \cup Inputs) = {}
<1>1. FileKeys \subseteq
        {"service_config", "service_csr", "service_certificate", "service_chain",
         "service_fullchain", "service_issuer", "ca_index", "ca_index_attr", "ca_serial",
         "ca_index_old", "ca_index_attr_old", "ca_serial_old", "ca_newcert",
         "archive_marker", "archive_certificate", "archive_csr", "archive_chain",
         "archive_fullchain", "archive_config", "archive_issuer", "archive_key",
         "service_key"}
  <2>1. Range(SERVICE_CA_PUBLICATION_ORDER) \subseteq
          {"service_config", "service_csr", "service_certificate", "service_chain",
           "service_fullchain", "service_issuer", "ca_index", "ca_index_attr", "ca_serial",
           "ca_index_old", "ca_index_attr_old", "ca_serial_old", "ca_newcert"}
    BY DEF Range, SERVICE_CA_PUBLICATION_ORDER
  <2>2. Range(SERVICE_ARCHIVE_MEMBER_ORDER) \subseteq
          {"archive_marker", "archive_certificate", "archive_csr", "archive_chain",
           "archive_fullchain", "archive_config", "archive_issuer", "archive_key"}
    BY DEF Range, SERVICE_ARCHIVE_MEMBER_ORDER
  <2> QED BY <2>1, <2>2 DEF FileKeys
<1>2. Inputs \subseteq
        {"signing_inventory", "signing_root_certificate", "signing_ca_key",
         "signing_ca_certificate", "signing_ca_config", "signing_ca_crlnumber",
         "signing_service_key"}
  BY DEF Inputs, Range, SERVICE_SIGNING_INPUT_KEYS
<1>3. DirectoryKeys \subseteq
        {"service_root", "service_private_dir", "service_csr_dir", "service_certs_dir",
         "service_chain_dir", "archive_root", "archive_dir"}
  BY DEF DirectoryKeys, ServiceContainers, ArchiveContainers, Range,
     SERVICE_CONTAINER_ORDER
<1> QED BY <1>1, <1>2, <1>3

(* What the plan says of the private trees.                                  *)
LEMMA PrivateNames ==
  ASSUME Inv, ProgressInv, EvidenceInv, RetainInv
  PROVE  /\ StagedNames \subseteq Names \ DirectoryKeys
         /\ BackedUp \subseteq plan.existing
         /\ plan.existing \subseteq Planned \cap FileKeys
         /\ Published \subseteq Planned /\ Planned \subseteq Keys
         /\ Range(plan.staging) \subseteq Names \ DirectoryKeys
<1>1. /\ WellFormed(plan) /\ journal.staged_count \in Nat
      /\ journal.backed_up_count \in Nat
  BY PlansAssumption DEF Inv, TypeOK, JournalType
<1>2. StagedNames \subseteq Range(plan.staging)
  <2>1. /\ plan.staging \in Seq(Keys \cup Inputs)
        /\ journal.staged_count <= Len(plan.staging)
    BY <1>1 DEF WellFormed, EvidenceInv
  <2> QED BY <1>1, <2>1, PrefixSubset DEF StagedNames
<1>3. BackedUp \subseteq Range(plan.backups)
  <2>1. /\ plan.backups \in Seq(Keys)
        /\ journal.backed_up_count <= Len(plan.backups)
    BY <1>1 DEF WellFormed, RetainInv
  <2> QED BY <1>1, <2>1, PrefixSubset DEF BackedUp
<1>4. Range(plan.staging) \subseteq Inputs \cup FileKeys
  BY <1>1 DEF WellFormed
<1>5. Published \subseteq Planned /\ Planned \subseteq Keys
  BY PublishedPlanned, PlannedKeys DEF Inv
<1> QED BY <1>1, <1>2, <1>3, <1>4, <1>5, FilesAreNotDirectories
        DEF WellFormed, Planned, Names, Keys

(* Outside the refused windows every destination is one recovery accepts.    *)
LEMMA DestinationsAccepted ==
  ASSUME LegalInv, EvidenceInv, journal.phase # "removed", ~UnrecordedRemoval,
         ~UnrestoredOriginal, NEW k \in Planned
  PROVE  DestinationAccepted(k)
<1>1. /\ journal \in JournalType /\ k \in Keys
      /\ journal.committed \/ journal.phase \in CleanupPhases => journal.rolled_back = {}
  BY PlannedKeys DEF LegalInv, AtomicityInv, Inv, TypeOK, ProgressInv, PhaseInv,
     CleanupPhases, ForwardPhases
<1>2. FailedCleanup <=> journal.phase \in CleanupPhases /\ ~journal.committed
  BY DEF FailedCleanup, LegalInv, AtomicityInv, Inv, PhaseInv, CleanupPhases
<1>3. k = "archive_marker" => ~(CleanupPending("archive-marker") /\ dest[k] = "absent")
  BY DEF UnrecordedRemoval
<1>4. "archive-marker" \in journal.removed => journal.committed
  BY DEF LegalInv, AtomicityInv, CleanupInv, CleanupPhases
<1>5. CASE dest[k] = Expected(k)
  <2>1. CASE journal.committed
    BY <1>5, <2>1 DEF Expected, DestinationAccepted
  <2>2. CASE ~journal.committed /\ FailedCleanup
    <3>1. k \notin Published => Original(k) = Restored(k)
      BY <2>2 DEF UnrestoredOriginal, Original, Restored
    <3> QED BY <1>1, <1>2, <1>4, <1>5, <2>2, <3>1 DEF Expected, DestinationAccepted
  <2>3. CASE ~journal.committed /\ ~FailedCleanup
    BY <1>1, <1>2, <1>4, <1>5, <2>3 DEF Expected, DestinationAccepted
  <2> QED BY <2>1, <2>2, <2>3
<1>6. CASE dest[k] # Expected(k)
  <2>1. \/ PublicationPending /\ k = journal.mutation /\ dest[k] = "new"
        \/ RollbackPending /\ k = journal.mutation /\ dest[k] = Restored(k)
    BY <1>3, <1>6 DEF LegalInv, AtomicityInv, DestInv
  <2>2. ~journal.committed /\ ~FailedCleanup
    BY <2>1, <1>2 DEF PublicationPending, RollbackPending, LegalInv, AtomicityInv, Inv,
       PhaseInv, ForwardPhases, CleanupPhases
  <2>3. k \in DirectoryKeys /\ PublicationPending /\ k = journal.mutation /\ dest[k] = "new"
           => journal.directory_stage
    BY DEF EvidenceInv, PublicationApplied
  <2> QED BY <1>4, <2>1, <2>2, <2>3 DEF DestinationAccepted
<1> QED BY <1>5, <1>6

(* Outside the refused windows a tree that is left is the tree the journal   *)
(* describes.                                                                *)
LEMMA TreesWhole ==
  ASSUME EvidenceInv, CleanupInv, ~UnrecordedRemoval, NEW t \in Trees
  PROVE  /\ tree[t] # "whole" <=> t \in journal.removed
         /\ tree[t] = "gone" <=> t \in journal.removed
<1>1. t \in journal.removed => tree[t] = "gone"
  BY DEF CleanupInv
<1>2. tree[t] # "whole" => t \in journal.removed
  BY DEF EvidenceInv, UnrecordedRemoval
<1> QED BY <1>1, <1>2

(* Outside the windows the stage is one the preflight accepts: each name in  *)
(* it is a recorded new object or the journaled directory, and none is       *)
(* missing before its publication.                                           *)
LEMMA StageAccepted ==
  ASSUME LegalInv, EvidenceInv, StageInv, ~UnrecordedRemoval, ~UnrecordedPrivateFile,
         ~UnrecordedDirectoryStage, ~InterruptedExchange
  PROVE  StageTreeValid
<1>t. /\ stage \in [Names -> StageStates] /\ journal \in JournalType
  BY DEF LegalInv, AtomicityInv, Inv, TypeOK
<1>1. "stage" \in Trees
  BY DEF Trees
<1>2. tree["stage"] = "gone" <=> "stage" \in journal.removed
  BY <1>1, TreesWhole DEF LegalInv, AtomicityInv
<1>3. tree["stage"] # "whole" => tree["stage"] = "gone"
  BY <1>1, TreesWhole DEF LegalInv, AtomicityInv
<1>n. StagedNames \subseteq Names \ DirectoryKeys
  BY PrivateNames DEF LegalInv, AtomicityInv
<1>4. ASSUME tree["stage"] = "whole", NEW n \in Names, stage[n] # "absent"
      PROVE  /\ stage[n] = "new"
             /\ \/ n \in StagedNames
                \/ /\ journal.directory_stage /\ n = journal.mutation
                   /\ ~PublicationApplied
  <2>0. StagePlace(n) /\ stage[n] \in StageStates
    BY <1>4, <1>t DEF StageInv
  <2>1. CASE PublicationPending /\ n = journal.mutation
    <3>1. dest[n] # "new" /\ stage[n] = "new"
      BY <1>4, <2>0, <2>1 DEF StagePlace, StageStates, InterruptedExchange
    <3>2. n \notin DirectoryKeys => n \in StagedNames
      BY <3>1 DEF UnrecordedPrivateFile
    <3>3. n \in DirectoryKeys => journal.directory_stage
      BY <2>1, <3>1 DEF UnrecordedDirectoryStage
    <3> QED BY <2>1, <3>1, <3>2, <3>3 DEF PublicationApplied
  <2>2. CASE ~(PublicationPending /\ n = journal.mutation)
    <3>1. stage[n] = "new" /\ n \notin DirectoryKeys
      BY <1>4, <2>0, <2>2 DEF StagePlace, StageStates
    <3> QED BY <3>1 DEF UnrecordedPrivateFile
  <2> QED BY <2>1, <2>2
<1>5. ASSUME tree["stage"] = "whole", NEW n \in StagedNames,
             n \notin Published \cup
                (IF PublicationApplied THEN {journal.mutation} ELSE {})
      PROVE  stage[n] # "absent"
  <2>0. StagePlace(n)
    BY <1>5, <1>n DEF StageInv
  <2> QED BY <1>5, <2>0 DEF StagePlace, PublicationApplied
<1> QED BY <1>2, <1>3, <1>4, <1>5 DEF StageTreeValid

(* Outside the windows the backup is one the preflight accepts: each name in *)
(* it is a recorded copy, and none is missing before it is used.             *)
LEMMA BackupAccepted ==
  ASSUME LegalInv, EvidenceInv, BackupInv, journal.phase # "removed",
         ~UnrecordedRemoval, ~UnrecordedPrivateFile, ~InterruptedExchange
  PROVE  BackupTreeValid
<1>t. /\ backup \in [Keys -> BackupStates] /\ journal \in JournalType
  BY DEF LegalInv, AtomicityInv, Inv, TypeOK
<1>1. "backup" \in Trees
  BY DEF Trees
<1>2. tree["backup"] = "gone" <=> "backup" \in journal.removed
  BY <1>1, TreesWhole DEF LegalInv, AtomicityInv
<1>3. tree["backup"] # "whole" => tree["backup"] = "gone"
  BY <1>1, TreesWhole DEF LegalInv, AtomicityInv
<1>n. BackedUp \subseteq Keys /\ BackedUp \subseteq plan.existing
  BY PrivateNames DEF LegalInv, AtomicityInv, Keys
<1>f. FailedCleanup <=> journal.phase \in CleanupPhases /\ ~journal.committed
  BY DEF FailedCleanup, LegalInv, AtomicityInv, Inv, PhaseInv, CleanupPhases
<1>r. /\ journal.phase \in CleanupPhases => journal.rolled_back = {}
      /\ journal.phase \in CleanupPhases => ~RollbackPending
  BY DEF LegalInv, AtomicityInv, ProgressInv, CleanupPhases, RollbackPending
<1>4. ASSUME tree["backup"] = "whole", NEW k \in Keys, backup[k] # "absent"
      PROVE  backup[k] = "copy" /\ k \in BackedUp
  <2>0. BackupPlace(k) /\ backup[k] \in BackupStates
    BY <1>4, <1>t DEF BackupInv
  <2>1. k \in BackedUp
    BY <1>4, <2>0 DEF BackupPlace, BackupStates, UnrecordedPrivateFile
  <2> QED BY <1>4, <2>0, <2>1 DEF BackupPlace, InterruptedExchange
<1>5. ASSUME tree["backup"] = "whole", NEW k \in BackedUp,
             k \notin (IF FailedCleanup THEN Published
                       ELSE journal.rolled_back \cup
                            (IF RollbackApplied THEN {journal.mutation} ELSE {}))
      PROVE  backup[k] # "absent"
  <2>0. BackupPlace(k) /\ Restored(k) = "copy"
    BY <1>5, <1>n DEF BackupInv, Restored
  <2>1. CASE RollbackPending /\ k = journal.mutation
    BY <1>5, <1>f, <1>r, <2>0, <2>1 DEF BackupPlace, RollbackApplied
  <2>2. CASE ~(RollbackPending /\ k = journal.mutation)
    BY <1>5, <1>f, <1>r, <2>0, <2>2 DEF BackupPlace
  <2> QED BY <2>1, <2>2
<1> QED BY <1>2, <1>3, <1>4, <1>5 DEF BackupTreeValid

(* Outside the windows a tree whose removal is pending is exactly the one    *)
(* the removal expects.                                                      *)
LEMMA TreesExact ==
  ASSUME LegalInv, PrivateInv, ~UnrecordedRemoval, ~UnrecordedPrivateFile,
         NEW t \in Trees, CleanupPending(t)
  PROVE  TreeExact(t)
<1>t. /\ stage \in [Names -> StageStates] /\ backup \in [Keys -> BackupStates]
      /\ journal \in JournalType
  BY DEF LegalInv, AtomicityInv, Inv, TypeOK
<1>n. /\ StagedNames \subseteq Names \ DirectoryKeys /\ BackedUp \subseteq Keys
      /\ Published \subseteq Planned
  BY PrivateNames DEF LegalInv, AtomicityInv, PrivateInv, Keys
<1>1. /\ journal.phase \in CleanupPhases /\ ~PublicationPending /\ ~RollbackPending
      /\ journal.rolled_back = {}
      /\ journal.outcome = "failed-pre-commit" <=> ~journal.committed
  BY DEF CleanupPending, At, CleanupPhases, PublicationPending, RollbackPending, LegalInv,
     AtomicityInv, ProgressInv, Inv, PhaseInv
<1>2. tree[t] = "whole"
  BY DEF UnrecordedRemoval
<1>3. CASE t = "stage"
  <2>1. ASSUME NEW n \in Names
        PROVE  stage[n] # "absent" <=> n \in StagedNames \ Published
    <3>1. StagePlace(n) /\ stage[n] \in StageStates
      BY <1>2, <1>3, <1>t DEF PrivateInv, StageInv
    <3>2. n \notin StagedNames => stage[n] = "absent"
      BY <3>1, <1>1 DEF StagePlace, StageStates, UnrecordedPrivateFile
    <3> QED BY <3>1, <3>2, <1>1 DEF StagePlace
  <2> QED BY <1>2, <1>3, <1>n, <2>1 DEF TreeExact
<1>4. CASE t = "backup"
  <2>1. ASSUME NEW k \in Keys
        PROVE  backup[k] # "absent" <=>
                  k \in BackedUp \ (IF journal.outcome = "failed-pre-commit"
                                    THEN Published ELSE {})
    <3>1. BackupPlace(k) /\ backup[k] \in BackupStates
      BY <1>2, <1>4, <1>t DEF PrivateInv, BackupInv
    <3>2. k \notin BackedUp => backup[k] = "absent"
      BY <3>1 DEF BackupPlace, BackupStates, UnrecordedPrivateFile
    <3> QED BY <3>1, <3>2, <1>1 DEF BackupPlace
  <2> QED BY <1>2, <1>4, <1>n, <2>1 DEF TreeExact
<1> QED BY <1>3, <1>4 DEF Trees

(* Together the parts pass the preflight and every pending removal, so what  *)
(* is left to stop a recovery is one of the windows.                         *)
LEMMA KnownRefusals == LegalInv /\ PrivateInv => RefusalsAreKnown
<1> SUFFICES ASSUME LegalInv, PrivateInv, Blocked,
                    ~UnrecordedPrivateFile, ~UnrecordedDirectoryStage,
                    ~InterruptedExchange, ~UnrecordedRetainedRecord,
                    ~UnrecordedRemoval, ~UnrestoredOriginal
             PROVE  FALSE
  BY DEF RefusalsAreKnown
<1>1. DestinationsValid
  BY DestinationsAccepted DEF Blocked, DestinationsValid, PrivateInv
<1>2. StageTreeValid /\ BackupTreeValid
  BY StageAccepted, BackupAccepted DEF Blocked, PrivateInv
<1>3. RetainedEvidenceValid
  <2>1. completion = journal.completion_recorded
    BY DEF UnrecordedRetainedRecord, PrivateInv, EvidenceInv, LegalInv, AtomicityInv, Inv,
       TypeOK, JournalType
  <2>2. (terminal # "absent") = ("terminal" \in journal.removed)
    BY DEF UnrecordedRetainedRecord, PrivateInv, EvidenceInv
  <2> QED BY <2>1, <2>2 DEF RetainedEvidenceValid
<1>4. \A t \in Trees : CleanupPending(t) => TreeExact(t)
  BY TreesExact
<1> QED BY <1>1, <1>2, <1>3, <1>4 DEF Blocked, Preflight

------------------------------------------------------------------------------
(* The evidence part, step by step.                                          *)
LEMMA EvidenceInit == Init => EvidenceInv
<1> SUFFICES ASSUME Init PROVE EvidenceInv
  OBVIOUS
<1>1. WellFormed(plan)
  BY PlansAssumption DEF Init
<1>2. Len(plan.staging) \in Nat
  BY <1>1 DEF WellFormed
<1> QED BY <1>2 DEF Init, InitialJournal, EvidenceInv, PublicationApplied,
        PublicationPending, Trees

(* The pending publication has not happened when it is announced.            *)
LEMMA AnnouncedIsOutstanding ==
  ASSUME Inv, ProgressInv, CleanupInv, DestInv, JournalLegal, begin_publication
  PROVE  /\ journal'.mutation \in Keys
         /\ journal'.mutation \notin Published
         /\ dest'[journal'.mutation] # "new"
         /\ ~PublicationPending
<1>t. /\ journal \in JournalType /\ WellFormed(plan)
  BY PlansAssumption DEF Inv, TypeOK
<1>1. /\ journal.published_count \in Nat /\ plan.publication \in Seq(Keys)
      /\ journal.published_count < Len(plan.publication)
      /\ journal'.mutation = plan.publication[journal.published_count + 1]
      /\ dest' = dest
  BY <1>t DEF begin_publication, JournalType, WellFormed, RewriteOnly, disk
<1>2. /\ journal'.mutation \in Keys /\ journal'.mutation \in Planned
      /\ journal'.mutation \notin Published
  BY <1>1, <1>t, PrefixNext DEF Planned, Published, WellFormed
<1>3. /\ ~PublicationPending /\ ~RollbackPending /\ ~CleanupPending("archive-marker")
      /\ journal.checkpoint \in ForwardCheckpoints
  BY DEF begin_publication, Writing, PublicationPending, RollbackPending, CleanupPending,
     At, ForwardCheckpoints
<1>4. Forward /\ journal.removed = {} /\ journal.phase \in ForwardPhases
  BY <1>3, ForwardState
<1>5. dest[journal'.mutation] = Expected(journal'.mutation)
  BY <1>2, <1>3 DEF DestInv
<1>6. Expected(journal'.mutation) = Original(journal'.mutation)
  BY <1>2, <1>4 DEF Expected, Forward, Uncommitted, ForwardPhases, CleanupPhases
<1> QED BY <1>1, <1>2, <1>3, <1>5, <1>6 DEF Original

(* The writer counts within the plan, journals a directory before publishing *)
(* it and writes no retained record.                                         *)
LEMMA EvidenceWriter ==
  AtomicityInv /\ JournalLegal /\ EvidenceInv /\ WriterStep => EvidenceInv'
<1> SUFFICES ASSUME AtomicityInv, JournalLegal, EvidenceInv, WriterStep
             PROVE  EvidenceInv'
  OBVIOUS
<1>i. Inv /\ ProgressInv /\ CleanupInv /\ DestInv
  BY DEF AtomicityInv
<1>t. /\ journal \in JournalType /\ WellFormed(plan) /\ plan' = plan
      /\ dest \in [Keys -> DestStates]
  BY <1>i, PlansAssumption, PlanKept DEF Inv, TypeOK, Next
<1>l. journal.staged_count \in Nat /\ Len(plan.staging) \in Nat
  BY <1>t DEF WellFormed, JournalType
<1>1. CASE UNCHANGED << journal, disk >>
  BY <1>1, <1>t DEF EvidenceInv, PublicationApplied, PublicationPending, CleanupPending,
     At, disk
<1>2. CASE journal.phase \in ForwardPhases
  <2>0. /\ Forward /\ journal.removed = {} /\ ~completion
        /\ \A t \in Trees : tree[t] = "whole"
    BY <1>2, <1>i DEF JournalLegal, ForwardPhases, Inv, PhaseInv, EvidenceInv,
       CleanupPending, At
  <2>1. /\ journal'.removed = journal.removed
        /\ journal'.completion_recorded = journal.completion_recorded
        /\ tree' = tree
    BY ZenonT(60), <1>2, <1>t DEF JournalType, Writing, Publishing, ForwardPhases,
       RewriteOnly, disk, ForwardBoundary, WriterStep, StageFile, record_staging,
       begin_staging, begin_backup, CopyBackup, record_backup, finish_preparation,
       begin_publication, StageDirectory, RecordDirectoryStage, PublishNew, ExchangeNew,
       UnlinkDisplaced, record_publication, begin_verification, finish_verification,
       commit, WriterReturns
  (* What is left concerns the stage count and the pending directory.        *)
  <2>2. /\ ~journal'.completion_recorded /\ journal'.removed = {}
        /\ \A t \in Trees : tree'[t] = "whole"
    BY <2>0, <2>1 DEF Forward, NoCompletion
  <2> DEFINE Bounded == journal'.staged_count <= Len(plan'.staging)
             Known == /\ journal'.directory_stage => journal'.mutation \in DirectoryKeys
                      /\ PublicationApplied' /\ journal'.mutation \in DirectoryKeys
                            => journal'.directory_stage
  <2>3. SUFFICES Bounded /\ Known
    BY <2>2 DEF EvidenceInv
  <2>4. CASE record_staging
    <3>1. /\ journal.checkpoint = "staging-pending"
          /\ journal'.staged_count = journal.staged_count + 1
          /\ journal'.checkpoint = "staging-done"
          /\ journal'.directory_stage = journal.directory_stage
      BY <2>4, <1>t DEF record_staging, Writing, JournalType
    <3>2. journal.staged_count < Len(plan.staging) /\ ~journal.directory_stage
      BY <3>1, <1>i, ForwardTable DEF Counts, Inv, PhaseInv, PublicationPending
    <3> QED BY <3>1, <3>2, <1>l, <1>t DEF PublicationApplied, PublicationPending
  <2>5. CASE begin_publication
    <3>1. /\ journal'.staged_count = journal.staged_count
          /\ journal'.directory_stage = journal.directory_stage
      BY <2>5, <1>t DEF begin_publication, JournalType
    <3>2. dest'[journal'.mutation] # "new" /\ ~PublicationPending
      BY <2>5, <1>i, AnnouncedIsOutstanding
    <3>3. ~journal.directory_stage
      BY <3>2, <1>i DEF Inv, PhaseInv
    <3> QED BY <3>1, <3>2, <3>3, <1>t DEF EvidenceInv, PublicationApplied
  <2>6. CASE begin_staging \/ begin_backup \/ record_backup \/ finish_preparation
             \/ begin_verification \/ finish_verification \/ commit
    <3>1. /\ journal'.staged_count = journal.staged_count
          /\ journal'.directory_stage = journal.directory_stage
          /\ journal'.checkpoint # "publication-pending" /\ ~PublicationPending
      <4>1. CASE begin_staging \/ begin_backup \/ record_backup
        BY <4>1, <1>t DEF begin_staging, begin_backup, record_backup, JournalType, Writing,
           PublicationPending
      <4>2. CASE finish_preparation \/ begin_verification \/ finish_verification \/ commit
        BY <4>2, <1>t DEF finish_preparation, begin_verification, finish_verification,
           commit, JournalType, Writing, PublicationPending
      <4> QED BY <2>6, <4>1, <4>2
    <3>2. ~journal.directory_stage
      BY <3>1, <1>i DEF Inv, PhaseInv
    <3> QED BY <3>1, <3>2, <1>t DEF EvidenceInv, PublicationApplied, PublicationPending
  <2>7. ASSUME NEW k \in Keys, RecordDirectoryStage(k) PROVE Bounded /\ Known
    <3>1. /\ journal'.staged_count = journal.staged_count /\ journal'.directory_stage
          /\ journal'.mutation = k /\ k \in DirectoryKeys
      BY <2>7, <1>t DEF RecordDirectoryStage, Publishing, JournalType
    <3> QED BY <3>1, <1>t DEF EvidenceInv
  <2>8. ASSUME NEW k \in Keys, record_publication(k) PROVE Bounded /\ Known
    <3>1. /\ journal'.staged_count = journal.staged_count /\ ~journal'.directory_stage
          /\ journal'.checkpoint = "publication-done"
      BY <2>8, <1>t DEF record_publication, JournalType
    <3> QED BY <3>1, <1>t DEF EvidenceInv, PublicationApplied, PublicationPending
  <2>9. ASSUME NEW k \in Keys, PublishNew(k) \/ ExchangeNew(k) PROVE Bounded /\ Known
    <3>1. /\ journal' = journal /\ journal.mutation = k
          /\ k \in DirectoryKeys => journal.directory_stage
      <4>1. CASE PublishNew(k)
        BY <4>1 DEF PublishNew, ForwardBoundary, Publishing
      <4>2. CASE ExchangeNew(k)
        <5>1. k \in FileKeys
          BY <4>2, <1>t DEF ExchangeNew, WellFormed
        <5> QED BY <4>2, <5>1, FilesAreNotDirectories
                DEF ExchangeNew, ForwardBoundary, Publishing
      <4> QED BY <2>9, <4>1, <4>2
    <3> QED BY <3>1, <1>t DEF EvidenceInv
  <2>10. CASE UNCHANGED << journal, dest >>
    BY <2>10, <1>t DEF EvidenceInv, PublicationApplied, PublicationPending
  <2> QED BY <2>4, <2>5, <2>6, <2>7, <2>8, <2>9, <2>10 DEF WriterStep, StageFile,
          CopyBackup, StageDirectory, UnlinkDisplaced, WriterReturns, disk
<1> QED BY <1>1, <1>2, <1>i, WriterIsForward

(* Recovery writes a record before its evidence and removes a tree before    *)
(* the evidence of its removal.                                              *)
LEMMA EvidenceRecovery ==
  AtomicityInv /\ JournalLegal /\ EvidenceInv /\ RecoveryStep => EvidenceInv'
<1> SUFFICES ASSUME AtomicityInv, JournalLegal, EvidenceInv, RecoveryStep
             PROVE  EvidenceInv'
  OBVIOUS
<1>i. Inv /\ ProgressInv /\ CleanupInv
  BY DEF AtomicityInv
<1>t. /\ journal \in JournalType /\ plan' = plan
      /\ tree \in [Trees -> {"whole", "partial", "gone"}]
  BY <1>i, PlanKept DEF Inv, TypeOK, Next
(* A rewrite outside publication and outside the pending cleanup steps.      *)
<1> DEFINE Rewrite ==
      /\ journal'.staged_count = journal.staged_count
      /\ ~journal'.directory_stage /\ journal'.checkpoint # "publication-pending"
      /\ journal'.removed = journal.removed
      /\ tree' = tree /\ terminal' = terminal /\ completion' = completion
      /\ journal'.completion_recorded => completion
      /\ \A t \in Trees : ~CleanupPending(t)
<1>w. ASSUME Rewrite PROVE EvidenceInv'
  BY <1>w, <1>t DEF EvidenceInv, PublicationApplied, PublicationPending
<1>1. CASE ReconcilePublication
  <2>1. Rewrite
    BY <1>1, <1>t DEF ReconcilePublication, PublicationApplied, PublicationPending,
       RewriteOnly, disk, JournalType, EvidenceInv, CleanupPending, At
  <2> QED BY <2>1, <1>w
<1>2. CASE ForgetDirectoryStage
  <2>1. /\ journal' = [journal EXCEPT !.directory_stage = FALSE] /\ ~PublicationApplied
        /\ UNCHANGED << dest, tree, terminal, completion >>
    BY <1>2 DEF ForgetDirectoryStage, RewriteOnly, disk
  <2> QED BY <2>1, <1>t DEF EvidenceInv, PublicationApplied, PublicationPending,
          CleanupPending, At, JournalType
<1>3. CASE \/ \E k \in Keys : SetRollbackPending(k)
           \/ BeginRootRestore \/ BeginCompletion \/ RecordCompletion \/ BeginEvidenceClear
  <2>0. Uncommitable
    BY <1>3 DEF SetRollbackPending, BeginRootRestore, BeginCompletion, RecordCompletion,
       BeginEvidenceClear, RollbackFinished
  <2>1. ~journal.directory_stage /\ \A t \in Trees : ~CleanupPending(t)
    BY <2>0 DEF Uncommitable, CleanupPending, At
  <2>2. CASE \E k \in Keys : SetRollbackPending(k)
    BY <2>1, <2>2, <1>t, <1>w DEF SetRollbackPending, RewriteOnly, disk, JournalType,
       EvidenceInv
  <2>3. CASE BeginRootRestore
    BY <2>1, <2>3, <1>t, <1>w DEF BeginRootRestore, RewriteOnly, disk, JournalType,
       EvidenceInv
  <2>4. CASE BeginCompletion
    BY <2>1, <2>4, <1>t, <1>w DEF BeginCompletion, RewriteOnly, disk, JournalType,
       EvidenceInv
  <2>5. CASE RecordCompletion
    BY <2>1, <2>5, <1>t, <1>w DEF RecordCompletion, RewriteOnly, disk, JournalType
  <2>6. CASE BeginEvidenceClear
    BY <2>1, <2>6, <1>t, <1>w DEF BeginEvidenceClear, RewriteOnly, disk, JournalType,
       EvidenceInv
  <2> QED BY <1>3, <2>2, <2>3, <2>4, <2>5, <2>6
<1>p. journal.phase # "publishing" => ~journal.directory_stage
  BY <1>i DEF Inv, PhaseInv, PublicationPending
<1>4. ASSUME NEW k \in Keys, record_rollback(k) PROVE EvidenceInv'
  <2>1. Rewrite
    BY <1>4, <1>p, <1>t DEF record_rollback, RollingBack, RollbackPending, RewriteOnly,
       disk, JournalType, EvidenceInv, CleanupPending, At
  <2> QED BY <2>1, <1>w
<1>5. CASE RecordRootRestored \/ EnterFailedCleanup \/ StartCleanup
  <2>1. CASE RecordRootRestored
    BY <2>1, <1>p, <1>t, <1>w DEF RecordRootRestored, At, RewriteOnly, disk, JournalType,
       EvidenceInv, CleanupPending
  <2>2. CASE EnterFailedCleanup
    BY <2>2, <1>p, <1>t, <1>w DEF EnterFailedCleanup, At, RewriteOnly, disk, JournalType,
       EvidenceInv, CleanupPending
  <2>3. CASE StartCleanup
    BY <2>3, <1>p, <1>t, <1>w DEF StartCleanup, At, RewriteOnly, disk, JournalType,
       EvidenceInv, CleanupPending
  <2> QED BY <1>5, <2>1, <2>2, <2>3
<1>6. CASE NextCleanup
  <2>1. /\ journal.phase = "cleaning-up" /\ journal.checkpoint = "cleanup-done"
        /\ \E i \in DOMAIN CleanupOrder :
              journal' = IF i = Len(CleanupOrder)
                         THEN [journal EXCEPT !.phase = "terminal",
                                              !.checkpoint = "journal-cleanup-pending"]
                         ELSE [journal EXCEPT !.checkpoint = "cleanup-pending",
                                              !.step = CleanupOrder[i + 1]]
        /\ UNCHANGED disk
    BY <1>6 DEF NextCleanup, At, RewriteOnly
  <2>2. Rewrite
    BY <2>1, <1>p, <1>t DEF disk, JournalType, EvidenceInv, CleanupPending, At
  <2> QED BY <2>2, <1>w
<1>7. ASSUME NEW step \in CleanupSteps, record_cleanup(step) PROVE EvidenceInv'
  <2>1. /\ journal.phase = "cleaning-up" /\ journal.step = step
        /\ journal'.checkpoint = "cleanup-done"
        /\ journal'.staged_count = journal.staged_count
        /\ journal'.directory_stage = journal.directory_stage
        /\ journal'.completion_recorded = journal.completion_recorded
        /\ journal'.removed = journal.removed \cup {step}
        /\ tree' = tree /\ terminal' = terminal /\ completion' = completion
    BY <1>7, <1>t DEF record_cleanup, CleanupPending, At, RewriteOnly, disk, JournalType
  <2>2. step = "terminal" => terminal # "absent"
    BY <1>7 DEF record_cleanup, CleanupApplied, Trees
  <2>3. \A t \in Trees : CleanupPending(t) => t = step
    BY <2>1 DEF CleanupPending
  <2> QED BY <2>1, <2>2, <2>3, <1>p, <1>t DEF EvidenceInv, PublicationApplied,
          PublicationPending
<1>8. CASE RemoveJournal
  <2>1. /\ journal' = [journal EXCEPT !.phase = "removed"] /\ journal.phase = "terminal"
        /\ UNCHANGED disk
    BY <1>8 DEF RemoveJournal
  <2>2. journal.checkpoint # "publication-pending"
    BY <2>1, <1>i DEF Inv, PhaseInv
  <2>3. Rewrite
    BY <2>1, <2>2, <1>p, <1>t DEF disk, JournalType, EvidenceInv, CleanupPending, At
  <2> QED BY <2>3, <1>w
<1>9. CASE EmptyStage \/ EmptyBackup \/ \E t \in Trees : RemoveRoot(t)
  <2>1. /\ UNCHANGED << journal, dest, completion, terminal >>
        /\ \E t \in Trees :
              CleanupPending(t) /\ \A u \in Trees : u # t => tree'[u] = tree[u]
    BY <1>9, <1>t DEF EmptyStage, EmptyBackup, RemoveRoot, Trees
  <2>2. \A t \in Trees : CleanupPending(t)' <=> CleanupPending(t)
    BY <2>1 DEF CleanupPending, At
  <2> QED BY <2>1, <2>2, <1>t DEF EvidenceInv, PublicationApplied, PublicationPending
<1>10. CASE \/ DiscardDirectoryStage \/ RestoreArchiveRoot
            \/ \E k \in Keys : RollbackUnlinkDisplaced(k)
  <2>1. UNCHANGED << journal, dest, tree, completion, terminal >>
    BY <1>10 DEF DiscardDirectoryStage, RestoreArchiveRoot, RollbackUnlinkDisplaced
  <2> QED BY <2>1, <1>t DEF EvidenceInv, PublicationApplied, PublicationPending,
          CleanupPending, At
<1>11. CASE WriteCompletion \/ WriteTerminal
  <2>1. /\ UNCHANGED << journal, dest, tree >>
        /\ completion => completion'
        /\ terminal # "absent" => terminal' # "absent"
    BY <1>11 DEF WriteCompletion, WriteTerminal
  <2>2. /\ PublicationApplied' <=> PublicationApplied
        /\ \A t \in Trees : CleanupPending(t)' <=> CleanupPending(t)
    BY <2>1 DEF PublicationApplied, PublicationPending, CleanupPending, At
  <2>3. journal'.completion_recorded => completion'
    BY Zenon, <2>1 DEF EvidenceInv
  <2> QED BY <2>1, <2>2, <2>3, <1>t DEF EvidenceInv
<1>12. CASE \/ \E k \in Keys : RollbackRemove(k) \/ RollbackExchange(k)
            \/ UnlinkMarker
  <2>1. /\ UNCHANGED << journal, tree, completion, terminal >>
        /\ ~PublicationPending
    BY <1>12 DEF RollbackRemove, RollbackExchange, RollingBack, RollbackPending,
       UnlinkMarker, CleanupPending, At, PublicationPending
  <2> QED BY <2>1, <1>t DEF EvidenceInv, PublicationApplied, PublicationPending,
          CleanupPending, At
<1> QED
  BY <1>1, <1>2, <1>3, <1>4, <1>5, <1>6, <1>7, <1>8, <1>9, <1>10, <1>11, <1>12
     DEF RecoveryStep

------------------------------------------------------------------------------
(* The steps that clean up leave the recorded prefixes and the commit alone. *)
LEMMA CleaningKeeps ==
  ASSUME journal \in JournalType,
         \/ StartCleanup \/ UnlinkMarker \/ EmptyStage \/ EmptyBackup
         \/ \E t \in Trees : RemoveRoot(t)
         \/ WriteTerminal \/ \E step \in CleanupSteps : record_cleanup(step)
         \/ NextCleanup \/ RemoveJournal
  PROVE  /\ journal.phase \in {"committed", "cleaning-up", "terminal"}
         /\ journal'.phase \in {"cleaning-up", "terminal", "removed"}
         /\ journal'.committed = journal.committed
         /\ journal'.staged_count = journal.staged_count
         /\ journal'.backed_up_count = journal.backed_up_count
         /\ journal'.published_count = journal.published_count
         /\ journal'.rolled_back = journal.rolled_back
<1>1. CASE StartCleanup
  BY <1>1 DEF StartCleanup, JournalType
<1>2. CASE \/ UnlinkMarker \/ EmptyStage \/ EmptyBackup \/ \E t \in Trees : RemoveRoot(t)
           \/ WriteTerminal
  BY <1>2 DEF UnlinkMarker, EmptyStage, EmptyBackup, RemoveRoot, WriteTerminal,
     CleanupPending, At
<1>3. ASSUME NEW step \in CleanupSteps, record_cleanup(step)
      PROVE  /\ journal.phase = "cleaning-up"
             /\ journal' = [journal EXCEPT !.checkpoint = "cleanup-done",
                                           !.removed = @ \cup {step}]
  BY <1>3 DEF record_cleanup, CleanupPending, At
<1>4. CASE NextCleanup
  <2>1. /\ journal.phase = "cleaning-up"
        /\ \/ journal' = [journal EXCEPT !.phase = "terminal",
                                         !.checkpoint = "journal-cleanup-pending"]
           \/ \E s : journal' = [journal EXCEPT !.checkpoint = "cleanup-pending",
                                                !.step = s]
    BY <1>4 DEF NextCleanup, At
  <2> QED BY <2>1 DEF JournalType
<1>5. CASE RemoveJournal
  BY <1>5 DEF RemoveJournal, JournalType
<1> QED BY <1>1, <1>2, <1>3, <1>4, <1>5 DEF JournalType

(* The steps that roll a key back stay in rollback.                          *)
LEMMA RollingKeeps ==
  ASSUME journal \in JournalType,
         NEW k \in Keys,
         \/ RollbackRemove(k) \/ RollbackExchange(k) \/ RollbackUnlinkDisplaced(k)
         \/ record_rollback(k)
  PROVE  /\ journal.phase = "rolling-back" /\ journal'.phase = "rolling-back"
         /\ journal'.staged_count = journal.staged_count
         /\ journal'.published_count = journal.published_count
         /\ stage' = stage /\ tree' = tree
<1>1. CASE RollbackRemove(k) \/ RollbackExchange(k) \/ RollbackUnlinkDisplaced(k)
  BY <1>1 DEF RollbackRemove, RollbackExchange, RollbackUnlinkDisplaced, RollingBack,
     RollbackPending
<1>2. CASE record_rollback(k)
  BY <1>2 DEF record_rollback, RollingBack, RollbackPending, RewriteOnly, disk, JournalType
<1> QED BY <1>1, <1>2

------------------------------------------------------------------------------
(* The stage, step by step.                                                  *)

(* A step that neither moves a staged object nor touches the publication     *)
(* under way.                                                                *)
LEMMA StageFrame ==
  ASSUME StageInv, plan' = plan, stage' = stage,
         tree'["stage"] = "whole" => tree["stage"] = "whole",
         journal'.staged_count = journal.staged_count,
         journal'.published_count = journal.published_count,
         PublicationPending' <=> PublicationPending,
         PublicationPending => /\ journal'.mutation = journal.mutation
                               /\ dest'[journal.mutation] = dest[journal.mutation]
  PROVE  StageInv'
<1>1. StagedNames' = StagedNames /\ Published' = Published
  BY DEF StagedNames, Published
<1>2. ASSUME NEW n \in Names, StagePlace(n) PROVE StagePlace(n)'
  <2>1. CASE PublicationPending /\ n = journal.mutation
    BY <1>1, <1>2, <2>1 DEF StagePlace
  <2>2. CASE ~(PublicationPending /\ n = journal.mutation)
    <3>1. ~(PublicationPending' /\ n = journal'.mutation)
      BY <2>2
    <3> QED BY <1>1, <1>2, <2>2, <3>1 DEF StagePlace
  <2> QED BY <2>1, <2>2
<1> QED BY <1>2 DEF StageInv

(* The stage starts empty.                                                   *)
LEMMA StageInit == Init => StageInv
<1> SUFFICES ASSUME Init PROVE StageInv
  OBVIOUS
<1>1. /\ stage = [n \in Names |-> "absent"] /\ journal.staged_count = 0
      /\ journal.phase = "staging"
  BY DEF Init, InitialJournal
<1>2. StagedNames = {} /\ ~PublicationPending
  BY <1>1, PrefixEmpty DEF StagedNames, PublicationPending
<1> QED BY <1>1, <1>2 DEF StageInv, StagePlace

(* The name being staged is not yet counted, and is no directory.            *)
LEMMA StagedNext ==
  ASSUME Inv, ProgressInv, JournalLegal, EvidenceInv, RetainInv,
         journal.checkpoint = "staging-pending"
  PROVE  /\ journal.staged_count < Len(plan.staging)
         /\ journal.mutation = plan.staging[journal.staged_count + 1]
         /\ journal.mutation \in Names \ (StagedNames \cup DirectoryKeys)
         /\ Published = {} /\ ~PublicationPending
<1>t. /\ journal \in JournalType /\ WellFormed(plan)
  BY PlansAssumption DEF Inv, TypeOK
<1>1. LegalForward
  BY ForwardState DEF ForwardCheckpoints
<1>2. /\ journal.staged_count < Len(plan.staging) /\ journal.published_count = 0
      /\ journal.mutation = plan.staging[journal.staged_count + 1]
  BY <1>1 DEF LegalForward, NamesNext
<1>3. Published = {}
  BY <1>2, PrefixEmpty DEF Published
<1>4. /\ plan.staging \in Seq(Keys \cup Inputs) /\ journal.staged_count \in Nat
      /\ IsInjective(plan.staging)
  BY <1>t DEF WellFormed, JournalType
<1>5. journal.mutation \in Range(plan.staging) /\ journal.mutation \notin StagedNames
  BY <1>2, <1>4, PrefixNext DEF StagedNames
<1>6. Range(plan.staging) \subseteq Names \ DirectoryKeys
  BY PrivateNames
<1> QED BY <1>2, <1>3, <1>5, <1>6 DEF PublicationPending

(* The writer leaves every staged object in its place.                       *)
LEMMA StageWriter ==
  LegalInv /\ EvidenceInv /\ StageInv /\ WriterStep => StageInv'
<1> SUFFICES ASSUME LegalInv, EvidenceInv, StageInv, WriterStep PROVE StageInv'
  OBVIOUS
<1>i. /\ Inv /\ ProgressInv /\ CleanupInv /\ DestInv /\ RetainInv
      /\ AtomicityInv /\ JournalLegal
  BY DEF LegalInv, AtomicityInv
<1>t. /\ journal \in JournalType /\ WellFormed(plan) /\ plan' = plan
      /\ stage \in [Names -> StageStates] /\ dest \in [Keys -> DestStates]
  BY <1>i, PlansAssumption, PlanKept DEF Inv, TypeOK, Next
<1>k. Keys \subseteq Names
  BY DEF Names
<1>n. /\ StagedNames \subseteq Names \ DirectoryKeys
      /\ Published \subseteq Planned /\ Planned \subseteq Keys
  BY <1>i, PrivateNames
<1>1. CASE UNCHANGED << journal, disk >>
  BY <1>1, <1>t, StageFrame DEF disk, PublicationPending
<1>2. CASE journal.phase \in ForwardPhases
  <2>0. Forward /\ journal.removed = {} /\ tree["stage"] = "whole"
    BY <1>2, <1>i DEF JournalLegal, ForwardPhases, EvidenceInv, CleanupPending, At, Trees
  <2>p. \A n \in Names : StagePlace(n)
    BY <2>0 DEF StageInv
  <2>1. CASE StageFile
    <3>1. /\ journal.checkpoint = "staging-pending" /\ journal' = journal
          /\ stage' = [stage EXCEPT ![journal.mutation] = "new"]
      BY <2>1 DEF StageFile, Writing
    <3>2. /\ journal.mutation \in Names \ (StagedNames \cup DirectoryKeys)
          /\ Published = {} /\ ~PublicationPending
      BY <3>1, <1>i, StagedNext
    <3>3. /\ StagedNames' = StagedNames /\ Published' = Published /\ ~PublicationPending'
      BY <3>1, <3>2, <1>t DEF StagedNames, Published, PublicationPending
    <3>4. ASSUME NEW n \in Names PROVE StagePlace(n)'
      <4>1. StagePlace(n)
        BY <2>p
      <4>2. stage'[n] = IF n = journal.mutation THEN "new" ELSE stage[n]
        BY <3>1, <3>2, <1>t
      <4> QED BY <3>2, <3>3, <4>1, <4>2 DEF StagePlace
    <3> QED BY <3>4 DEF StageInv
  <2>2. CASE record_staging
    <3>1. /\ journal.checkpoint = "staging-pending"
          /\ stage[journal.mutation] = "new" /\ stage' = stage
          /\ journal'.staged_count = journal.staged_count + 1
          /\ journal'.published_count = journal.published_count
          /\ journal'.checkpoint = "staging-done"
      BY <2>2, <1>t DEF record_staging, Writing, JournalType, RewriteOnly, disk
    <3>2. /\ journal.staged_count < Len(plan.staging)
          /\ journal.mutation = plan.staging[journal.staged_count + 1]
          /\ Published = {} /\ ~PublicationPending
      BY <3>1, <1>i, StagedNext
    <3>3. /\ plan.staging \in Seq(Keys \cup Inputs) /\ journal.staged_count \in Nat
      BY <1>t DEF WellFormed, JournalType
    <3>4. StagedNames' = StagedNames \cup {journal.mutation}
      BY <3>1, <3>2, <3>3, <1>t, PrefixStep DEF StagedNames
    <3>5. Published' = Published /\ ~PublicationPending'
      BY <3>1, <1>t DEF Published, PublicationPending
    <3>6. ASSUME NEW n \in Names PROVE StagePlace(n)'
      <4>1. StagePlace(n)
        BY <2>p
      <4> QED BY <3>1, <3>2, <3>4, <3>5, <4>1 DEF StagePlace
    <3> QED BY <3>6 DEF StageInv
  <2>3. CASE begin_publication
    <3>1. /\ stage' = stage /\ dest' = dest
          /\ journal'.staged_count = journal.staged_count
          /\ journal'.published_count = journal.published_count
          /\ PublicationPending'
      BY <2>3, <1>t DEF begin_publication, JournalType, RewriteOnly, disk,
         PublicationPending
    <3>2. /\ journal'.mutation \notin Published
          /\ dest'[journal'.mutation] # "new"
          /\ ~PublicationPending
      BY <2>3, <1>i, AnnouncedIsOutstanding
    <3>3. StagedNames' = StagedNames /\ Published' = Published
      BY <3>1, <1>t DEF StagedNames, Published
    <3>4. ASSUME NEW n \in Names PROVE StagePlace(n)'
      <4>1. StagePlace(n)
        BY <2>p
      <4>2. CASE n = journal'.mutation
        BY <3>1, <3>2, <3>3, <4>1, <4>2 DEF StagePlace
      <4>3. CASE n # journal'.mutation
        BY <3>1, <3>2, <3>3, <4>1, <4>3 DEF StagePlace
      <4> QED BY <4>2, <4>3
    <3> QED BY <3>4 DEF StageInv
  <2>4. CASE begin_staging \/ begin_backup \/ record_backup \/ finish_preparation
             \/ begin_verification \/ finish_verification \/ commit
    <3>1. /\ journal'.staged_count = journal.staged_count
          /\ journal'.published_count = journal.published_count
          /\ journal'.checkpoint # "publication-pending" /\ ~PublicationPending
          /\ stage' = stage /\ tree' = tree
      <4>1. CASE begin_staging \/ begin_backup \/ record_backup
        BY <4>1, <1>t DEF begin_staging, begin_backup, record_backup, JournalType, Writing,
           PublicationPending, RewriteOnly, disk
      <4>2. CASE finish_preparation \/ begin_verification \/ finish_verification \/ commit
        BY <4>2, <1>t DEF finish_preparation, begin_verification, finish_verification,
           commit, JournalType, Writing, PublicationPending, RewriteOnly, disk
      <4> QED BY <2>4, <4>1, <4>2
    <3> QED BY <3>1, <1>t, StageFrame DEF PublicationPending
  <2>5. ASSUME NEW k \in Keys,
               StageDirectory(k) \/ PublishNew(k) \/ ExchangeNew(k) \/ UnlinkDisplaced(k)
        PROVE  StageInv'
    <3>1. /\ journal' = journal /\ journal.mutation = k
          /\ journal.checkpoint = "publication-pending"
      BY <2>5 DEF StageDirectory, PublishNew, ExchangeNew, UnlinkDisplaced,
         ForwardBoundary, Publishing, Writing
    <3>2. PublicationPending
      BY <3>1, <1>i DEF Inv, PhaseInv, PublicationPending
    <3>3. /\ StagedNames' = StagedNames /\ Published' = Published /\ PublicationPending'
      BY <3>1, <3>2, <1>t DEF StagedNames, Published, PublicationPending
    <3>4. StagePlace(k)'
      <4>1. CASE StageDirectory(k)
        <5>1. k \notin StagedNames /\ dest[k] = "absent" /\ dest' = dest
          BY <4>1, <1>n DEF StageDirectory
        <5>2. stage'[k] = "new"
          BY <4>1, <1>k, <1>t DEF StageDirectory
        <5> QED BY <3>1, <3>3, <5>1, <5>2 DEF StagePlace
      <4>2. CASE PublishNew(k) \/ ExchangeNew(k)
        <5>1. dest'[k] = "new" /\ stage'[k] # "new"
          BY <4>2, <1>k, <1>t DEF PublishNew, ExchangeNew
        <5> QED BY <3>1, <3>3, <5>1 DEF StagePlace
      <4>3. CASE UnlinkDisplaced(k)
        <5>1. dest'[k] = "new" /\ stage'[k] # "new"
          BY <4>3, <1>k, <1>t DEF UnlinkDisplaced
        <5> QED BY <3>1, <3>3, <5>1 DEF StagePlace
      <4> QED BY <2>5, <4>1, <4>2, <4>3
    <3>5. ASSUME NEW n \in Names, n # k PROVE StagePlace(n)'
      <4>1. StagePlace(n) /\ stage'[n] = stage[n]
        BY <2>5, <2>p, <3>5, <1>t DEF StageDirectory, PublishNew, ExchangeNew,
           UnlinkDisplaced
      <4> QED BY <3>1, <3>2, <3>3, <3>5, <4>1 DEF StagePlace
    <3> QED BY <3>4, <3>5 DEF StageInv
  <2>6. ASSUME NEW k \in Keys, record_publication(k) PROVE StageInv'
    <3>1. /\ journal.checkpoint = "publication-pending" /\ journal.mutation = k
          /\ stage[k] = "absent" /\ stage' = stage
          /\ journal'.staged_count = journal.staged_count
          /\ journal'.published_count = journal.published_count + 1
          /\ journal'.checkpoint = "publication-done"
      BY <2>6, <1>t DEF record_publication, Publishing, Writing, JournalType, RewriteOnly,
         disk
    <3>2. PublicationPending /\ ~PublicationPending'
      BY <3>1, <1>i DEF Inv, PhaseInv, PublicationPending
    <3>3. StagedNames' = StagedNames /\ Published' = Published \cup {k}
      <4>1. /\ plan.publication \in Seq(Keys) /\ journal.published_count \in Nat
            /\ journal.published_count < Len(plan.publication)
            /\ k = plan.publication[journal.published_count + 1]
        BY <1>t, <1>i, <3>1, <3>2 DEF WellFormed, JournalType, ProgressInv
      <4> QED BY <3>1, <4>1, <1>t, PrefixStep DEF StagedNames, Published
    <3>4. ASSUME NEW n \in Names PROVE StagePlace(n)'
      <4>1. StagePlace(n)
        BY <2>p
      <4>2. CASE n = k
        BY <3>1, <3>2, <3>3, <4>2 DEF StagePlace
      <4>3. CASE n # k
        BY <3>1, <3>2, <3>3, <4>1, <4>3 DEF StagePlace
      <4> QED BY <4>2, <4>3
    <3> QED BY <3>4 DEF StageInv
  <2>7. CASE CopyBackup \/ WriterReturns \/ \E k \in Keys : RecordDirectoryStage(k)
    <3>1. /\ stage' = stage /\ dest' = dest /\ tree' = tree
          /\ journal'.staged_count = journal.staged_count
          /\ journal'.published_count = journal.published_count
          /\ journal'.phase = journal.phase
          /\ journal'.checkpoint = journal.checkpoint
          /\ journal'.mutation = journal.mutation
      BY <2>7, <1>t DEF CopyBackup, WriterReturns, RecordDirectoryStage, JournalType,
         RewriteOnly, disk
    <3> QED BY <3>1, <1>t, StageFrame DEF PublicationPending
  <2> QED BY <2>1, <2>2, <2>3, <2>4, <2>5, <2>6, <2>7 DEF WriterStep
<1> QED BY <1>1, <1>2, <1>i, WriterIsForward

(* Recovery records a publication or gives it up, removes what it may have   *)
(* staged, and otherwise leaves the stage alone until it removes it.         *)
LEMMA StageRecovery ==
  LegalInv /\ PrivateInv /\ RecoveryStep => StageInv'
<1> SUFFICES ASSUME LegalInv, PrivateInv, RecoveryStep PROVE StageInv'
  OBVIOUS
<1>i. /\ Inv /\ ProgressInv /\ CleanupInv /\ RetainInv /\ JournalLegal
      /\ EvidenceInv /\ StageInv /\ RecoveringInv
  BY DEF LegalInv, AtomicityInv, PrivateInv
<1>t. /\ journal \in JournalType /\ WellFormed(plan) /\ plan' = plan
      /\ stage \in [Names -> StageStates]
      /\ tree \in [Trees -> {"whole", "partial", "gone"}]
  BY <1>i, PlansAssumption, PlanKept DEF Inv, TypeOK, Next
<1>n. StagedNames \subseteq Names \ DirectoryKeys
  BY <1>i, PrivateNames
<1>k. Keys \subseteq Names /\ "stage" \in Trees
  BY DEF Names, Trees
(* The pending publication and what its name in the stage holds.             *)
<1>m. ASSUME PublicationPending
      PROVE  /\ journal.mutation \in Keys /\ journal.mutation \notin Published
             /\ plan.publication \in Seq(Keys) /\ journal.published_count \in Nat
             /\ journal.published_count < Len(plan.publication)
             /\ journal.mutation = plan.publication[journal.published_count + 1]
             /\ tree["stage"] = "whole" => StagePlace(journal.mutation)
  <2>1. /\ plan.publication \in Seq(Keys) /\ journal.published_count \in Nat
        /\ journal.published_count < Len(plan.publication)
        /\ journal.mutation = plan.publication[journal.published_count + 1]
        /\ IsInjective(plan.publication)
    BY <1>m, <1>t, <1>i DEF WellFormed, JournalType, ProgressInv
  <2>2. journal.mutation \in Keys /\ journal.mutation \notin Published
    BY <2>1, PrefixNext DEF Published
  <2> QED BY <2>1, <2>2, <1>i, <1>k DEF StageInv
<1>1. CASE ReconcilePublication
  <2>1. /\ PublicationPending /\ dest[journal.mutation] = "new" /\ Recovering
        /\ stage' = stage /\ tree' = tree
        /\ journal'.staged_count = journal.staged_count
        /\ journal'.published_count = journal.published_count + 1
        /\ journal'.checkpoint = "publication-done"
    BY <1>1, <1>t DEF ReconcilePublication, PublicationApplied, JournalType, RewriteOnly,
       disk
  <2>2. tree["stage"] = "whole" => stage[journal.mutation] = "absent"
    BY <2>1, <1>m, <1>i, <1>t, <1>k DEF StagePlace, RecoveringInv, Recovering, StageStates
  <2>3. /\ StagedNames' = StagedNames /\ Published' = Published \cup {journal.mutation}
        /\ ~PublicationPending'
    BY <2>1, <1>m, <1>t, PrefixStep DEF StagedNames, Published, PublicationPending
  <2>4. ASSUME tree["stage"] = "whole", NEW n \in Names PROVE StagePlace(n)'
    <3>1. StagePlace(n)
      BY <2>4, <1>i DEF StageInv
    <3>2. CASE n = journal.mutation
      BY <2>1, <2>2, <2>3, <2>4, <3>2 DEF StagePlace
    <3>3. CASE n # journal.mutation
      BY <2>1, <2>3, <3>1, <3>3 DEF StagePlace
    <3> QED BY <3>2, <3>3
  <2> QED BY <2>1, <2>4 DEF StageInv
<1>2. CASE DiscardDirectoryStage
  <2>1. /\ journal' = journal /\ dest' = dest /\ tree' = tree /\ PublicationPending
        /\ dest[journal.mutation] # "new" /\ journal.mutation \in DirectoryKeys
        /\ stage' = [stage EXCEPT ![journal.mutation] = "absent"]
    BY <1>2, <1>i DEF DiscardDirectoryStage, PublicationApplied, Inv, PhaseInv, EvidenceInv
  <2>2. StagedNames' = StagedNames /\ Published' = Published /\ PublicationPending'
    BY <2>1, <1>t DEF StagedNames, Published, PublicationPending
  <2>3. ASSUME tree["stage"] = "whole", NEW n \in Names PROVE StagePlace(n)'
    <3>1. /\ StagePlace(n) /\ journal.mutation \in Names
          /\ stage'[n] = IF n = journal.mutation THEN "absent" ELSE stage[n]
      BY <2>1, <2>3, <1>i, <1>k, <1>m, <1>t DEF StageInv
    <3>2. CASE n = journal.mutation
      BY <2>1, <2>2, <3>1, <3>2, <1>n DEF StagePlace
    <3>3. CASE n # journal.mutation
      BY <2>1, <2>2, <3>1, <3>3 DEF StagePlace
    <3> QED BY <3>2, <3>3
  <2> QED BY <2>1, <2>3 DEF StageInv
<1>3. CASE \/ \E k \in Keys : SetRollbackPending(k)
           \/ BeginRootRestore \/ BeginCompletion \/ RecordCompletion \/ BeginEvidenceClear
  <2>1. /\ Uncommitable /\ stage' = stage /\ tree' = tree
        /\ journal'.staged_count = journal.staged_count
        /\ journal'.published_count = journal.published_count
        /\ journal'.checkpoint # "publication-pending"
    BY <1>3, <1>t DEF SetRollbackPending, BeginRootRestore, BeginCompletion,
       RecordCompletion, BeginEvidenceClear, RollbackFinished, JournalType, RewriteOnly,
       disk
  <2>2. StagedNames' = StagedNames /\ Published' = Published /\ ~PublicationPending'
    BY <2>1, <1>t DEF StagedNames, Published, PublicationPending
  <2>3. CASE ~PublicationPending
    BY <2>1, <2>2, <2>3, <1>i, <1>t, StageFrame
  <2>4. CASE PublicationPending
    <3>1. /\ dest[journal.mutation] # "new" /\ ~journal.directory_stage /\ Recovering
      BY <2>1, <2>4 DEF Uncommitable, PublicationApplied
    <3>2. ASSUME tree["stage"] = "whole", NEW n \in Names PROVE StagePlace(n)'
      <4>1. StagePlace(n) /\ stage[n] \in StageStates
        BY <3>2, <1>i, <1>t DEF StageInv
      <4>2. CASE n = journal.mutation
        BY <2>1, <2>2, <2>4, <3>1, <4>1, <4>2, <1>i, <1>m
           DEF StagePlace, RecoveringInv, Recovering, StageStates
      <4>3. CASE n # journal.mutation
        BY <2>1, <2>2, <4>1, <4>3 DEF StagePlace
      <4> QED BY <4>2, <4>3
    <3> QED BY <2>1, <3>2 DEF StageInv
  <2> QED BY <2>3, <2>4
<1>4. CASE EmptyStage
  <2>1. tree'["stage"] = "partial"
    BY <1>4, <1>k, <1>t DEF EmptyStage
  <2> QED BY <2>1 DEF StageInv
(* Every other step is a frame.                                              *)
<1> DEFINE Kept == /\ journal'.staged_count = journal.staged_count
                   /\ journal'.published_count = journal.published_count
                   /\ stage' = stage
                   /\ tree'["stage"] = "whole" => tree["stage"] = "whole"
<1>w. ASSUME Kept, \/ ~PublicationPending /\ ~PublicationPending'
                   \/ /\ dest' = dest /\ journal'.phase = journal.phase
                      /\ journal'.checkpoint = journal.checkpoint
                      /\ journal'.mutation = journal.mutation
      PROVE  StageInv'
  BY <1>w, <1>i, <1>t, StageFrame DEF PublicationPending
<1>5. CASE ForgetDirectoryStage \/ RestoreArchiveRoot \/ WriteCompletion \/ WriteTerminal
  BY <1>5, <1>w, <1>t DEF ForgetDirectoryStage, RestoreArchiveRoot, WriteCompletion,
     WriteTerminal, RewriteOnly, disk, JournalType
<1>6. CASE \/ \E k \in Keys : \/ RollbackRemove(k) \/ RollbackExchange(k)
                              \/ RollbackUnlinkDisplaced(k) \/ record_rollback(k)
           \/ RecordRootRestored \/ EnterFailedCleanup
  <2>1. /\ journal.phase = "rolling-back" /\ Kept
        /\ journal'.phase \in {"rolling-back", "cleaning-up"}
    <3>1. ASSUME NEW k \in Keys,
                 \/ RollbackRemove(k) \/ RollbackExchange(k)
                 \/ RollbackUnlinkDisplaced(k) \/ record_rollback(k)
          PROVE  /\ journal.phase = "rolling-back" /\ Kept
                 /\ journal'.phase = "rolling-back"
      BY <3>1, <1>t, RollingKeeps
    <3>2. CASE RecordRootRestored
      BY <3>2, <1>t DEF RecordRootRestored, At, RewriteOnly, disk, JournalType
    <3>3. CASE EnterFailedCleanup
      BY <3>3, <1>t DEF EnterFailedCleanup, At, RewriteOnly, disk, JournalType
    <3> QED BY <1>6, <3>1, <3>2, <3>3
  <2> QED BY <2>1, <1>w DEF PublicationPending
<1>7. CASE \/ StartCleanup \/ UnlinkMarker \/ EmptyBackup \/ \E t \in Trees : RemoveRoot(t)
           \/ \E step \in CleanupSteps : record_cleanup(step)
           \/ NextCleanup \/ RemoveJournal
  <2>1. /\ journal.phase \in {"committed", "cleaning-up", "terminal"}
        /\ journal'.phase \in {"cleaning-up", "terminal", "removed"}
        /\ journal'.staged_count = journal.staged_count
        /\ journal'.published_count = journal.published_count
    BY <1>7, <1>t, CleaningKeeps
  <2>2. /\ stage' = stage
        /\ tree'["stage"] = "whole" => tree["stage"] = "whole"
    BY <1>7, <1>k, <1>t DEF StartCleanup, UnlinkMarker, EmptyBackup, RemoveRoot,
       record_cleanup, NextCleanup, RemoveJournal, RewriteOnly, disk
  <2> QED BY <2>1, <2>2, <1>w DEF PublicationPending
<1> QED BY <1>1, <1>2, <1>3, <1>4, <1>5, <1>6, <1>7 DEF RecoveryStep

------------------------------------------------------------------------------
(* The backup, step by step.                                                 *)

(* A failed transaction is being cleaned up.                                 *)
Failing == journal.phase \in CleanupPhases /\ ~journal.committed

(* A step that neither makes nor moves a copy nor touches the rollback under *)
(* way.                                                                      *)
LEMMA BackupFrame ==
  ASSUME BackupInv, plan' = plan, backup' = backup,
         tree'["backup"] = "whole" => tree["backup"] = "whole",
         journal'.backed_up_count = journal.backed_up_count,
         journal'.rolled_back = journal.rolled_back,
         Failing' <=> Failing,
         Failing => journal'.published_count = journal.published_count,
         RollbackPending' <=> RollbackPending,
         RollbackPending => /\ journal'.mutation = journal.mutation
                            /\ dest'[journal.mutation] = dest[journal.mutation]
  PROVE  BackupInv'
<1>1. BackedUp' = BackedUp /\ (Failing => Published' = Published)
  BY DEF BackedUp, Published
<1>2. ASSUME NEW k \in Keys, BackupPlace(k) PROVE BackupPlace(k)'
  <2>1. CASE RollbackPending /\ k = journal.mutation
    BY <1>1, <1>2, <2>1 DEF BackupPlace
  <2>2. CASE ~(RollbackPending /\ k = journal.mutation)
    <3>1. ~(RollbackPending' /\ k = journal'.mutation)
      BY <2>2
    <3>2. \/ k \in journal'.rolled_back
          \/ journal'.phase \in CleanupPhases /\ ~journal'.committed /\ k \in Published'
          <=> \/ k \in journal.rolled_back
              \/ journal.phase \in CleanupPhases /\ ~journal.committed /\ k \in Published
      BY <1>1 DEF Failing
    <3> QED BY <1>1, <1>2, <2>2, <3>1, <3>2 DEF BackupPlace
  <2> QED BY <2>1, <2>2
<1> QED BY <1>2 DEF BackupInv

(* The backup starts empty.                                                  *)
LEMMA BackupInit == Init => BackupInv
<1> SUFFICES ASSUME Init PROVE BackupInv
  OBVIOUS
<1>1. backup = [k \in Keys |-> "absent"] /\ journal.backed_up_count = 0
  BY DEF Init, InitialJournal
<1>2. BackedUp = {}
  BY <1>1, PrefixEmpty DEF BackedUp
<1> QED BY <1>1, <1>2 DEF BackupInv, BackupPlace

(* The writer makes the copies, one at a time, and then leaves them alone.   *)
LEMMA BackupWriter ==
  LegalInv /\ BackupInv /\ WriterStep => BackupInv'
<1> SUFFICES ASSUME LegalInv, BackupInv, WriterStep PROVE BackupInv'
  OBVIOUS
<1>i. Inv /\ ProgressInv /\ RetainInv /\ JournalLegal
  BY DEF LegalInv, AtomicityInv
<1>t. /\ journal \in JournalType /\ WellFormed(plan) /\ plan' = plan
      /\ backup \in [Keys -> BackupStates]
  BY <1>i, PlansAssumption, PlanKept DEF Inv, TypeOK, Next
<1>1. CASE UNCHANGED << journal, disk >>
  BY <1>1, <1>t, BackupFrame DEF disk, RollbackPending, Failing
<1>2. CASE journal.phase \in ForwardPhases
  <2>1. /\ journal'.phase \in ForwardPhases \cup {"committed"}
        /\ journal'.rolled_back = journal.rolled_back
        /\ tree' = tree
    BY ZenonT(60), <1>2, <1>t DEF JournalType, Writing, Publishing, ForwardPhases,
       RewriteOnly, disk, ForwardBoundary, WriterStep, StageFile, record_staging,
       begin_staging, begin_backup, CopyBackup, record_backup, finish_preparation,
       begin_publication, StageDirectory, RecordDirectoryStage, PublishNew, ExchangeNew,
       UnlinkDisplaced, record_publication, begin_verification, finish_verification,
       commit, WriterReturns
  <2>2. /\ ~RollbackPending /\ ~RollbackPending' /\ ~Failing /\ ~Failing'
    BY <1>2, <2>1 DEF RollbackPending, Failing, ForwardPhases, CleanupPhases
  <2>3. CASE backup' = backup /\ journal'.backed_up_count = journal.backed_up_count
    BY <2>1, <2>2, <2>3, <1>t, BackupFrame
  (* Before the first rollback a recorded backup is a copy.                  *)
  <2>4. journal.rolled_back = {}
    BY <1>2, <1>i DEF ProgressInv, ForwardPhases
  <2>5. ASSUME journal.checkpoint = "backup-pending"
        PROVE  /\ plan.backups \in Seq(Keys) /\ journal.backed_up_count \in Nat
               /\ journal.backed_up_count < Len(plan.backups)
               /\ journal.mutation = plan.backups[journal.backed_up_count + 1]
               /\ journal.mutation \in Keys \ BackedUp
    <3>1. /\ plan.backups \in Seq(Keys) /\ journal.backed_up_count \in Nat
          /\ journal.backed_up_count < Len(plan.backups)
          /\ journal.mutation = plan.backups[journal.backed_up_count + 1]
          /\ IsInjective(plan.backups)
      BY <2>5, <1>i, <1>t DEF RetainInv, WellFormed, JournalType
    <3> QED BY <3>1, PrefixNext DEF BackedUp
  <2>6. CASE CopyBackup
    <3>1. /\ journal.checkpoint = "backup-pending" /\ journal' = journal
          /\ backup' = [backup EXCEPT ![journal.mutation] = "copy"]
      BY <2>6 DEF CopyBackup, Writing
    <3>2. BackedUp' = BackedUp
      BY <3>1, <1>t DEF BackedUp
    <3>3. ASSUME tree["backup"] = "whole", NEW k \in Keys PROVE BackupPlace(k)'
      <4>1. /\ BackupPlace(k)
            /\ backup'[k] = IF k = journal.mutation THEN "copy" ELSE backup[k]
        BY <3>1, <3>3, <1>t DEF BackupInv
      <4> QED BY <2>1, <2>2, <2>4, <2>5, <3>1, <3>2, <4>1 DEF BackupPlace, Failing
    <3> QED BY <2>1, <3>3 DEF BackupInv
  <2>7. CASE record_backup
    <3>1. /\ journal.checkpoint = "backup-pending" /\ backup' = backup
          /\ backup[journal.mutation] = "copy"
          /\ journal'.backed_up_count = journal.backed_up_count + 1
      BY <2>7, <1>t DEF record_backup, Writing, JournalType, RewriteOnly, disk
    <3>2. BackedUp' = BackedUp \cup {journal.mutation}
      BY <2>5, <3>1, <1>t, PrefixStep DEF BackedUp
    <3>3. ASSUME tree["backup"] = "whole", NEW k \in Keys PROVE BackupPlace(k)'
      <4>1. BackupPlace(k)
        BY <3>3 DEF BackupInv
      <4> QED BY <2>1, <2>2, <2>4, <3>1, <3>2, <4>1 DEF BackupPlace, Failing
    <3> QED BY <2>1, <3>3 DEF BackupInv
  <2>8. \/ CopyBackup \/ record_backup
        \/ backup' = backup /\ journal'.backed_up_count = journal.backed_up_count
    BY ZenonT(60), <1>t DEF WriterStep, StageFile, record_staging, begin_staging,
       begin_backup, finish_preparation, begin_publication, StageDirectory,
       RecordDirectoryStage, PublishNew, ExchangeNew, UnlinkDisplaced, record_publication,
       begin_verification, finish_verification, commit, WriterReturns, RewriteOnly, disk,
       JournalType
  <2> QED BY <2>3, <2>6, <2>7, <2>8
<1> QED BY <1>1, <1>2, <1>i, WriterIsForward

(* A key whose rollback is announced has been published and is there.        *)
LEMMA AnnouncedRollback ==
  ASSUME LegalInv, NEW k \in Keys, SetRollbackPending(k)
  PROVE  k \in Published \ journal.rolled_back /\ dest[k] = "new"
<1>i. Inv /\ ProgressInv /\ CleanupInv /\ DestInv /\ JournalLegal
  BY DEF LegalInv, AtomicityInv
<1>1. /\ k \in Published \ journal.rolled_back /\ Uncommitable /\ ~RollbackPending
  BY DEF SetRollbackPending, RollbackNext
<1>2. k \in Planned
  BY <1>1, <1>i, PublishedPlanned
<1>3. /\ journal.phase \notin CleanupPhases /\ ~journal.committed /\ journal.removed = {}
      /\ ~CleanupPending("archive-marker")
  BY <1>1, <1>i, RollbackState DEF Uncommitable, CleanupPhases, Uncommitted,
     CleanupPending, At
<1>4. Expected(k) = "new"
  BY <1>1, <1>3 DEF Expected
<1> QED BY <1>1, <1>2, <1>3, <1>4, <1>i DEF DestInv

(* Whatever is published has had its original backed up.                     *)
LEMMA PublishedIsBackedUp ==
  ASSUME Inv, ProgressInv, RetainInv, NEW k \in Published, k \in plan.existing
  PROVE  k \in BackedUp
<1>t. journal \in JournalType /\ WellFormed(plan)
  BY PlansAssumption DEF Inv, TypeOK
<1>1. journal.published_count > 0
  BY <1>t, PrefixEmpty DEF Published, Prefix, JournalType
<1>2. BackedUp = Range(plan.backups)
  BY <1>1, <1>t, PrefixWhole DEF RetainInv, BackedUp, WellFormed
<1> QED BY <1>2, <1>t DEF WellFormed

(* Recovery uses a copy to restore its original and then drops it; the other *)
(* copies stay until the tree is removed.                                    *)
LEMMA BackupRecovery ==
  LegalInv /\ PrivateInv /\ RecoveryStep => BackupInv'
<1> SUFFICES ASSUME LegalInv, PrivateInv, RecoveryStep PROVE BackupInv'
  OBVIOUS
<1>i. /\ Inv /\ ProgressInv /\ RetainInv /\ JournalLegal /\ EvidenceInv /\ BackupInv
  BY DEF LegalInv, AtomicityInv, PrivateInv
<1>t. /\ journal \in JournalType /\ WellFormed(plan) /\ plan' = plan
      /\ backup \in [Keys -> BackupStates] /\ dest \in [Keys -> DestStates]
      /\ tree \in [Trees -> {"whole", "partial", "gone"}]
  BY <1>i, PlansAssumption, PlanKept DEF Inv, TypeOK, Next
<1>n. BackedUp \subseteq plan.existing
  BY <1>i, PrivateNames
<1>k. "backup" \in Trees
  BY DEF Trees
<1>p. PublicationPending => ~RollbackPending
  BY DEF PublicationPending, RollbackPending
<1>c. Recovering /\ journal.phase = "rolling-back" => ~journal.committed
  BY <1>i DEF Inv, PhaseInv
<1>1. ASSUME NEW k \in Keys, SetRollbackPending(k) PROVE BackupInv'
  <2>1. /\ ~RollbackPending /\ RollbackPending' /\ journal'.mutation = k
        /\ journal.phase \notin CleanupPhases /\ journal'.phase = "rolling-back"
        /\ journal'.rolled_back = journal.rolled_back
        /\ journal'.backed_up_count = journal.backed_up_count
        /\ backup' = backup /\ tree' = tree /\ dest' = dest
    BY <1>1, <1>t DEF SetRollbackPending, Uncommitable, RollbackPending, CleanupPhases,
       JournalType, RewriteOnly, disk
  <2>2. k \in Published \ journal.rolled_back /\ dest[k] = "new"
    BY <1>1, AnnouncedRollback
  <2>3. BackedUp' = BackedUp
    BY <2>1, <1>t DEF BackedUp
  <2>4. ASSUME tree["backup"] = "whole", NEW n \in Keys PROVE BackupPlace(n)'
    <3>1. BackupPlace(n)
      BY <2>4, <1>i DEF BackupInv
    <3>2. CASE n = k
      BY <2>1, <2>2, <2>3, <3>1, <3>2 DEF BackupPlace
    <3>3. CASE n # k
      BY <2>1, <2>3, <3>1, <3>3 DEF BackupPlace, CleanupPhases
    <3> QED BY <3>2, <3>3
  <2> QED BY <2>1, <2>4 DEF BackupInv
<1>2. ASSUME NEW k \in Keys,
             RollbackRemove(k) \/ RollbackExchange(k) \/ RollbackUnlinkDisplaced(k)
      PROVE  BackupInv'
  <2>1. /\ journal' = journal /\ tree' = tree /\ RollbackPending /\ journal.mutation = k
        /\ journal.phase \notin CleanupPhases
    BY <1>2 DEF RollbackRemove, RollbackExchange, RollbackUnlinkDisplaced, RollingBack,
       RollbackPending, CleanupPhases
  <2>2. /\ RollbackPending' /\ BackedUp' = BackedUp /\ journal'.phase \notin CleanupPhases
    BY <2>1, <1>t DEF RollbackPending, BackedUp
  <2>3. ASSUME tree["backup"] = "whole" PROVE BackupPlace(k)'
    <3>1. BackupPlace(k)
      BY <2>3, <1>i DEF BackupInv
    <3>2. CASE RollbackRemove(k)
      <4>1. k \notin BackedUp /\ backup' = backup
        BY <3>2, <1>n DEF RollbackRemove
      <4> QED BY <4>1, <2>2, <3>1 DEF BackupPlace
    <3>3. CASE RollbackExchange(k)
      <4>1. k \in Published /\ k \in plan.existing
        BY <3>3, <2>1, <1>i DEF RollbackExchange, ProgressInv
      <4>2. k \in BackedUp
        BY <4>1, <1>i, PublishedIsBackedUp
      <4>3. dest'[k] = "copy" /\ backup'[k] = "new"
        BY <3>3, <1>t DEF RollbackExchange
      <4> QED BY <2>1, <2>2, <4>2, <4>3 DEF BackupPlace
    <3>4. CASE RollbackUnlinkDisplaced(k)
      <4>1. dest'[k] = "copy" /\ backup'[k] = "absent"
        BY <3>4, <1>t DEF RollbackUnlinkDisplaced
      <4> QED BY <2>1, <2>2, <4>1 DEF BackupPlace
    <3> QED BY <1>2, <3>2, <3>3, <3>4
  <2>4. ASSUME tree["backup"] = "whole", NEW n \in Keys, n # k PROVE BackupPlace(n)'
    <3>1. BackupPlace(n) /\ backup'[n] = backup[n]
      BY <1>2, <2>4, <1>i, <1>t DEF BackupInv, RollbackRemove, RollbackExchange,
         RollbackUnlinkDisplaced
    <3> QED BY <2>1, <2>2, <2>4, <3>1 DEF BackupPlace
  <2> QED BY <2>1, <2>3, <2>4 DEF BackupInv
<1>3. ASSUME NEW k \in Keys, record_rollback(k) PROVE BackupInv'
  <2>1. /\ RollbackPending /\ journal.mutation = k /\ backup[k] = "absent"
        /\ ~RollbackPending' /\ backup' = backup /\ tree' = tree
        /\ journal.phase \notin CleanupPhases /\ journal'.phase = journal.phase
        /\ journal'.rolled_back = journal.rolled_back \cup {k}
        /\ journal'.backed_up_count = journal.backed_up_count
    BY <1>3, <1>t DEF record_rollback, RollingBack, RollbackPending, CleanupPhases,
       JournalType, RewriteOnly, disk
  <2>2. BackedUp' = BackedUp
    BY <2>1, <1>t DEF BackedUp
  <2>3. ASSUME tree["backup"] = "whole", NEW n \in Keys PROVE BackupPlace(n)'
    <3>1. BackupPlace(n)
      BY <2>3, <1>i DEF BackupInv
    <3> QED BY <2>1, <2>2, <3>1 DEF BackupPlace
  <2> QED BY <2>1, <2>3 DEF BackupInv
<1>4. CASE EnterFailedCleanup
  <2>1. /\ journal.phase = "rolling-back"
        /\ journal.checkpoint = "rollback-evidence-clear-pending"
        /\ journal'.phase = "cleaning-up" /\ journal'.rolled_back = {}
        /\ journal'.committed = journal.committed
        /\ journal'.backed_up_count = journal.backed_up_count
        /\ journal'.published_count = journal.published_count
        /\ backup' = backup /\ tree' = tree
    BY <1>4, <1>t DEF EnterFailedCleanup, At, JournalType, RewriteOnly, disk
  <2>2. journal.rolled_back = Published /\ ~journal.committed
    BY <2>1, <1>i DEF ProgressInv, CompletionCheckpoints, Inv, PhaseInv
  <2>3. BackedUp' = BackedUp /\ Published' = Published
    BY <2>1, <1>t DEF BackedUp, Published
  <2>4. ~RollbackPending /\ ~RollbackPending'
    BY <2>1 DEF RollbackPending
  <2>5. ASSUME tree["backup"] = "whole", NEW n \in Keys PROVE BackupPlace(n)'
    <3>1. BackupPlace(n)
      BY <2>5, <1>i DEF BackupInv
    <3> QED BY <2>1, <2>2, <2>3, <2>4, <3>1 DEF BackupPlace, CleanupPhases
  <2> QED BY <2>1, <2>5 DEF BackupInv
<1>5. CASE EmptyBackup
  <2>1. tree'["backup"] = "partial"
    BY <1>5, <1>k, <1>t DEF EmptyBackup
  <2> QED BY <2>1 DEF BackupInv
(* Every other step is a frame.                                              *)
<1> DEFINE Kept == /\ journal'.backed_up_count = journal.backed_up_count
                   /\ journal'.rolled_back = journal.rolled_back
                   /\ backup' = backup
                   /\ tree'["backup"] = "whole" => tree["backup"] = "whole"
<1>6. CASE \/ DiscardDirectoryStage \/ RestoreArchiveRoot \/ WriteCompletion
           \/ WriteTerminal
  <2>1. journal' = journal /\ dest' = dest /\ backup' = backup /\ tree' = tree
    BY <1>6 DEF DiscardDirectoryStage, RestoreArchiveRoot, WriteCompletion, WriteTerminal
  <2> QED BY <2>1, <1>i, <1>t, BackupFrame DEF RollbackPending, Failing
<1>7. CASE ReconcilePublication \/ ForgetDirectoryStage
  <2>1. PublicationPending
    BY <1>7, <1>i DEF ReconcilePublication, ForgetDirectoryStage, PublicationApplied, Inv,
       PhaseInv
  <2>2. /\ Kept /\ journal.phase = "publishing" /\ journal'.phase = "publishing"
    BY <1>7, <2>1, <1>t DEF ReconcilePublication, ForgetDirectoryStage, JournalType,
       RewriteOnly, disk, PublicationPending
  <2> QED BY <2>2, <1>i, <1>t, BackupFrame DEF RollbackPending, Failing, CleanupPhases
<1>8. CASE \/ BeginRootRestore \/ BeginCompletion \/ RecordCompletion
           \/ BeginEvidenceClear \/ RecordRootRestored
  <2>1. ~RollbackPending
    BY <1>8, <1>i DEF BeginRootRestore, BeginCompletion, RecordCompletion,
       BeginEvidenceClear, RollbackFinished, RecordRootRestored, RollbackPending, At,
       ProgressInv
  <2>2. /\ Kept /\ journal.phase \notin CleanupPhases
        /\ journal'.phase \notin CleanupPhases
        /\ journal'.checkpoint # "rollback-pending"
    <3>1. CASE BeginRootRestore
      BY <3>1, <1>t DEF BeginRootRestore, Uncommitable, JournalType, RewriteOnly, disk,
         CleanupPhases
    <3>2. CASE BeginCompletion
      BY <3>2, <1>t DEF BeginCompletion, RollbackFinished, Uncommitable, JournalType,
         RewriteOnly, disk, CleanupPhases
    <3>3. CASE RecordCompletion
      BY <3>3, <1>t DEF RecordCompletion, RollbackFinished, Uncommitable, JournalType,
         RewriteOnly, disk, CleanupPhases
    <3>4. CASE BeginEvidenceClear
      BY <3>4, <1>t DEF BeginEvidenceClear, RollbackFinished, Uncommitable, JournalType,
         RewriteOnly, disk, CleanupPhases
    <3>5. CASE RecordRootRestored
      BY <3>5, <1>t DEF RecordRootRestored, At, JournalType, RewriteOnly, disk,
         CleanupPhases
    <3> QED BY <1>8, <3>1, <3>2, <3>3, <3>4, <3>5
  <2> QED BY <2>1, <2>2, <1>i, <1>t, BackupFrame DEF RollbackPending, Failing
<1>9. CASE \/ StartCleanup \/ UnlinkMarker \/ EmptyStage \/ \E t \in Trees : RemoveRoot(t)
           \/ \E step \in CleanupSteps : record_cleanup(step)
           \/ NextCleanup \/ RemoveJournal
  <2>1. /\ journal.phase \in {"committed", "cleaning-up", "terminal"}
        /\ journal'.phase \in {"cleaning-up", "terminal", "removed"}
        /\ journal'.committed = journal.committed
        /\ journal'.published_count = journal.published_count
        /\ journal'.backed_up_count = journal.backed_up_count
        /\ journal'.rolled_back = journal.rolled_back
    BY <1>9, <1>t, CleaningKeeps
  <2>2. /\ backup' = backup
        /\ tree'["backup"] = "whole" => tree["backup"] = "whole"
    BY <1>9, <1>k, <1>t DEF StartCleanup, UnlinkMarker, EmptyStage, RemoveRoot,
       record_cleanup, NextCleanup, RemoveJournal, RewriteOnly, disk
  <2>3. journal.phase = "committed" => journal.committed
    BY <1>i DEF Inv, PhaseInv
  <2>4. /\ Failing' <=> Failing
        /\ ~RollbackPending /\ ~RollbackPending'
    BY <2>1, <2>3 DEF Failing, RollbackPending, CleanupPhases
  <2> QED BY <2>1, <2>2, <2>4, <1>i, <1>t, BackupFrame
<1> QED BY <1>1, <1>2, <1>3, <1>4, <1>5, <1>6, <1>7, <1>8, <1>9 DEF RecoveryStep

------------------------------------------------------------------------------
(* A recovery begins past its preflight, and never announces a publication.  *)

(* The preflight has seen the name of the pending publication.               *)
LEMMA RecoveryBegins ==
  LegalInv /\ PrivateInv /\ StartRecovery => RecoveringInv'
<1> SUFFICES ASSUME LegalInv, PrivateInv, StartRecovery, PublicationPending'
             PROVE  /\ stage'[journal'.mutation] # "original"
                    /\ /\ journal'.mutation \in DirectoryKeys
                       /\ stage'[journal'.mutation] = "new"
                       => journal'.directory_stage
  BY DEF RecoveringInv
<1>1. /\ journal' = journal /\ stage' = stage /\ PublicationPending /\ StageTreeValid
  BY DEF StartRecovery, disk, PublicationPending, Preflight
<1>i. /\ Inv /\ ProgressInv /\ RetainInv /\ JournalLegal /\ EvidenceInv
  BY DEF LegalInv, AtomicityInv, PrivateInv
<1>2. /\ tree["stage"] = "whole" /\ journal.checkpoint = "publication-pending"
  BY <1>1, <1>i DEF PublicationPending, EvidenceInv, CleanupPending, At, Trees, JournalLegal
<1>3. journal.mutation \in Names
  <2>1. /\ plan.publication \in Seq(Keys) /\ journal.published_count \in Nat
        /\ journal.published_count < Len(plan.publication)
        /\ journal.mutation = plan.publication[journal.published_count + 1]
    BY <1>1, <1>i, PlansAssumption DEF Inv, TypeOK, WellFormed, JournalType, ProgressInv
  <2> QED BY <2>1, ElementInRange DEF Names
<1>4. stage[journal.mutation] # "absent" =>
         /\ stage[journal.mutation] = "new"
         /\ journal.mutation \in StagedNames \/ journal.directory_stage
  BY <1>1, <1>2, <1>3 DEF StageTreeValid
<1>5. StagedNames \subseteq Names \ DirectoryKeys
  BY <1>i, PrivateNames
<1> QED BY <1>1, <1>4, <1>5

(* The writer is no recovery.                                                *)
LEMMA WriterWrites == WriterStep => process' # "recovering"
BY DEF WriterStep, StageFile, record_staging, begin_staging, begin_backup, CopyBackup,
   record_backup, finish_preparation, begin_publication, StageDirectory,
   RecordDirectoryStage, PublishNew, ExchangeNew, UnlinkDisplaced, record_publication,
   begin_verification, finish_verification, commit, WriterReturns, Writing, Publishing,
   ForwardBoundary, RewriteOnly

(* While a publication is pending recovery only drops a staged directory.    *)
LEMMA RecoveryContinues ==
  LegalInv /\ PrivateInv /\ RecoveryStep => RecoveringInv'
<1> SUFFICES ASSUME LegalInv, PrivateInv, RecoveryStep, PublicationPending'
             PROVE  RecoveringInv'
  BY DEF RecoveringInv
<1>i. Inv /\ JournalLegal /\ RecoveringInv
  BY DEF LegalInv, AtomicityInv, PrivateInv
<1>t. journal \in JournalType
  BY <1>i DEF Inv, TypeOK
<1>1. CASE DiscardDirectoryStage
  <2>1. /\ journal' = journal /\ journal.directory_stage
        /\ stage' = [stage EXCEPT ![journal.mutation] = "absent"]
        /\ stage \in [Names -> StageStates] /\ journal.mutation \in Names \cup {"none"}
    BY <1>1, <1>i DEF DiscardDirectoryStage, Inv, TypeOK, JournalType
  <2>2. CASE journal.mutation \in Names
    BY <2>1, <2>2 DEF RecoveringInv
  <2>3. CASE journal.mutation \notin Names
    <3>1. stage' = stage /\ Recovering /\ PublicationPending
      BY <1>1, <2>1, <2>3 DEF DiscardDirectoryStage, PublicationPending
    <3> QED BY <2>1, <3>1, <1>i DEF RecoveringInv, Recovering
  <2> QED BY <2>2, <2>3
<1>2. CASE ForgetDirectoryStage
  <2>1. /\ journal'.mutation = journal.mutation /\ stage[journal.mutation] = "absent"
        /\ stage' = stage
    BY <1>2, <1>t DEF ForgetDirectoryStage, JournalType, RewriteOnly, disk
  <2> QED BY <2>1 DEF RecoveringInv
<1>3. CASE RestoreArchiveRoot \/ WriteCompletion
  <2>1. /\ journal' = journal /\ stage' = stage /\ process' = process
    BY <1>3 DEF RestoreArchiveRoot, WriteCompletion
  <2> QED BY <2>1, <1>i DEF RecoveringInv, PublicationPending
<1>4. CASE ReconcilePublication \/ RecordCompletion \/ BeginEvidenceClear
  <2>1. journal'.checkpoint # "publication-pending"
    BY <1>4, <1>t DEF ReconcilePublication, RecordCompletion, BeginEvidenceClear,
       JournalType
  <2> QED BY <2>1 DEF PublicationPending
<1>5. CASE \/ \E k \in Keys : SetRollbackPending(k) \/ record_rollback(k)
                              \/ RollbackRemove(k) \/ RollbackExchange(k)
                              \/ RollbackUnlinkDisplaced(k)
           \/ BeginRootRestore \/ RecordRootRestored \/ BeginCompletion
           \/ EnterFailedCleanup
  <2>1. journal'.phase \in {"rolling-back", "cleaning-up"}
    <3>1. ASSUME NEW k \in Keys,
                 \/ RollbackRemove(k) \/ RollbackExchange(k)
                 \/ RollbackUnlinkDisplaced(k) \/ record_rollback(k)
          PROVE  journal'.phase = "rolling-back"
      BY <3>1, <1>t, RollingKeeps
    <3>2. CASE \/ \E k \in Keys : SetRollbackPending(k)
               \/ BeginRootRestore \/ BeginCompletion
      BY <3>2, <1>t DEF SetRollbackPending, BeginRootRestore, BeginCompletion, JournalType
    <3>3. CASE RecordRootRestored \/ EnterFailedCleanup
      BY <3>3, <1>t DEF RecordRootRestored, EnterFailedCleanup, At, JournalType
    <3> QED BY <1>5, <3>1, <3>2, <3>3
  <2> QED BY <2>1 DEF PublicationPending
<1>6. CASE \/ StartCleanup \/ UnlinkMarker \/ EmptyStage \/ EmptyBackup
           \/ \E t \in Trees : RemoveRoot(t)
           \/ WriteTerminal \/ \E step \in CleanupSteps : record_cleanup(step)
           \/ NextCleanup \/ RemoveJournal
  <2>1. journal'.phase \in {"cleaning-up", "terminal", "removed"}
    BY <1>6, <1>t, CleaningKeeps
  <2> QED BY <2>1 DEF PublicationPending
<1> QED BY <1>1, <1>2, <1>3, <1>4, <1>5, <1>6 DEF RecoveryStep

------------------------------------------------------------------------------
(* A process that ends leaves everything as it is.                           *)
LEMMA PrivateControl ==
  LegalInv /\ PrivateInv /\ (StartRecovery \/ RefuseCleanup \/ Stop \/ UNCHANGED vars)
     => PrivateInv'
<1> SUFFICES ASSUME LegalInv, PrivateInv,
                    StartRecovery \/ RefuseCleanup \/ Stop \/ UNCHANGED vars
             PROVE  PrivateInv'
  OBVIOUS
<1>1. UNCHANGED << plan, journal, dest, stage, backup, tree, completion, terminal >>
  BY DEF StartRecovery, RefuseCleanup, Stop, vars, disk
<1>2. EvidenceInv'
  BY <1>1 DEF PrivateInv, EvidenceInv, PublicationApplied, PublicationPending,
     CleanupPending, At
<1>3. StageInv'
  BY <1>1, StageFrame DEF PrivateInv, PublicationPending
<1>4. BackupInv'
  BY <1>1, BackupFrame DEF PrivateInv, RollbackPending, Failing
<1>5. RecoveringInv'
  <2>1. CASE StartRecovery
    BY <2>1, RecoveryBegins
  <2>2. CASE RefuseCleanup \/ Stop
    BY <2>2 DEF RefuseCleanup, Stop, RecoveringInv
  <2>3. CASE UNCHANGED vars
    BY <2>3, <1>1 DEF vars, PrivateInv, RecoveringInv, PublicationPending
  <2> QED BY <2>1, <2>2, <2>3
<1> QED BY <1>2, <1>3, <1>4, <1>5 DEF PrivateInv

(* Every step preserves what the private trees hold.                         *)
LEMMA PrivateStep == LegalInv /\ PrivateInv /\ [Next]_vars => PrivateInv'
<1>1. LegalInv /\ PrivateInv /\ WriterStep => PrivateInv'
  BY EvidenceWriter, StageWriter, BackupWriter, WriterWrites
     DEF LegalInv, PrivateInv, RecoveringInv
<1>2. LegalInv /\ PrivateInv /\ RecoveryStep => PrivateInv'
  BY EvidenceRecovery, StageRecovery, BackupRecovery, RecoveryContinues
     DEF LegalInv, PrivateInv
<1> QED BY <1>1, <1>2, PrivateControl DEF Next

(* What the private trees and the retained records hold, in every reachable  *)
(* state.                                                                    *)
THEOREM PrivateInvariance == Spec => [](LegalInv /\ PrivateInv)
<1>1. Init => PrivateInv
  <2>1. Init => RecoveringInv
    BY DEF Init, RecoveringInv
  <2> QED BY <2>1, EvidenceInit, StageInit, BackupInit DEF PrivateInv
<1>2. LegalInv /\ PrivateInv /\ [Next]_vars => LegalInv' /\ PrivateInv'
  BY LegalStep, PrivateStep
<1>3. Spec => []LegalInv
  BY LegalInvariance
<1> QED BY <1>1, <1>2, <1>3, PTL DEF Spec

(* A stopped transaction that recovery refuses to carry on stopped in one of *)
(* the windows the code cannot tell apart from tampering, or is the failed   *)
(* cleanup of one that never replaced what it was to replace; everywhere     *)
(* else recover_service_transaction authenticates it and goes on.            *)
THEOREM RefusalsAreTheKnownOnes == Spec => []RefusalsAreKnown
  BY PrivateInvariance, KnownRefusals, PTL
==============================================================================
