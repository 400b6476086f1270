-------------------------- MODULE ServiceTransaction --------------------------
(***************************************************************************)
(* A managed service transaction from its first journal to the removal of  *)
(* its journal: the writer, any number of recoveries, and crashes between  *)
(* any two filesystem or journal mutations.                                *)
(***************************************************************************)
EXTENDS ServiceWriter, ServiceRecover

Init ==
    /\ plan \in Plans
    /\ journal = InitialJournal(plan)
    /\ dest = [k \in Keys |-> Original(k)]
    /\ stage = [n \in Names |-> "absent"]
    /\ backup = [k \in Keys |-> "absent"]
    /\ tree = [t \in Trees |-> "whole"]
    /\ completion = FALSE
    /\ terminal = "absent"
    /\ root_changed = FALSE
    /\ process = "writing"

(* A crash, a signal, a failed system call or a failed check: the process    *)
(* ends wherever it is, at any point and any number of times.                *)
Stop ==
    /\ process # "stopped"
    /\ process' = "stopped"
    /\ UNCHANGED << plan, journal, disk >>

Next == WriterStep \/ StartRecovery \/ RecoveryStep \/ RefuseCleanup \/ Stop

Spec == Init /\ [][Next]_vars

(* The writer keeps running unless it stops; a stopped transaction is        *)
(* eventually retried (`platform-pki service-recover`); a retry that meets a *)
(* refused step ends; and not every retry dies before its first step.        *)
Fairness ==
    /\ WF_vars(WriterStep)
    /\ WF_vars(StartRecovery) /\ WF_vars(RefuseCleanup)
    /\ SF_vars(RecoveryStep)

FairSpec == Spec /\ Fairness

------------------------------------------------------------------------------
(* Safety.                                                                   *)

(* The terminal record tells the truth: a transaction it calls succeeded has *)
(* every planned object published, one it calls failed has every original    *)
(* back (the copy restored from backup counts) and the archive root's mtime  *)
(* untouched; the private trees, which hold key material, are gone.          *)
AtomicOutcome ==
    /\ terminal = "succeeded" =>
          \A k \in Planned :
             dest[k] = IF k = "archive_marker" /\ plan.operation = "renew"
                       THEN "absent" ELSE "new"
    /\ terminal = "failed-pre-commit" =>
          /\ \A k \in Planned : dest[k] \in {Original(k), Restored(k)}
          /\ ~root_changed
    /\ terminal # "absent" => \A t \in Trees : tree[t] = "gone"

(* Until the journal commits, every object the transaction replaces survives *)
(* somewhere: at its destination, or as the private copy.                    *)
OriginalRetained ==
    ~journal.committed =>
        \A k \in plan.existing :
            dest[k] \in {"original", "copy"} \/ backup[k] = "copy"

(* Write-ahead: whatever the disk shows beyond the journal's evidence is the *)
(* one mutation the journal announces as pending.                            *)
OneMutationAhead ==
    \A k \in Planned :
        \/ k = journal.mutation
        \/ journal.phase # "removed" /\ RemovalPending("archive-marker")
           /\ k = "archive_marker"
        \/ dest[k] = IF "archive-marker" \in journal.removed /\ k = "archive_marker"
                     THEN "absent"
                     ELSE IF journal.committed THEN "new"
                     ELSE IF journal.phase \in {"cleaning-up", "terminal", "removed"}
                     THEN (IF k \in Published THEN Restored(k) ELSE Original(k))
                     ELSE IF k \in journal.rolled_back THEN Restored(k)
                     ELSE IF k \in Published THEN "new"
                     ELSE Original(k)

(* The two orders respect nesting: when the turn of an object comes, the     *)
(* directory it is published into is there, and a directory to be rolled     *)
(* back has lost everything published into it.                               *)
NestingRespected ==
    /\ PublicationPending => ParentReady(journal.mutation)
    /\ RollbackPending =>
          \A c \in Planned : ParentOf[c] = journal.mutation => dest[c] = "absent"

(* Where a stopped transaction cannot be recovered.                          *)
Blocked ==
    /\ process = "stopped" /\ journal.phase # "removed"
    /\ \/ ~Preflight
       \/ \E t \in Trees : CleanupPending(t) /\ ~TreeExact(t)

(* The mutation windows whose evidence the journal does not hold yet.        *)
UnrecordedPrivateFile ==
    \/ \E n \in Names \ StagedNames :
           stage[n] = "new" /\ n \notin DirectoryKeys
    \/ \E k \in Keys \ BackedUp : backup[k] = "copy"
UnrecordedDirectoryStage ==
    /\ PublicationPending /\ ~journal.directory_stage
    /\ journal.mutation \in DirectoryKeys /\ stage[journal.mutation] = "new"
InterruptedExchange ==
    \/ PublicationPending /\ stage[journal.mutation] = "original"
    \/ RollbackPending /\ backup[journal.mutation] = "new"
UnrecordedRetainedRecord ==
    \/ completion /\ ~journal.completion_recorded
    \/ terminal # "absent" /\ "terminal" \notin journal.removed
UnrecordedRemoval ==
    \/ CleanupPending("archive-marker") /\ dest["archive_marker"] = "absent"
    \/ \E t \in Trees : CleanupPending(t) /\ tree[t] # "whole"

(* Failed cleanup of a transaction that had not published every object it    *)
(* was to replace: those objects are compared with copies never restored.    *)
UnrestoredOriginal ==
    FailedCleanup /\ \E k \in plan.existing : k \notin Published

(* Recovery gives up only in these windows; everywhere else a stopped        *)
(* transaction passes preflight and can be carried on.                       *)
RefusalsAreKnown ==
    Blocked => \/ UnrecordedPrivateFile \/ UnrecordedDirectoryStage
               \/ InterruptedExchange \/ UnrecordedRetainedRecord
               \/ UnrecordedRemoval \/ UnrestoredOriginal

(* What the project's own tests say of failed cleanup: a crash right after   *)
(* the rewrite that enters it, with nothing mutated since, is recovered.     *)
FailedCleanupResumes ==
    process = "stopped" /\ FailedCleanup /\ CleanupPending("stage")
    /\ TreeExact("stage") => Preflight

------------------------------------------------------------------------------
(* Action properties and liveness.                                           *)

(* After the commit rewrite nothing but the archive marker leaves its        *)
(* destination and the journal never returns to an uncommitted state.        *)
CommitIrrevocable ==
    [][journal.committed =>
          /\ journal'.committed /\ journal'.outcome = "succeeded"
          /\ \A k \in Keys \ {"archive_marker"} : dest'[k] = dest[k]]_vars

(* Rollback runs once and in one direction: a transaction that failed never  *)
(* publishes again, and a key restored from its copy is never touched again. *)
RollbackOneWay ==
    [][journal.outcome = "failed-pre-commit" =>
          /\ journal'.outcome = "failed-pre-commit"
          /\ \A k \in Keys :
                /\ dest'[k] = "new" => dest[k] = "new"
                /\ dest[k] \in {"original", "copy"} => dest'[k] = dest[k]]_vars

(* However often it is interrupted, a transaction is finished and its        *)
(* journal removed, unless it stopped in one of the refused windows.         *)
Converges == <>(journal.phase = "removed" \/ Blocked)

(* The abstract service operation this transaction implements.               *)
Visible ==
    LET shown == Planned \ {"archive_marker"}
    IN  IF \A k \in shown : dest[k] = "new" THEN "new"
        ELSE IF \A k \in shown : dest[k] \in {Original(k), Restored(k)} THEN "old"
        ELSE "mixed"

Decision ==
    IF journal.committed THEN "succeeded"
    ELSE IF journal.completion_recorded THEN "failed-pre-commit"
    ELSE "open"

Abstract == INSTANCE AtomicService WITH
    decision <- Decision, visible <- Visible,
    closed <- (journal.phase = "removed")

AtomicServiceSpec == Abstract!Spec
==============================================================================
