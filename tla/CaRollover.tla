------------------------------ MODULE CaRollover ------------------------------
(***************************************************************************)
(* Creation, migration, preparation and their recoveries composed under one *)
(* journal: any of them may fail or be killed between two durable changes,  *)
(* and an operator may change his mind about the action from one recovery   *)
(* to the next.                                                            *)
(***************************************************************************)
EXTENDS CaCreationRecover, CaMigrationRecover, CaPreparationRecover

vars == << journal_vars, creation_vars, migration_vars, preparation_vars >>

Init ==
    /\ journal = NoJournal /\ marker = FALSE /\ receipt = FALSE
    /\ process = Idle /\ failures = 0
    /\ creating = "none" /\ made = Uncreated /\ creations = 0
    /\ place \in {Unmigrated, Unfounded} /\ staged = {} /\ migrations = 0
    /\ type = "none" /\ part = Unprepared /\ workspace = {} /\ covered = TRUE
    /\ displaced = {} /\ preparations = 0

CommandSteps == WriterSteps \/ RecoverySteps
PrepareSteps == PreparerSteps \/ RepairSteps \/ EndSteps

(* An active issuer whose authorities are there makes a generation.            *)
Founded ==
    \/ Layout = "generation"
    \/ /\ Layout = "empty" /\ made[ActiveManifest] = "published"
       /\ \A a \in Authorities : made[Authority(a)] = "published"

Creates ==
    /\ \/ Layout = "empty" /\ \E a \in Authorities : BeginCreation(a)
       \/ BootstrapSteps \/ CreationFails
       \/ \E action \in Actions : BeginBootstrapRecovery(action)
    /\ UNCHANGED << migration_vars, preparation_vars >>

Migrates ==
    /\ \/ BeginMigration \/ CommandSteps \/ MigrationFails
       \/ \E action \in Actions : BeginRecovery(action)
    /\ UNCHANGED << creation_vars, preparation_vars >>

Prepares ==
    /\ \/ Founded /\ \E kind \in Types : BeginPreparation(kind)
       \/ PrepareSteps \/ PreparationFails \/ DropMarkedReceipt
       \/ \E action \in Actions : BeginRepair(action)
    /\ UNCHANGED << creation_vars, migration_vars >>

Next ==
    \/ Creates \/ Migrates \/ Prepares
    \/ Stops /\ UNCHANGED << creation_vars, preparation_vars >>

Spec == Init /\ [][Next]_vars

(* A running command goes on until it ends or fails, and the operator sooner   *)
(* or later repeats, with each action, the recovery of what stays unresolved.  *)
Fairness ==
    /\ WF_vars(BootstrapSteps /\ UNCHANGED << migration_vars, preparation_vars >>)
    /\ WF_vars(CommandSteps /\ UNCHANGED << creation_vars, preparation_vars >>)
    /\ WF_vars(PrepareSteps /\ UNCHANGED << creation_vars, migration_vars >>)
    /\ SF_vars(BeginBootstrapRecovery("rollback") /\ UNCHANGED << migration_vars, preparation_vars >>)
    /\ SF_vars(BeginRecovery("rollback") /\ UNCHANGED << creation_vars, preparation_vars >>)
    /\ \A action \in Actions :
          SF_vars(BeginRepair(action) /\ UNCHANGED << creation_vars, migration_vars >>)
    /\ SF_vars(DropMarkedReceipt /\ UNCHANGED << creation_vars, migration_vars >>)

FairSpec == Spec /\ Fairness

CreationPhases ==
    {"prepared", "reserved", "staged", "authority-published", "root-db-pending",
     "root-entry-pending", "root-entry-done", "root-db-published",
     "reservation-consume-pending", "reservation-consumed", "bootstrap-published",
     "active-published", "cleanup-pending", "cleanup-done"}
MigrationPhases ==
    {"pre-mutation", "reserved", "root-renamed", "intermediate-renamed",
     "configs-published", "issuers-published", "quarantined", "active-pending",
     "active-published", "provenance-published"}
PreparationPhases == {"planned", "transaction-staged", "reserved", "staged", "terminal-cleanup"}
Phases == {"none", "recovering", "rolled-back", "complete"}
              \cup CreationPhases \cup MigrationPhases \cup PreparationPhases
StepType == [action : Commands, object : Creations \cup Objects \cup Parts \cup {NoStep.object},
             mark : {"none", "pending", "done"}]

(* The length of the plan the running command follows.                        *)
PlanLength ==
    CASE Creating -> Len(CreationPlan)
      [] Withdrawing -> Len(Withdrawal)
      [] Writing -> Len(Plan)
      [] Recovering -> Len(RecoveryPlan)
      [] Preparing -> Len(PreparationPlan)
      [] Repairing -> Len(RepairPlan(process.command))
      [] OTHER -> 0

TypeOK ==
    /\ journal \in
         [operation : Operations \cup {"none"}, phase : Phases, committed : BOOLEAN,
          action : Actions \cup {"none"}, step : StepType,
          evidence : [directory : BOOLEAN, filed : BOOLEAN, staged : BOOLEAN,
                      posted : SUBSET (Keys \ Kept),
                      restored : SUBSET (Keys \ (Kept \cup Created)),
                      known : SUBSET Creations]]
    /\ marker \in BOOLEAN /\ receipt \in BOOLEAN
    /\ process \in [command : Commands, operation : Operations \cup {"none"},
                    at : Nat, action : Actions \cup {"none"}, step : StepType,
                    mark : {"none", "pending", "made", "done", "committed", "marked",
                            "receipted", "dropped"}]
    /\ process.mark # "dropped" => process.at <= PlanLength + 2
    /\ failures \in 0 .. MaxFailures
    /\ creating \in Authorities \cup {"none"}
    /\ \A o \in Creations : made[o] \in MadeStates(o)
    /\ creations \in 0 .. MaxCreations
    /\ \A o \in Objects : place[o] \in Places(o)
    /\ staged \subseteq Staged
    /\ migrations \in 0 .. MaxMigrations
    /\ type \in Types \cup {"none"}
    /\ \A o \in Parts : part[o] \in PartStates(o)
    /\ workspace \subseteq Filed \cup StageFiles /\ covered \in BOOLEAN
    /\ \A f \in displaced : f[1] \in Parts /\ f[2] \in PartStates(f[1])
    /\ preparations \in 0 .. MaxPreparations

------------------------------------------------------------------------------
(* Nothing of an authority is made; or all of it is, under a reservation that   *)
(* is spent.  A stray hidden directory, empty or emptied, may stay.           *)
Missing(a) ==
    made[Authority(a)] = "absent" /\ made[Grant(a)] \in {"absent", "abandoned"}
Whole(a) == made[Authority(a)] = "published" /\ made[Grant(a)] = "consumed"
EntriesAre(s) == \A k \in Keys \ Kept : made[RootEntry(k)] = s
Manifests(root, active) == made[RootManifest] = root /\ made[ActiveManifest] = active

WholeCreation ==
    /\ Layout = "empty" /\ made[KeyCopy] = "absent"
    /\ \/ /\ Missing("root") /\ Missing("intermediate")
          /\ Manifests("absent", "absent") /\ EntriesAre("before")
       \/ /\ Whole("root") /\ Missing("intermediate")
          /\ Manifests("published", "absent") /\ EntriesAre("before")
       \/ /\ Whole("root") /\ Whole("intermediate")
          /\ Manifests("absent", "published") /\ EntriesAre("after")

WholeLegacy ==
    /\ Layout = "legacy"
    /\ \A o \in Objects \ {Provenance} : place[o] \in {"original", "rollback"}
WholeGeneration ==
    /\ Layout = "generation"
    /\ \A o \in Objects : place[o] \in {"published", "consumed"}

Hidden == {Stage, RootCopy, Directory}
WithoutCandidate ==
    /\ \A o \in Parts : part[o] \in {"absent", "before", "restored", "abandoned"}
    /\ \A k \in Keys : part[DbEntry(k)] = "restored" => k \notin Created \cup Kept
CandidatePublished ==
    /\ {part[o] : o \in {State, Pointer} \cup {Candidate(a) : a \in TypeAuthorities}}
          = {"published"}
    /\ \A a \in TypeAuthorities : part[Reserved(a)] = "consumed"
    /\ part[RootCopy] = "absent"

(* The root database has the certificate of every published candidate, unless  *)
(* a resume followed a rollback that had begun to restore it.                  *)
DatabasePublished == \A k \in Database \ Kept : part[DbEntry(k)] = "after"
DatabaseStale == \E k \in Database \ Kept : part[DbEntry(k)] = "restored"

(* Whenever other commands are let through, they find one layout and nothing   *)
(* of another, whose root database is that of its intermediate; and next to a  *)
(* generation either nothing of a preparation or all of it.  No copy of the    *)
(* root's key is left behind.                                                *)
AdmittedIsWhole ==
    NoUnresolvedState =>
        /\ WholeCreation \/ WholeLegacy \/ WholeGeneration
        /\ \/ WithoutCandidate
           \/ Founded /\ CandidatePublished /\ \A o \in Hidden : part[o] = "absent"

(* A manifest that names a generation, that of the first root, of the active   *)
(* pair or of the prepared one, never names one that is not entirely there, in  *)
(* whatever order publication, rollback and resume were interrupted.          *)
ManifestsNameWhole ==
    /\ made[RootManifest] = "published" => Whole("root")
    /\ made[ActiveManifest] = "published" =>
          Whole("root") /\ Whole("intermediate") /\ EntriesAre("after")
    /\ place[Active] = "published" =>
          \A o \in Objects \ {Active, Provenance} : place[o] \in {"published", "consumed"}
    /\ part[Pointer] = "published" =>
          CandidatePublished /\ (DatabasePublished \/ DatabaseStale)

(* Ways a creation that dies leaves it so that no command can end it: a marker  *)
(* beside a journal that is history; a resumed cleanup, whose journal is not;   *)
(* a root's manifest, an intermediate or the active manifest that was put in   *)
(* its place but not journaled; a rollback after the hidden directory went     *)
(* with the copies of the root's entries.                                    *)
StrandedCreation ==
    \/ marker /\ TerminalHistory
    \/ /\ journal.operation \in Bootstraps /\ journal.committed
       /\ journal.step = Step("resume", KeyCopy, "done")
    \/ /\ journal.operation = "root-bootstrap" /\ journal.phase = "reservation-consumed"
       /\ made[RootManifest] = "published"
    \/ /\ journal.operation = "intermediate-bootstrap"
       /\ \/ journal.phase = "staged" /\ made[Authority("intermediate")] = "published"
          \/ journal.phase = "reservation-consumed" /\ made[ActiveManifest] = "published"
          \/ /\ journal.phase = "recovering" /\ ~journal.committed
             /\ made[Room("intermediate")] = "absent" /\ Mutated # {}
             /\ ~Named(Room("intermediate"))

(* Ways a migration's recovery that dies leaves it so that no command can end  *)
(* it: the committed journal is still marked, or records a step that is not    *)
(* the last; the provenance tree was half removed, or removed and then a       *)
(* resume tried.                                                             *)
StrandedMigration ==
    /\ journal.operation = "legacy-migrate"
    /\ \/ journal.committed /\ (marker \/ ~TerminalHistory)
       \/ /\ Actionable /\ ~ProvenanceAccepted
          /\ place[Provenance] = "removed" => journal.action = "resume"

(* And a preparation: a marker without its journal, a rollback before staging  *)
(* that dies in its cleanup, a file made but not yet listed or another under a  *)
(* listed name, an entry of the database published but not recorded or whose   *)
(* former file was not unlinked, a tree half removed, a created entry or the   *)
(* stage removed.  A reservation half exchanged does not stop the recoveries,   *)
(* which commit and then cannot end.                                         *)
StrandedPreparation ==
    \/ journal = NoJournal /\ marker /\ ~receipt
    \/ /\ journal.operation = "rollover-prepare" /\ journal.committed
       /\ ~AsListed \/ (type = "intermediate" /\ ~Evidence.staged)
    \/ /\ journal.operation = "rollover-prepare" /\ Evidence.staged /\ ~journal.committed
       /\ \/ \E k \in Database : /\ part[DbEntry(k)] = "after" /\ k \notin Evidence.posted
                                  /\ ~Pending("resume", DbEntry(k))
          \/ \E k \in Database, to \in {"after", "restored"} : << DbEntry(k), to >> \in displaced
          \/ \E o \in {Candidate(a) : a \in TypeAuthorities} \cup {State, RootCopy} :
                part[o] = "partial"
          \/ /\ type = "intermediate"
             /\ \/ part[Stage] # "staged"
                \/ \E k \in Created : part[DbEntry(k)] = "before" /\ journal.action = "rollback"
                                        /\ << DbEntry(k), "after" >> \notin workspace
    
Stranded == ~Running /\ (StrandedCreation \/ StrandedMigration \/ StrandedPreparation)

(* Until it is committed a creation can be rolled back, and its announced    *)
(* cleanup completed.  Until it is committed a migration can be rolled back,  *)
(* whichever recoveries came before, and one no rollback touched can also be  *)
(* resumed.  A preparation's recovery can be repeated, and one none has       *)
(* touched can be rolled back, and resumed once it is staged.                 *)
RecoveryStaysOpen ==
    ~Running /\ ~NoUnresolvedState /\ ~Stranded =>
        CASE journal.operation \in Bootstraps ->
               /\ BootstrapAccepted("rollback")
               /\ journal.phase \in {"cleanup-pending", "cleanup-done"}
                     => BootstrapAccepted("resume")
          [] journal.operation = "legacy-migrate" ->
               Preflight("rollback") /\ (journal.action = "none" => Preflight("resume"))
          [] journal.operation = "rollover-prepare" ->
               IF journal.action # "none" THEN RepairAccepted(journal.action)
               ELSE RepairAccepted("rollback") /\ (Evidence.staged => RepairAccepted("resume"))
          [] OTHER -> receipt

(* The documentation's claim for a resumed preparation: it verifies what it    *)
(* finds, so what it ends is what the command itself would have ended.         *)
ResumedIsWhole == NoUnresolvedState /\ part[Pointer] = "published" => DatabasePublished

(* The documentation's claim for the cleanup of an intermediate: a resume ends   *)
(* it, and the journal it commits is history like that of the command itself.  *)
ResumedCleanupIsHistory ==
    journal.operation = "intermediate-bootstrap" /\ journal.committed => TerminalHistory

(* Other commands, which wait while one runs, see the layout change at once or *)
(* not at all, and the database of the root with the candidate.               *)
CreatedLayout ==
    CASE made[ActiveManifest] = "published" -> "generation"
      [] made[RootManifest] = "published" -> "root"
      [] OTHER -> "empty"
WorkingLayout ==
    IF type # "none" THEN "preparing"
    ELSE CASE creating = "root" -> "creating root"
           [] creating = "intermediate" -> "creating intermediate"
           [] OTHER -> "migrating"
SettledLayout ==
    IF part[Pointer] = "published" THEN "prepared"
    ELSE IF Layout = "empty" THEN CreatedLayout ELSE Layout
VisibleLayout == IF Running \/ ~NoUnresolvedState THEN WorkingLayout ELSE SettledLayout
Visible == INSTANCE CaLayout WITH layout <- VisibleLayout
ImplementsLayout == Visible!Spec

(* An operation that was begun is resolved: committed, rolled back, stranded.  *)
RolloverResolves == []<>(~Running /\ (NoUnresolvedState \/ Stranded))
==============================================================================
