--------------------------- MODULE CaRollover_proofs ---------------------------
(***************************************************************************)
(* CA creation, migration, preparation and their recoveries under one      *)
(* journal, continued from CaTypes_proofs.                                 *)
(*                                                                         *)
(* CompositionInv adds to the invariants there what a preparation and its  *)
(* recoveries have done so far (PreparationInv).  AdmittedIsWhole,         *)
(* ManifestsNameWhole and every step of the refinement of CaLayout follow  *)
(* from it.                                                                *)
(*                                                                         *)
(* KnownInv adds what the journal must know of each path for the next      *)
(* recovery to accept it (CreationKnown, MigrationKnown, PreparationKnown);*)
(* RecoveryStaysOpen follows.                                              *)
(***************************************************************************)
EXTENDS CaTypes_proofs

------------------------------------------------------------------------------
(* A preparation: the pointer is published after all that it leads to, and     *)
(* taken back before any of it.                                              *)

(* The parts that a preparation of this type changes, and the stage's own.     *)
Involved == CandidateParts \cup {BackupSession, Pointer, Stage, Directory}
StageParts == Candidates \cup CopyParts

(* What is staged is in the directory.                                        *)
Sorted ==
    /\ \A o \in Parts : part[o] \in {"staged", "partial"} => part[Directory] \in {"staged", "partial"}
    /\ \A o \in Hidden : part[o] # "published"
    /\ \A k \in Created : part[DbEntry(k)] # "restored"
    /\ \A o \in Parts \ Involved : part[o] = Unprepared[o]

(* Nothing is published before the journal says that staging is complete, and   *)
(* a candidate whose reservation was abandoned is not carried forward any more. *)
BeforeStaging ==
    InPreparation /\ ~Evidence.staged =>
        /\ part[Pointer] = "absent" /\ part[State] # "published"
        /\ \A a \in Authorities : part[Candidate(a)] # "published"
        /\ \A k \in Keys : part[DbEntry(k)] = "before"
        /\ ~Evidence.filed => \A a \in Authorities : part[Reserved(a)] = "absent"
AfterStaging ==
    InPreparation /\ Evidence.staged =>
        /\ part[Directory] = "staged"
        /\ \A a \in TypeAuthorities :
              part[Reserved(a)] = "abandoned" => part[State] \notin {"staged", "published"}
PointerLast ==
    part[Pointer] = "published" => CandidatePublished /\ (DatabasePublished \/ DatabaseStale)

(* How a preparation ends: with nothing of it in its place, or with everything. *)
TakenBack ==
    /\ part[Pointer] = "absent" /\ part[State] # "published" /\ part[BackupSession] = "absent"
    /\ \A a \in Authorities : /\ part[Candidate(a)] # "published"
                              /\ part[Reserved(a)] \in {"absent", "abandoned"}
    /\ \A k \in Keys : part[DbEntry(k)] \in {"before", "restored"}
Cleared == \A o \in Parts : part[o] \notin {"staged", "partial"}
Resolute == Cleared /\ (TakenBack \/ part[Pointer] = "published")
Decided ==
    journal.operation = "rollover-prepare" /\ journal.committed =>
        IF journal.action = "resume" THEN part[Pointer] = "published" ELSE TakenBack
Closing ==
    /\ receipt => Resolute /\ ~InPreparation
    /\ journal.operation # "rollover-prepare" /\ ~marker => Resolute
    /\ process.operation = "rollover-prepare" =>
         /\ process.mark \in {"committed", "marked", "receipted"} =>
               journal.operation = "rollover-prepare" /\ journal.committed
         /\ process.mark \in {"marked", "receipted", "dropped"} => marker
         /\ process.mark \in {"receipted", "dropped"} => receipt

(* What the command has changed so far.                                       *)
Changing == process.mark \in {"none", "pending", "made"}
PreparerInv ==
    Preparing /\ Changing =>
        /\ ~receipt
        /\ process.at = 1 => part = Unprepared /\ ~InPreparation
        /\ process.at > 1 =>
              /\ InPreparation
              /\ Evidence.filed <=> process.at > 5
              /\ Evidence.staged <=> process.at > Len(PreparationStaging)
        /\ process.at > 2 => part[Directory] = "staged"
        /\ \A a \in Authorities : part[Reserved(a)] # "abandoned"
        /\ process.mark = "made" => process.at <= Len(PreparationPlan)
        /\ process.mark = "made" =>
              part[PreparationPlan[process.at].object] = PreparationPlan[process.at].to
        /\ part[Pointer] = "published" =>
              \/ process.at > Len(PreparationPlan)
              \/ process.at = Len(PreparationPlan) /\ process.mark = "made"
        /\ \A i \in 1 .. Len(PreparationPlan) :
              i > Len(PreparationStaging) /\ i < process.at =>
                  \/ part[PreparationPlan[i].object] = PreparationPlan[i].to
                  \/ /\ process.at <= Len(PreparationPlan)
                     /\ PreparationPlan[i].object = PreparationPlan[process.at].object

(* What a recovery has passed, so that it does not come back to it.            *)
Repairs == RepairPlan(process.command)
Repaired(e) == part[e.object] \notin e.from
Continued ==
    Evidence.staged /\ \A o \in Candidates \cup {State} : part[o] \in {"staged", "published"}
RepairerInv ==
    Repairing /\ Changing =>
        IF journal.committed
        THEN /\ process.mark = "none" /\ process.at = Len(Repairs) + 1
             /\ journal.action = process.command
        ELSE /\ process.mark # "none" => process.at <= Len(Repairs)
             /\ process.mark = "pending" =>
                   FixDue \/ (part[RepairEntry.object] = "partial" /\ RepairEntry.to = "absent")
             /\ process.mark = "made" => Repaired(RepairEntry)
             /\ \A i \in 1 .. Len(Repairs) : i < process.at => Repaired(Repairs[i])
             /\ process.command = "resume" => Continued

PreparationInv ==
    /\ Sorted /\ BeforeStaging /\ AfterStaging /\ PointerLast /\ Decided /\ Closing
    /\ PreparerInv /\ RepairerInv

------------------------------------------------------------------------------
(* The parts are different ones.                                              *)
LEMMA InvolvedParts ==
    ASSUME type \in Types
    PROVE  /\ Involved \subseteq Parts /\ Hidden \subseteq Parts
           /\ Contents(Stage) = StageParts /\ StageParts \subseteq Involved
           /\ Contents(Directory) = StageParts \cup {Stage, State}
           /\ \A o \in Parts : o # Stage /\ o # Directory => Contents(o) = {}
           /\ \A o \in StageParts : o[1] \in {"candidate", "root copy"}
           /\ \A o \in Involved : o[1] = "candidate" => o \in Candidates
           /\ \A k \in Created : k \in Keys \ Kept
           /\ \A o \in CandidateParts :
                 /\ o[1] \in {"candidate", "reservation", "database", "root copy", "state"}
                 /\ o[1] = "root copy" => o = RootCopy
                 /\ o \notin {Pointer, BackupSession, Stage, Directory}
<1>1. \A o \in Candidates : o \in Parts /\ o[1] = "candidate"
  BY AuthorityParts
<1>2. \A o \in Reservations : o \in Parts /\ o[1] = "reservation"
  BY AuthorityParts
<1>3. \A o \in DatabaseParts : o \in Parts /\ o[1] = "database"
  <2>1. \A k \in Database \ Kept : DbEntry(k) \in Parts /\ DbEntry(k)[1] = "database"
    BY PartObjects, IssuedIs
  <2> HIDE DEF DbEntry
  <2> QED BY <2>1 DEF DatabaseParts
<1>4. \A o \in CopyParts : o \in Parts /\ o = RootCopy
  BY PartObjects DEF CopyParts
<1>5. Involved \subseteq Parts
  BY <1>1, <1>2, <1>3, <1>4, PartObjects DEF Involved, CandidateParts
<1>6. Hidden \subseteq Parts
  BY PartObjects DEF Hidden
<1>7. Stage # Directory
  BY PartObjects
<1>8. StageParts = {Candidate(a) : a \in TypeAuthorities}
                       \cup (IF type = "intermediate" THEN {RootCopy} ELSE {})
  BY DEF StageParts, Candidates, CopyParts
<1>9. Contents(Stage) = StageParts /\ Contents(Directory) = StageParts \cup {Stage, State}
  BY <1>7, <1>8 DEF Contents
<1>10. \A o \in Parts : o # Stage /\ o # Directory => Contents(o) = {}
  BY DEF Contents
<1>11. StageParts \subseteq Involved /\ \A o \in StageParts : o[1] \in {"candidate", "root copy"}
  BY <1>1, <1>4, PartObjects DEF StageParts, Involved, CandidateParts
<1>12. \A o \in Involved : o[1] = "candidate" => o \in Candidates
  BY <1>2, <1>3, <1>4, PartObjects DEF Involved, CandidateParts
<1>13. \A k \in Created : k \in Keys \ Kept
  BY DatabaseFacts, DatabaseAssumption
<1>14. \A o \in CandidateParts :
           /\ o[1] \in {"candidate", "reservation", "database", "root copy", "state"}
           /\ o[1] = "root copy" => o = RootCopy
  BY <1>1, <1>2, <1>3, <1>4, PartObjects DEF CandidateParts
<1>15. \A o \in CandidateParts : o \notin {Pointer, BackupSession, Stage, Directory}
  BY <1>14, PartObjects
<1> QED BY <1>5, <1>6, <1>9, <1>10, <1>11, <1>12, <1>13, <1>14, <1>15

(* What a change of one part does to the others.                              *)
LEMMA PartChanges ==
    ASSUME type \in Types, NEW o \in Involved, NEW to, ChangePart(o, to),
           o = Directory => to = "staged", o # Directory /\ o # Stage /\ o # State => to # "staged"
    PROVE  /\ to = "absent" /\ IsTree(o) =>
                 part'[o] = IF part[o] = "partial" THEN "absent" ELSE "partial"
           /\ ~(to = "absent" /\ IsTree(o)) /\ PreparationTyped => part'[o] = to
           /\ \A p \in Parts : p # o =>
                 \/ part'[p] = part[p]
                 \/ o = Stage /\ p \in StageParts /\ to = "staged" /\ part'[p] = "staged"
                 \/ /\ o = Stage /\ p \in StageParts /\ to # "staged"
                    /\ part[p] \in {"staged", "partial"} /\ part'[p] \in {"absent", "partial"}
<1>1. o \in Parts /\ Contents(Stage) = StageParts
      /\ (o # Stage /\ o # Directory => Contents(o) = {})
  BY InvolvedParts
<1>2. CASE to = "staged"
  <2>1. part' = [p \in Parts |-> IF p = o \/ (o = Stage /\ p \in Contents(Stage))
                                 THEN "staged" ELSE part[p]]
    BY <1>2 DEF ChangePart, Make
  <2> QED BY <1>1, <1>2, <2>1
<1>3. CASE to = "absent" /\ IsTree(o)
  <2>1. part' = [p \in Parts |-> IF p \notin Lost(o) THEN part[p]
                                 ELSE IF part[o] = "partial" THEN "absent" ELSE "partial"]
    BY <1>3 DEF ChangePart, Take
  <2>2. o # Directory
    BY <1>3
  <2>3. o \in Lost(o)
        /\ \A p \in Lost(o) : p = o \/ (p \in Contents(o) /\ part[p] \in {"staged", "partial"})
    BY DEF Lost
  <2>4. ASSUME NEW p \in Parts, p # o
        PROVE  \/ part'[p] = part[p]
               \/ /\ o = Stage /\ p \in StageParts
                  /\ part[p] \in {"staged", "partial"} /\ part'[p] \in {"absent", "partial"}
    BY <1>1, <2>1, <2>2, <2>3, <2>4
  <2>5. part'[o] = IF part[o] = "partial" THEN "absent" ELSE "partial"
    BY <1>1, <2>1, <2>3
  <2> QED BY <1>3, <2>4, <2>5
<1>4. CASE to # "staged" /\ ~(to = "absent" /\ IsTree(o))
  <2>1. part' = [part EXCEPT ![o] = to]
    BY <1>4 DEF ChangePart, PutPart
  <2>2. PreparationTyped => part'[o] = to
    BY <1>1, <2>1 DEF PreparationTyped
  <2> QED BY <1>4, <2>1, <2>2
<1> QED BY <1>2, <1>3, <1>4

(* What depends on the parts only.                                            *)
LEMMA SameParts ==
    ASSUME part' = part, type' = type
    PROVE  /\ Sorted' <=> Sorted
           /\ TakenBack' <=> TakenBack
           /\ Cleared' <=> Cleared
           /\ Resolute' <=> Resolute
           /\ CandidatePublished' <=> CandidatePublished
           /\ PointerLast' <=> PointerLast
<1>1. Involved' = Involved /\ TypeAuthorities' = TypeAuthorities /\ Database' = Database
  BY DEF Involved, CandidateParts, Candidates, Reservations, DatabaseParts, CopyParts,
         TypeAuthorities, Database
<1>2. (Sorted' <=> Sorted) /\ (TakenBack' <=> TakenBack) /\ (Cleared' <=> Cleared)
  BY <1>1 DEF Sorted, TakenBack, Cleared
<1>3. CandidatePublished' <=> CandidatePublished
  BY <1>1 DEF CandidatePublished
<1>4. (DatabasePublished' <=> DatabasePublished) /\ (DatabaseStale' <=> DatabaseStale)
  BY <1>1 DEF DatabasePublished, DatabaseStale
<1> QED BY <1>2, <1>3, <1>4 DEF PointerLast, Resolute

(* A layout without a preparation is one that is taken back.                   *)
LEMMA NothingPrepared ==
    ASSUME part = Unprepared, journal.operation # "rollover-prepare",
           process.operation # "rollover-prepare", process.command # "prepare"
    PROVE  PreparationInv
<1>1. \A o \in Parts : part[o] = IF o[1] = "database" THEN "before" ELSE "absent"
  BY DEF Unprepared
<1>2. /\ \A a \in Authorities : part[Reserved(a)] = "absent" /\ part[Candidate(a)] = "absent"
      /\ \A k \in Keys : part[DbEntry(k)] = "before"
      /\ \A o \in {BackupSession, State, Pointer, Stage, RootCopy, Directory} : part[o] = "absent"
  BY <1>1, PartObjects
<1>3. \A k \in Created : k \in Keys
  BY DatabaseFacts, DatabaseAssumption
<1>4. Sorted
  <2>1. \A o \in Parts : part[o] \notin {"staged", "partial"}
    BY <1>1
  <2>2. \A o \in Hidden : part[o] # "published"
    BY <1>2 DEF Hidden
  <2>3. \A k \in Created : part[DbEntry(k)] # "restored"
    BY <1>2, <1>3
  <2> QED BY <2>1, <2>2, <2>3 DEF Sorted
<1>5. TakenBack
  BY <1>2 DEF TakenBack
<1>6. Cleared
  BY <1>1 DEF Cleared
<1>7. PointerLast
  BY <1>2 DEF PointerLast
<1>8. BeforeStaging /\ AfterStaging /\ Decided
  BY DEF BeforeStaging, AfterStaging, InPreparation, Decided
<1>9. Closing
  BY <1>5, <1>6 DEF Closing, Resolute, InPreparation
<1>10. PreparerInv /\ RepairerInv
  BY DEF PreparerInv, RepairerInv, Preparing, Repairing
<1> QED BY <1>4, <1>7, <1>8, <1>9, <1>10 DEF PreparationInv

(* What holds of a layout and a journal holds whatever command comes next.     *)
LEMMA PreparationRests ==
    ASSUME PreparationInv, journal' = journal, part' = part, type' = type,
           receipt' => receipt, ~marker' => ~marker \/ receipt,
           process'.mark = "none"
    PROVE  /\ Sorted' /\ BeforeStaging' /\ AfterStaging' /\ PointerLast' /\ Decided' /\ Closing'
<1> USE DEF PreparationInv
<1>1. /\ Sorted' <=> Sorted
      /\ TakenBack' <=> TakenBack
      /\ Resolute' <=> Resolute
      /\ PointerLast' <=> PointerLast
  BY SameParts
<1>2. (BeforeStaging' <=> BeforeStaging) /\ (AfterStaging' <=> AfterStaging)
  BY DEF BeforeStaging, AfterStaging, InPreparation, Evidence, TypeAuthorities
<1>3. Decided'
  BY <1>1 DEF Decided
<1>4. Closing'
  BY <1>1 DEF Closing, InPreparation
<1> QED BY <1>1, <1>2, <1>3, <1>4

(* A command that ends or is killed leaves what it has done.                   *)
LEMMA PreparationIdles ==
    ASSUME PreparationInv, process' = Idle, journal' = journal, part' = part, type' = type,
           receipt' => receipt, ~marker' => ~marker \/ receipt
    PROVE  PreparationInv'
<1>1. process'.mark = "none" /\ process'.command = "none"
  BY IdleTyped
<1>2. Sorted' /\ BeforeStaging' /\ AfterStaging' /\ PointerLast' /\ Decided' /\ Closing'
  BY <1>1, PreparationRests
<1>3. PreparerInv' /\ RepairerInv'
  BY <1>1 DEF PreparerInv, RepairerInv, Preparing, Repairing, Actions
<1> QED BY <1>2, <1>3 DEF PreparationInv

(* A step that changes nothing of it.                                         *)
LEMMA PreparationStutters ==
    ASSUME PreparationInv, UNCHANGED << journal, marker, receipt, process, part, type >>
    PROVE  PreparationInv'
<1>1. part' = part /\ type' = type
  OBVIOUS
<1>2. /\ Sorted' <=> Sorted
      /\ TakenBack' <=> TakenBack
      /\ Resolute' <=> Resolute
      /\ PointerLast' <=> PointerLast
  BY <1>1, SameParts
<1>3. (BeforeStaging' <=> BeforeStaging) /\ (AfterStaging' <=> AfterStaging)
  BY <1>1 DEF BeforeStaging, AfterStaging, InPreparation, Evidence, TypeAuthorities
<1>4. (Decided' <=> Decided) /\ (Closing' <=> Closing)
  <2>1. journal' = journal /\ process' = process /\ marker' = marker /\ receipt' = receipt
    OBVIOUS
  <2>2. Decided' <=> Decided
    BY <1>1, <1>2, <2>1 DEF Decided
  <2>3. InPreparation' <=> InPreparation
    BY <2>1 DEF InPreparation
  <2>4. Closing' <=> Closing
    BY <1>2, <2>1, <2>3 DEF Closing
  <2> QED BY <2>2, <2>4
<1>5. PreparationPlan' = PreparationPlan /\ PreparationStaging' = PreparationStaging
  BY <1>1 DEF PreparationPlan, PreparationStaging, CandidatePublication, ForRoot, Issued
<1>6. Repairs' = Repairs
  BY <1>1, SamePreparation DEF Repairs, Evidence
<1>7. PreparerInv' <=> PreparerInv
  BY <1>1, <1>5 DEF PreparerInv, Preparing, Changing, InPreparation, Evidence
<1>8. RepairerInv' <=> RepairerInv
  <2>1. process' = process /\ journal' = journal
    OBVIOUS
  <2>2. RepairEntry' = RepairEntry
    BY <1>6, <2>1 DEF RepairEntry, Repairs
  <2>3. (FixDue' <=> FixDue) /\ (Continued' <=> Continued)
    BY <1>1, <2>1, <2>2 DEF FixDue, Continued, Evidence, Candidates, TypeAuthorities
  <2>4. Repaired(RepairEntry)' <=> Repaired(RepairEntry)
    BY <1>1, <2>2 DEF Repaired
  <2>5. \A i : Repaired(Repairs[i])' <=> Repaired(Repairs[i])
    BY <1>1, <1>6 DEF Repaired
  <2>6. /\ Repairing' <=> Repairing
        /\ Changing' <=> Changing
        /\ part'[RepairEntry'.object] = part[RepairEntry.object]
    BY <1>1, <2>1, <2>2 DEF Repairing, Changing
  <2> HIDE DEF Repairs, RepairEntry, FixDue, Continued, Repaired, Repairing, Changing
  <2> QED BY <1>6, <2>1, <2>2, <2>3, <2>4, <2>5, <2>6 DEF RepairerInv
<1> QED BY <1>2, <1>3, <1>4, <1>7, <1>8 DEF PreparationInv

(* A preparation begins with nothing of it in its place.                       *)
LEMMA PreparationBegun ==
    ASSUME Typed, PreparationInv, NEW kind \in Types, BeginPreparation(kind)
    PROVE  PreparationInv'
<1>1. part' = Unprepared /\ type' \in Types /\ journal' = journal /\ receipt' = FALSE
  BY DEF BeginPreparation
<1>2. journal.operation # "rollover-prepare"
  <2>1. NoUnresolvedState /\ journal \in JournalType
    BY DEF BeginPreparation, Typed, JournalTyped
  <2>2. CASE journal = NoJournal
    BY <2>2, NoJournalTyped
  <2>3. CASE TerminalHistory
    BY <2>3 DEF TerminalHistory, TerminalBootstrap, TerminalMigration, Bootstraps
  <2> QED BY <2>1, <2>2, <2>3 DEF NoUnresolvedState
<1>3. process'.command = "prepare" /\ process'.at = 1 /\ process'.mark = "none"
  BY BegunIs DEF BeginPreparation
<1>4. \A o \in Parts : part'[o] = IF o[1] = "database" THEN "before" ELSE "absent"
  BY <1>1 DEF Unprepared
<1>5. /\ \A a \in Authorities : part'[Reserved(a)] = "absent" /\ part'[Candidate(a)] = "absent"
      /\ \A k \in Keys : part'[DbEntry(k)] = "before"
      /\ \A o \in {BackupSession, State, Pointer, Stage, RootCopy, Directory} : part'[o] = "absent"
  BY <1>4, PartObjects
<1>6. \A k \in Created : k \in Keys
  BY DatabaseFacts, DatabaseAssumption
<1>7. Sorted'
  <2>1. \A o \in Parts : part'[o] \notin {"staged", "partial"}
    BY <1>4
  <2>2. \A o \in Hidden : part'[o] # "published"
    BY <1>5 DEF Hidden
  <2>3. \A k \in Created : part'[DbEntry(k)] # "restored"
    BY <1>5, <1>6
  <2> QED BY <1>1, <2>1, <2>2, <2>3 DEF Sorted, Unprepared
<1>8. TakenBack' /\ Cleared' /\ PointerLast'
  BY <1>4, <1>5 DEF TakenBack, Cleared, PointerLast
<1>9. BeforeStaging' /\ AfterStaging' /\ Decided' /\ ~InPreparation'
  BY <1>1, <1>2 DEF BeforeStaging, AfterStaging, InPreparation, Decided
<1>10. Closing'
  BY <1>3, <1>8, <1>9 DEF Closing, Resolute
<1>11. RepairerInv'
  BY <1>3 DEF RepairerInv, Repairing, Actions
<1>12. PreparerInv'
  <2>1. \A i \in 1 .. Len(PreparationPlan') : ~(i < process'.at)
    BY <1>3
  <2>2. \A a \in Authorities : part'[Reserved(a)] # "abandoned"
    BY <1>5
  <2>3. part'[Pointer] # "published"
    BY <1>5
  <2> QED BY <1>1, <1>3, <1>9, <2>1, <2>2, <2>3 DEF PreparerInv
<1> QED BY <1>7, <1>8, <1>9, <1>10, <1>11, <1>12 DEF PreparationInv

(* A recovery begins at the first of its repairs, or behind the last of them.   *)
LEMMA RepairBegun ==
    ASSUME Typed, PreparationInv, NEW action \in Actions, BeginRepair(action)
    PROVE  PreparationInv'
<1>1. /\ journal' = journal /\ part' = part /\ type' = type /\ receipt' = receipt /\ marker' = marker
  BY DEF BeginRepair, preparation_vars
<1>2. /\ process'.command = action /\ process'.mark = "none" /\ process'.operation = "rollover-prepare"
      /\ process'.at = IF journal.committed THEN Len(RepairPlan(action)) + 1 ELSE 1
  BY BegunIs DEF BeginRepair
<1>3. Sorted' /\ BeforeStaging' /\ AfterStaging' /\ PointerLast' /\ Decided' /\ Closing'
  BY <1>1, <1>2, PreparationRests
<1>4. PreparerInv'
  BY <1>2 DEF PreparerInv, Preparing, Actions
<1>5. Repairs' = RepairPlan(action)
  BY <1>1, <1>2, SamePreparation DEF Repairs, Evidence
<1>6. CASE journal.committed
  <2>1. journal.action = action
    BY <1>6 DEF BeginRepair, RepairAccepted
  <2>2. journal'.committed /\ journal'.action = action
    BY <1>1, <1>6, <2>1
  <2>3. process'.at = Len(Repairs') + 1
    BY <1>2, <1>5, <1>6
  <2>4. RepairerInv'
    BY <1>2, <2>2, <2>3 DEF RepairerInv
  <2> QED BY <1>3, <1>4, <2>4 DEF PreparationInv
<1>7. CASE ~journal.committed
  <2>1. action = "resume" => Continued
    <3>1. action = "resume" => Evidence.staged /\ Located("resume")
      BY <1>7 DEF BeginRepair, RepairAccepted
    <3> QED BY <3>1 DEF Continued, Located, Excused, Candidates
  <2>2. Continued' <=> Continued
    BY <1>1 DEF Continued, Evidence, Candidates, TypeAuthorities
  <2>3. ~journal'.committed /\ process'.at = 1
    BY <1>1, <1>2, <1>7
  <2>4. \A i \in 1 .. Len(Repairs') : ~(i < process'.at)
    BY <2>3
  <2>5. RepairerInv'
    BY <1>2, <2>1, <2>2, <2>3, <2>4 DEF RepairerInv
  <2> QED BY <1>3, <1>4, <2>5 DEF PreparationInv
<1> QED BY <1>6, <1>7

(* Where each entry of the preparation's plan stands.                         *)
LEMMA PreparationAt ==
    ASSUME type \in Types, NEW i \in 1 .. Len(PreparationPlan)
    PROVE  /\ PreparationPlan[i].kind \in {"note", "fill", "change"}
           /\ PreparationPlan[i].kind = "note" =>
                 /\ i = 1 \/ i >= 5
                 /\ i <= Len(PreparationStaging)
                 /\ PreparationPlan[i].phase = "planned" <=> i = 1
                 /\ PreparationPlan[i].phase = "staged" <=> i = Len(PreparationStaging)
           /\ PreparationPlan[i].kind = "fill" => i = 4
           /\ PreparationPlan[i].kind = "change" =>
                 \/ i = 2 /\ PreparationPlan[i] = Change(Directory, "staged")
                 \/ i = 3 /\ PreparationPlan[i] = Change(State, "staged")
                 \/ i = 6 /\ PreparationPlan[i] = Change(BackupSession, "published")
                 \/ /\ i > 6 /\ i < Len(PreparationStaging)
                    /\ \E a \in TypeAuthorities : PreparationPlan[i] = Change(Reserved(a), "reserved")
                 \/ /\ i > 6 /\ i < Len(PreparationStaging)
                    /\ PreparationPlan[i] = Change(Stage, "staged")
                 \/ /\ i > Len(PreparationStaging) /\ i < Len(PreparationPlan)
                    /\ \E o \in CandidateParts : PreparationPlan[i] = Change(o, FinalPart(o))
                 \/ /\ i > Len(PreparationStaging) /\ i = Len(PreparationPlan)
                    /\ PreparationPlan[i] = Change(Pointer, "published")
<1>1. /\ \A phase : Note(phase).kind = "note" /\ Note(phase).phase = phase
      /\ Fill.kind = "fill" /\ \A o, to : Change(o, to).kind = "change"
  BY DEF Note, Fill, Change
<1>2. Len(PreparationStaging) \in {10, 11} /\ Len(PreparationPlan) \in Nat
      /\ Len(PreparationPlan) > Len(PreparationStaging)
  BY PreparationPlanIs
<1>3. CASE i > Len(PreparationStaging)
  <2>1. i = Len(PreparationPlan) => PreparationPlan[i] = Change(Pointer, "published")
    BY <1>3, PreparationPlanIs
  <2>2. i # Len(PreparationPlan) =>
            \E o \in CandidateParts : PreparationPlan[i] = Change(o, FinalPart(o))
    BY <1>3, PreparationPlanIs DEF Changes
  <2> HIDE DEF Change, Note, Fill
  <2> QED BY <1>1, <1>2, <1>3, <2>1, <2>2
<1>4. CASE i <= Len(PreparationStaging)
  <2>1. PreparationPlan[i] = PreparationStaging[i]
    BY <1>2, <1>4, PreparationPlanIs
  <2>2. type = "root" => {"root", "intermediate"} \subseteq TypeAuthorities
    BY DEF TypeAuthorities, Authorities
  <2>3. "intermediate" \in TypeAuthorities
    BY DEF TypeAuthorities, Authorities
  <2>4. i \in 1 .. 11
    <3>1. i \in Nat /\ i >= 1
      BY <1>2
    <3>2. Len(PreparationStaging) = 10 \/ Len(PreparationStaging) = 11
      BY <1>2
    <3>3. CASE Len(PreparationStaging) = 10
      <4>1. i <= 10
        BY <1>4, <3>3
      <4> QED BY <3>1, <4>1
    <3>4. CASE Len(PreparationStaging) = 11
      <4>1. i <= 11
        BY <1>4, <3>4
      <4> QED BY <3>1, <4>1
    <3> QED BY <3>2, <3>3, <3>4
  <2> HIDE DEF Change, Note, Fill, Reserved, Stage, State, Directory, BackupSession
  <2>5. CASE type = "root"
    <3>1. Len(PreparationStaging) = 11
      BY <2>5, StagingIs
    <3>2. /\ i = 1 => PreparationPlan[i] = Note("planned")
          /\ i = 2 => PreparationPlan[i] = Change(Directory, "staged")
          /\ i = 3 => PreparationPlan[i] = Change(State, "staged")
          /\ i = 4 => PreparationPlan[i] = Fill
          /\ i = 5 => PreparationPlan[i] = Note("transaction-staged")
          /\ i = 6 => PreparationPlan[i] = Change(BackupSession, "published")
          /\ i = 7 => PreparationPlan[i] = Change(Reserved("root"), "reserved")
          /\ i = 8 => PreparationPlan[i] = Change(Reserved("intermediate"), "reserved")
          /\ i = 9 => PreparationPlan[i] = Note("reserved")
          /\ i = 10 => PreparationPlan[i] = Change(Stage, "staged")
          /\ i = 11 => PreparationPlan[i] = Note("staged")
      BY <2>1, <2>5, StagingIs
    <3>3. \/ i \in {1, 5, 9, 11} /\ PreparationPlan[i].kind = "note"
          \/ i = 4 /\ PreparationPlan[i].kind = "fill"
          \/ i \in {2, 3, 6, 7, 8, 10} /\ PreparationPlan[i].kind = "change"
      BY <1>1, <2>4, <3>2
    <3>4. /\ i = 1 => PreparationPlan[i].phase = "planned"
          /\ i = 5 => PreparationPlan[i].phase = "transaction-staged"
          /\ i = 9 => PreparationPlan[i].phase = "reserved"
          /\ i = 11 => PreparationPlan[i].phase = "staged"
      BY <1>1, <3>2
    <3>5. i \in {7, 8} =>
              \E a \in TypeAuthorities : PreparationPlan[i] = Change(Reserved(a), "reserved")
      BY <2>2, <2>5, <3>2
    <3> QED BY <1>2, <2>4, <3>1, <3>2, <3>3, <3>4, <3>5
  <2>6. CASE type # "root"
    <3>1. Len(PreparationStaging) = 10
      BY <2>6, StagingIs
    <3> QED BY <1>1, <1>2, <1>4, <2>1, <2>3, <2>4, <2>6, <3>1, StagingIs
  <2> QED BY <2>5, <2>6
<1> QED BY <1>2, <1>3, <1>4

(* A command at work.                                                         *)
LEMMA PreparerWorks ==
    ASSUME Typed, PreparationInv, NEW kind, PreparerAt(kind)
    PROVE  /\ Preparing /\ Changing /\ type \in Types /\ process.at \in 1 .. Len(PreparationPlan)
           /\ Len(PreparationPlan) \in Nat /\ Len(PreparationStaging) \in Nat
           /\ Len(PreparationPlan) > Len(PreparationStaging) /\ Len(PreparationStaging) >= 10
           /\ PreparationPlan[process.at].kind = kind
           /\ process \in ProcessType /\ journal \in JournalType
           /\ process.operation = "rollover-prepare" /\ ~receipt
           /\ process.at > 1 => InPreparation
           /\ UNCHANGED << marker, receipt, type >>
           /\ PreparationPlan' = PreparationPlan /\ PreparationStaging' = PreparationStaging
<1>1. Preparing /\ process.at <= Len(PreparationPlan) /\ type' = type
      /\ PreparationPlan[process.at].kind = kind /\ UNCHANGED << marker, receipt, type >>
  BY DEF PreparerAt
<1>2. process \in ProcessType /\ journal \in JournalType
  BY DEF Typed, JournalTyped
<1>3. process.operation = "rollover-prepare" /\ type \in Types /\ process.at >= 1
  BY <1>1 DEF Typed, Control, Preparing
<1>4. process.at \in Nat
  BY <1>2 DEF ProcessType
<1>5. Changing
  <2>1. Len(PreparationPlan) \in Nat
    BY <1>3, PreparationPlanIs
  <2>2. process.mark \notin {"committed", "marked", "receipted", "dropped", "done"}
    BY <1>1, <1>4, <2>1 DEF Typed, Bounded
  <2> QED BY <1>2, <2>2 DEF ProcessType, Marks, Changing
<1>9. ~receipt /\ (process.at > 1 => InPreparation)
  BY <1>1, <1>5 DEF PreparationInv, PreparerInv
<1>6. PreparationPlan' = PreparationPlan /\ PreparationStaging' = PreparationStaging
  BY <1>1 DEF PreparationPlan, PreparationStaging, CandidatePublication, ForRoot, Issued
<1>7. /\ Len(PreparationPlan) \in Nat /\ Len(PreparationStaging) \in {10, 11}
      /\ Len(PreparationPlan) > Len(PreparationStaging)
  BY <1>3, PreparationPlanIs
<1>8. Len(PreparationStaging) \in Nat /\ Len(PreparationStaging) >= 10
  <2>1. Len(PreparationStaging) = 10 \/ Len(PreparationStaging) = 11
    BY <1>7
  <2>2. CASE Len(PreparationStaging) = 10
    BY <2>2
  <2>3. CASE Len(PreparationStaging) = 11
    BY <2>3
  <2> QED BY <2>1, <2>2, <2>3
<1> QED BY <1>1, <1>2, <1>3, <1>4, <1>5, <1>6, <1>7, <1>8, <1>9

(* A step of the command that only writes the journal.                        *)
LEMMA PreparerWrites ==
    ASSUME Typed, PreparationInv, Preparing, Changing, ~receipt, part' = part, type' = type,
           marker' = marker, receipt' = receipt, InPreparation', Changing',
           process'.command = process.command
    PROVE  Sorted' /\ PointerLast' /\ Decided' /\ Closing' /\ RepairerInv'
<1>1. (Sorted' <=> Sorted) /\ (PointerLast' <=> PointerLast)
  BY SameParts
<1>2. Sorted' /\ PointerLast'
  BY <1>1 DEF PreparationInv
<1>3. Decided'
  BY DEF Decided, InPreparation
<1>4. Closing'
  BY DEF Closing, InPreparation, Changing
<1>5. RepairerInv'
  BY DEF RepairerInv, Repairing, Preparing, Actions
<1> QED BY <1>2, <1>3, <1>4, <1>5

(* The command passes an entry.                                               *)
LEMMA PreparerPasses ==
    ASSUME Typed, PreparationInv, NEW kind, PreparerAt(kind), part' = part, Done,
           InPreparation', Evidence'.filed <=> process.at + 1 > 5,
           Evidence'.staged <=> process.at + 1 > Len(PreparationStaging),
           process.at = 2 => part[Directory] = "staged",
           process.at > Len(PreparationStaging) =>
               part[PreparationPlan[process.at].object] = PreparationPlan[process.at].to
    PROVE  PreparerInv' /\ Changing'
<1>1. /\ Preparing /\ type \in Types /\ process.at \in 1 .. Len(PreparationPlan)
      /\ Len(PreparationPlan) \in Nat /\ Len(PreparationStaging) \in Nat
      /\ Len(PreparationPlan) > Len(PreparationStaging) /\ Len(PreparationStaging) >= 10 /\ process \in ProcessType
      /\ process.operation = "rollover-prepare" /\ ~receipt /\ Changing /\ UNCHANGED << marker, receipt, type >>
      /\ PreparationPlan' = PreparationPlan /\ PreparationStaging' = PreparationStaging
  BY PreparerWorks
<1>2. process'.at = process.at + 1 /\ process'.mark = "none" /\ process'.command = "prepare"
  BY <1>1 DEF Done, ProcessType, Preparing
<1>3. Changing'
  BY <1>2 DEF Changing
<1>4. /\ process.at > 2 => part[Directory] = "staged"
      /\ \A a \in Authorities : part[Reserved(a)] # "abandoned"
      /\ part[Pointer] = "published" => process.at = Len(PreparationPlan)
      /\ \A i \in 1 .. Len(PreparationPlan) :
              i > Len(PreparationStaging) /\ i < process.at =>
                  \/ part[PreparationPlan[i].object] = PreparationPlan[i].to
                  \/ PreparationPlan[i].object = PreparationPlan[process.at].object
  BY <1>1 DEF PreparationInv, PreparerInv
<1>5. ASSUME NEW i \in 1 .. Len(PreparationPlan), i > Len(PreparationStaging), i < process.at + 1
      PROVE  part[PreparationPlan[i].object] = PreparationPlan[i].to
  <2>1. CASE i = process.at
    BY <1>5, <2>1
  <2>2. CASE i # process.at /\ PreparationPlan[i].object # PreparationPlan[process.at].object
    BY <1>1, <1>4, <1>5, <2>2
  <2>3. CASE i # process.at /\ PreparationPlan[i].object = PreparationPlan[process.at].object
    <3>1. i < process.at /\ process.at > Len(PreparationStaging)
      BY <1>1, <1>5, <2>3
    <3>2. PICK o \in CandidateParts : PreparationPlan[i] = Change(o, FinalPart(o))
      <4>1. PreparationPlan[i] \in Changes(CandidateParts)
        BY <1>1, <1>5, <3>1, PreparationPlanIs
      <4> QED BY <4>1 DEF Changes
    <3>3. o # Pointer
      BY <1>1, InvolvedParts
    <3>4. process.at # Len(PreparationPlan)
      BY <1>1, <2>3, <3>2, <3>3, PreparationPlanIs DEF Change
    <3>5. PICK p \in CandidateParts : PreparationPlan[process.at] = Change(p, FinalPart(p))
      BY <1>1, <3>1, <3>4, PreparationPlanIs DEF Changes
    <3>6. o = p
      BY <2>3, <3>2, <3>5 DEF Change
    <3>7. PreparationPlan[i] = PreparationPlan[process.at]
      BY <3>2, <3>5, <3>6
    <3> QED BY <3>1, <3>7
  <2> QED BY <2>1, <2>2, <2>3
<1>6. process.at + 1 > 2 => part[Directory] = "staged"
  BY <1>1, <1>4
<1>7. part[Pointer] = "published" => process.at + 1 > Len(PreparationPlan)
  BY <1>1, <1>4
<1>8. process.at + 1 # 1
  BY <1>1
<1> QED BY <1>1, <1>2, <1>3, <1>4, <1>5, <1>6, <1>7, <1>8 DEF PreparerInv

(* The command writes a phase.                                                *)
LEMMA PreparerNotesKeep ==
    ASSUME Typed, PreparationInv, PreparerNotes PROVE PreparationInv'
<1> DEFINE i == process.at  phase == PreparationPlan[process.at].phase
<1>1. PreparerAt("note") /\ Done /\ part' = part
      /\ journal' = IF phase = "planned"
                    THEN [NoJournal EXCEPT !.operation = "rollover-prepare", !.phase = phase]
                    ELSE [journal EXCEPT !.phase = phase, !.evidence.filed = TRUE,
                                         !.evidence.staged = (phase = "staged")]
  BY DEF PreparerNotes
<1>2. Changing
  BY <1>1, PreparerWorks
<1>3. /\ Preparing /\ type \in Types /\ process.at \in 1 .. Len(PreparationPlan)
      /\ Len(PreparationPlan) \in Nat /\ Len(PreparationStaging) \in Nat
      /\ Len(PreparationPlan) > Len(PreparationStaging) /\ Len(PreparationStaging) >= 10
      /\ PreparationPlan[process.at].kind = "note"
      /\ process \in ProcessType /\ journal \in JournalType /\ ~receipt
      /\ process.at > 1 => InPreparation
      /\ UNCHANGED << marker, receipt, type >>
      /\ process'.command = process.command
  <2>1. process' = [process EXCEPT !.at = @ + 1, !.mark = "none"]
    BY <1>1 DEF Done
  <2> QED BY <1>1, <1>2, <2>1, PreparerWorks DEF ProcessType
<1>4. /\ i = 1 \/ i >= 5
      /\ i <= Len(PreparationStaging)
      /\ phase = "planned" <=> i = 1
      /\ phase = "staged" <=> i = Len(PreparationStaging)
  BY <1>3, PreparationAt
<1>5. /\ i > 1 => (Evidence.filed <=> i > 5) /\ (Evidence.staged <=> i > Len(PreparationStaging))
      /\ i > 2 => part[Directory] = "staged"
      /\ i = 1 => part = Unprepared
      /\ \A a \in Authorities : part[Reserved(a)] # "abandoned"
  BY <1>2, <1>3 DEF PreparationInv, PreparerInv
<1>6. /\ journal'.operation = "rollover-prepare" /\ ~journal'.committed
      /\ Evidence'.filed <=> i + 1 > 5
      /\ Evidence'.staged <=> i + 1 > Len(PreparationStaging)
  <2>1. CASE i = 1
    <3>1. journal' = [NoJournal EXCEPT !.operation = "rollover-prepare", !.phase = phase]
      BY <1>1, <1>4, <2>1
    <3>2. journal'.operation = "rollover-prepare" /\ journal'.committed = FALSE
          /\ journal'.evidence = NoEvidence
      BY <3>1, NoJournalTyped DEF JournalType
    <3>3. NoEvidence.filed = FALSE /\ NoEvidence.staged = FALSE
      BY DEF NoEvidence
    <3>4. ~Evidence'.filed /\ ~Evidence'.staged
      BY <3>2, <3>3 DEF Evidence
    <3>5. ~(i + 1 > 5) /\ ~(i + 1 > Len(PreparationStaging))
      BY <1>3, <2>1
    <3> QED BY <3>2, <3>4, <3>5
  <2>2. CASE i # 1
    <3>1. PICK b \in BOOLEAN : b = (phase = "staged")
      OBVIOUS
    <3>0. b <=> i = Len(PreparationStaging)
      BY <1>4, <3>1
    <3>2. journal' = [journal EXCEPT !.phase = phase, !.evidence.filed = TRUE, !.evidence.staged = b]
      BY <1>1, <1>4, <2>2, <3>1
    <3>3. phase \in PreparationPhases
      BY <1>3, PreparationEntryKinds
    <3>4. /\ journal'.operation = journal.operation /\ journal'.committed = journal.committed
          /\ journal'.evidence.filed = TRUE /\ journal'.evidence.staged = b
      <4>1. JournalTyped
        BY DEF Typed
      <4> HIDE DEF phase
      <4> QED BY <3>2, <3>3, <4>1, NotedTyped
    <3>5. InPreparation
      BY <1>3, <2>2
    <3>6. b <=> i + 1 > Len(PreparationStaging)
      BY <1>3, <1>4, <3>0
    <3> QED BY <1>3, <1>4, <2>2, <3>4, <3>5, <3>6 DEF Evidence, InPreparation
  <2> QED BY <2>1, <2>2
<1>7. InPreparation'
  BY <1>6 DEF InPreparation
<1> HIDE DEF phase
<1>8. PreparerInv' /\ Changing'
  BY <1>1, <1>2, <1>3, <1>4, <1>6, <1>7, PreparerPasses
<1>9. Sorted' /\ PointerLast' /\ Decided' /\ Closing' /\ RepairerInv'
  BY <1>1, <1>2, <1>3, <1>7, <1>8, PreparerWrites
<1>10. BeforeStaging'
  <2>1. CASE i = 1
    <3>1. \A o \in Parts : part[o] = IF o[1] = "database" THEN "before" ELSE "absent"
      BY <1>5, <2>1 DEF Unprepared
    <3>2. /\ \A a \in Authorities : part[Reserved(a)] = "absent" /\ part[Candidate(a)] = "absent"
          /\ \A k \in Keys : part[DbEntry(k)] = "before"
          /\ part[Pointer] = "absent" /\ part[State] = "absent"
      BY <3>1, PartObjects
    <3> QED BY <1>1, <3>2 DEF BeforeStaging
  <2>2. CASE i # 1
    <3>1. InPreparation /\ ~Evidence.staged /\ (~Evidence'.filed => ~Evidence.filed)
      BY <1>3, <1>4, <1>5, <1>6, <2>2
    <3> QED BY <1>1, <3>1 DEF PreparationInv, BeforeStaging
  <2> QED BY <2>1, <2>2
<1>11. AfterStaging'
  <2>1. Evidence'.staged => part[Directory] = "staged"
    BY <1>3, <1>4, <1>5, <1>6
  <2>2. \A a \in TypeAuthorities' : a \in Authorities
    BY DEF TypeAuthorities, Authorities
  <2> QED BY <1>1, <1>5, <2>1, <2>2 DEF AfterStaging
<1> QED BY <1>8, <1>9, <1>10, <1>11 DEF PreparationInv

(* The command fills the directory, which no part of it is in.                 *)
LEMMA PreparerFillsKeep ==
    ASSUME Typed, PreparationInv, PreparerFills PROVE PreparationInv'
<1>1. PreparerAt("fill") /\ Done /\ part' = part /\ journal' = journal
  BY DEF PreparerFills
<1>2. /\ Preparing /\ Changing /\ type \in Types /\ process.at \in 1 .. Len(PreparationPlan)
      /\ Len(PreparationPlan) \in Nat /\ Len(PreparationStaging) \in Nat
      /\ Len(PreparationPlan) > Len(PreparationStaging) /\ Len(PreparationStaging) >= 10
      /\ PreparationPlan[process.at].kind = "fill"
      /\ process \in ProcessType /\ ~receipt /\ (process.at > 1 => InPreparation)
      /\ UNCHANGED << marker, receipt, type >>
  BY <1>1, PreparerWorks
<1>3. process.at = 4
  BY <1>2, PreparationAt
<1>4. InPreparation /\ InPreparation'
  BY <1>1, <1>2, <1>3 DEF InPreparation
<1>5. (Evidence.filed <=> process.at > 5) /\ (Evidence.staged <=> process.at > Len(PreparationStaging))
  BY <1>2, <1>3 DEF PreparationInv, PreparerInv
<1>6. ~Evidence.filed /\ ~Evidence.staged
  BY <1>2, <1>3, <1>5
<1>7. Evidence' = Evidence
  BY <1>1 DEF Evidence
<1>8. /\ Evidence'.filed <=> process.at + 1 > 5
      /\ Evidence'.staged <=> process.at + 1 > Len(PreparationStaging)
  <2>1. ~(process.at + 1 > 5) /\ ~(process.at + 1 > Len(PreparationStaging))
    BY <1>2, <1>3
  <2> QED BY <1>6, <1>7, <2>1
<1>9. PreparerInv' /\ Changing'
  <2>1. process.at # 2 /\ ~(process.at > Len(PreparationStaging))
    BY <1>2, <1>3
  <2> QED BY <1>1, <1>4, <1>8, <2>1, PreparerPasses
<1>10. Sorted' /\ PointerLast' /\ Decided' /\ Closing' /\ RepairerInv'
  <2>1. process'.command = process.command
    BY <1>1, <1>2 DEF Done, ProcessType
  <2> QED BY <1>1, <1>2, <1>4, <1>9, <2>1, PreparerWrites
<1>11. BeforeStaging' /\ AfterStaging'
  BY <1>1, <1>2, <1>4, <1>7 DEF PreparationInv, BeforeStaging, AfterStaging, TypeAuthorities
<1> QED BY <1>9, <1>10, <1>11 DEF PreparationInv

(* The command announces a change.                                            *)
LEMMA PreparerAnnouncesKeep ==
    ASSUME Typed, PreparationInv, PreparerAnnounces PROVE PreparationInv'
<1> DEFINE e == PreparationPlan[process.at]
<1>1. PreparerAt("change") /\ PartCheckpoint(e.object, "pending", Evidence) /\ part' = part
      /\ process.mark = "none" /\ process' = [process EXCEPT !.mark = "pending"]
  BY DEF PreparerAnnounces, Evidence
<1>2. /\ Preparing /\ Changing /\ type \in Types /\ process.at \in 1 .. Len(PreparationPlan)
      /\ Len(PreparationPlan) \in Nat /\ Len(PreparationStaging) \in Nat
      /\ Len(PreparationPlan) > Len(PreparationStaging) /\ Len(PreparationStaging) >= 10
      /\ e.kind = "change" /\ process \in ProcessType /\ journal \in JournalType
      /\ ~receipt /\ (process.at > 1 => InPreparation)
      /\ UNCHANGED << marker, receipt, type >>
      /\ PreparationPlan' = PreparationPlan /\ PreparationStaging' = PreparationStaging
  BY <1>1, PreparerWorks
<1>3. process.at > 1 /\ Lawful(e.object, e.to)
  BY <1>2, PreparationAt, PreparationLawful
<1>4. /\ process'.at = process.at /\ process'.mark = "pending" /\ process'.command = process.command
  BY <1>1, <1>2 DEF ProcessType
<1> HIDE DEF e
<1>5. journal'.operation = journal.operation /\ journal'.committed = journal.committed
      /\ Evidence' = Evidence
  <2>1. JournalTyped /\ e.object \in Parts /\ Evidence \in EvidenceType
    BY <1>2, <1>3 DEF Typed, Lawful, Evidence, JournalType
  <2> QED BY <1>1, <2>1, PartCheckpointTyped DEF Evidence
<1>6. InPreparation /\ InPreparation' /\ Changing'
  BY <1>2, <1>3, <1>4, <1>5 DEF InPreparation, Changing
<1>7. Sorted' /\ PointerLast' /\ Decided' /\ Closing' /\ RepairerInv'
  BY <1>1, <1>2, <1>4, <1>6, PreparerWrites
<1>8. BeforeStaging' /\ AfterStaging'
  BY <1>1, <1>2, <1>5, <1>6 DEF PreparationInv, BeforeStaging, AfterStaging, TypeAuthorities
<1>9. PreparerInv'
  <2>1. part[Pointer] # "published"
    BY <1>1, <1>2 DEF PreparationInv, PreparerInv
  <2>2. /\ Evidence.filed <=> process.at > 5
        /\ Evidence.staged <=> process.at > Len(PreparationStaging)
        /\ process.at > 2 => part[Directory] = "staged"
        /\ \A a \in Authorities : part[Reserved(a)] # "abandoned"
        /\ \A i \in 1 .. Len(PreparationPlan) :
              i > Len(PreparationStaging) /\ i < process.at =>
                  \/ part[PreparationPlan[i].object] = PreparationPlan[i].to
                  \/ /\ process.at <= Len(PreparationPlan)
                     /\ PreparationPlan[i].object = PreparationPlan[process.at].object
    BY <1>2, <1>3 DEF PreparationInv, PreparerInv
  <2>3. process.at # 1
    BY <1>2, <1>3
  <2> QED BY <1>1, <1>2, <1>3, <1>4, <1>5, <1>6, <2>1, <2>2, <2>3 DEF PreparerInv
<1> QED BY <1>7, <1>8, <1>9 DEF PreparationInv

(* The command records a change.                                              *)
LEMMA PreparerRecordsKeep ==
    ASSUME Typed, PreparationInv, PreparerRecords PROVE PreparationInv'
<1> DEFINE e == PreparationPlan[process.at]
<1>1. PreparerAt("change") /\ PartCheckpoint(e.object, "done", Recorded(e.object, e.to))
      /\ part' = part /\ process.mark = "made" /\ Done
  BY DEF PreparerRecords
<1>2. /\ Preparing /\ Changing /\ type \in Types /\ process.at \in 1 .. Len(PreparationPlan)
      /\ Len(PreparationPlan) \in Nat /\ Len(PreparationStaging) \in Nat
      /\ Len(PreparationPlan) > Len(PreparationStaging) /\ Len(PreparationStaging) >= 10
      /\ e.kind = "change" /\ process \in ProcessType /\ journal \in JournalType
      /\ ~receipt /\ (process.at > 1 => InPreparation)
      /\ UNCHANGED << marker, receipt, type >>
  BY <1>1, PreparerWorks
<1>3. process.at \notin {1, 5, Len(PreparationStaging)} /\ Lawful(e.object, e.to)
      /\ (process.at = 2 => e = Change(Directory, "staged"))
  <2>1. Lawful(e.object, e.to)
    BY <1>2, PreparationLawful
  <2>2. \/ process.at = 2 /\ e = Change(Directory, "staged")
        \/ process.at = 3 \/ process.at = 6
        \/ process.at > 6 /\ process.at < Len(PreparationStaging)
        \/ process.at > Len(PreparationStaging)
    BY <1>2, PreparationAt
  <2> HIDE DEF e
  <2> QED BY <1>2, <2>1, <2>2
<1>4. part[e.object] = e.to
  BY <1>1, <1>2 DEF PreparationInv, PreparerInv
<1> HIDE DEF e
<1>5. /\ journal'.operation = journal.operation /\ journal'.committed = journal.committed
      /\ Evidence'.filed = Evidence.filed /\ Evidence'.staged = Evidence.staged
  <2>1. JournalTyped /\ e.object \in Parts
    BY <1>2, <1>3 DEF Typed, Lawful
  <2>2. /\ Recorded(e.object, e.to) \in EvidenceType
        /\ Recorded(e.object, e.to).filed = journal.evidence.filed
        /\ Recorded(e.object, e.to).staged = journal.evidence.staged
    BY <1>3, <2>1, RecordedTyped DEF Lawful
  <2>3. /\ journal'.operation = journal.operation /\ journal'.committed = journal.committed
        /\ journal'.evidence = Recorded(e.object, e.to)
    BY <1>1, <2>1, <2>2, PartCheckpointTyped
  <2> QED BY <2>2, <2>3 DEF Evidence
<1>6. InPreparation /\ InPreparation'
  BY <1>2, <1>3, <1>5 DEF InPreparation
<1>7. /\ Evidence.filed <=> process.at > 5
      /\ Evidence.staged <=> process.at > Len(PreparationStaging)
  BY <1>2, <1>3 DEF PreparationInv, PreparerInv
<1>8. PreparerInv' /\ Changing'
  <2>1. /\ process.at + 1 > 5 <=> process.at > 5
        /\ process.at + 1 > Len(PreparationStaging) <=> process.at > Len(PreparationStaging)
    BY <1>2, <1>3
  <2>2. /\ Evidence'.filed <=> process.at + 1 > 5
        /\ Evidence'.staged <=> process.at + 1 > Len(PreparationStaging)
    BY <1>5, <1>7, <2>1
  <2>3. process.at = 2 => part[Directory] = "staged"
    BY <1>3, <1>4 DEF Change
  <2>4. part[PreparationPlan[process.at].object] = PreparationPlan[process.at].to
    BY <1>4 DEF e
  <2> QED BY <1>1, <1>6, <2>2, <2>3, <2>4, PreparerPasses
<1>9. Sorted' /\ PointerLast' /\ Decided' /\ Closing' /\ RepairerInv'
  <2>1. process'.command = process.command
    BY <1>1, <1>2 DEF Done, ProcessType
  <2> QED BY <1>1, <1>2, <1>6, <1>8, <2>1, PreparerWrites
<1>10. BeforeStaging' /\ AfterStaging'
  BY <1>1, <1>2, <1>5, <1>6 DEF PreparationInv, BeforeStaging, AfterStaging, TypeAuthorities
<1> QED BY <1>8, <1>9, <1>10 DEF PreparationInv

(* What the parts that a command publishes become.                             *)
LEMMA FinalParts ==
    ASSUME type \in Types, NEW o \in CandidateParts
    PROVE  /\ o \in Involved /\ o[1] \in {"candidate", "reservation", "database", "root copy", "state"}
           /\ FinalPart(o) \in {"published", "consumed", "after", "absent"}
           /\ FinalPart(o) = "absent" <=> o[1] = "root copy"
           /\ o[1] = "root copy" <=> o = RootCopy
           /\ FinalPart(o) = "published" => o[1] \in {"candidate", "state"}
           /\ o[1] = "reservation" => FinalPart(o) = "consumed"
           /\ o[1] = "database" => FinalPart(o) = "after"
<1>1. o[1] \in {"candidate", "reservation", "database", "root copy", "state"}
      /\ (o[1] = "root copy" => o = RootCopy)
  BY InvolvedParts
<1>3. o \in Involved
  BY DEF Involved
<1> QED BY <1>1, <1>3, PartObjects DEF FinalPart

(* A change of the command.                                                    *)
LEMMA PreparerMakes ==
    ASSUME Typed, PreparationInv, PreparerChanges, NEW o, NEW to,
           PreparationPlan[process.at] = Change(o, to)
    PROVE  /\ o \in Involved /\ o \in Parts
           /\ \/ part'[o] = to
              \/ o = RootCopy /\ part'[o] \in {"absent", "partial"}
           /\ \A p \in Parts : p # o =>
                 part'[p] = part[p] \/ (o = Stage /\ p \in StageParts /\ part'[p] = "staged")
           /\ process'.at = process.at /\ process'.mark \in {"pending", "made"}
           /\ process'.command = process.command
           /\ process'.mark = "made" => part'[o] = to
           /\ Evidence' = Evidence /\ InPreparation /\ InPreparation'
           /\ Decided' /\ Closing' /\ RepairerInv'
<1> DEFINE e == PreparationPlan[process.at]
<1>1. /\ PreparerAt("change") /\ process.mark = "pending" /\ ChangePart(e.object, e.to)
      /\ process' = [process EXCEPT !.mark = IF part'[e.object] = "partial" THEN process.mark ELSE "made"]
      /\ journal' = journal
  BY DEF PreparerChanges
<1>2. e.object = o /\ e.to = to /\ e.kind = "change"
  BY DEF Change
<1>3. /\ Preparing /\ Changing /\ type \in Types /\ process.at \in 1 .. Len(PreparationPlan)
      /\ Len(PreparationPlan) \in Nat /\ Len(PreparationStaging) \in Nat
      /\ Len(PreparationPlan) > Len(PreparationStaging) /\ Len(PreparationStaging) >= 10
      /\ process \in ProcessType /\ ~receipt /\ (process.at > 1 => InPreparation)
      /\ UNCHANGED << marker, receipt, type >>
  BY <1>1, PreparerWorks
<1>4. \/ process.at = 2 /\ e = Change(Directory, "staged")
      \/ process.at = 3 /\ e = Change(State, "staged")
      \/ process.at = 6 /\ e = Change(BackupSession, "published")
      \/ process.at > 6 /\ \E a \in TypeAuthorities : e = Change(Reserved(a), "reserved")
      \/ process.at > 6 /\ e = Change(Stage, "staged")
      \/ process.at > 6 /\ \E p \in CandidateParts : e = Change(p, FinalPart(p))
      \/ process.at > 6 /\ e = Change(Pointer, "published")
  BY <1>2, <1>3, PreparationAt
<1>5. process.at > 1
  BY <1>3, <1>4
<1> HIDE DEF e
<1>6. \/ o = Directory /\ to = "staged"
      \/ o = State /\ to = "staged"
      \/ o = BackupSession /\ to = "published"
      \/ o \in Reservations /\ to = "reserved"
      \/ o = Stage /\ to = "staged"
      \/ o \in CandidateParts /\ to = FinalPart(o)
      \/ o = Pointer /\ to = "published"
  BY <1>2, <1>4 DEF Change, Reservations
<1>7. o \in Involved /\ o \in Parts
  <2>1. o \in Involved
    BY <1>6 DEF Involved, CandidateParts
  <2> QED BY <1>3, <2>1, InvolvedParts
<1>8. \A p \in CandidateParts : FinalPart(p) # "staged" /\ (FinalPart(p) = "absent" => p = RootCopy)
  BY <1>3, FinalParts
<1>9. (o = Directory => to = "staged") /\ (o # Directory /\ o # Stage /\ o # State => to # "staged")
      /\ (to = "absent" => o = RootCopy)
  <2>1. \A p \in CandidateParts : p # Directory
    BY <1>3, InvolvedParts
  <2>2. Directory \notin {State, BackupSession, Stage, Pointer} /\ \A a \in Authorities : Directory # Reserved(a)
    BY PartObjects
  <2>3. Directory \notin Reservations
    BY <2>2 DEF Reservations, TypeAuthorities, Authorities
  <2> QED BY <1>6, <1>8, <2>1, <2>2, <2>3
<1>10. ChangePart(o, to) /\ PreparationTyped
  BY <1>1, <1>2 DEF Typed
<1>11. /\ to = "absent" /\ IsTree(o) => part'[o] \in {"absent", "partial"}
       /\ ~(to = "absent" /\ IsTree(o)) => part'[o] = to
       /\ \A p \in Parts : p # o =>
                 \/ part'[p] = part[p]
                 \/ o = Stage /\ p \in StageParts /\ to = "staged" /\ part'[p] = "staged"
                 \/ o = Stage /\ to # "staged"
  BY <1>3, <1>7, <1>9, <1>10, PartChanges
<1>12. o = Stage => to = "staged"
  <2>1. \A p \in CandidateParts : p # Stage
    BY <1>3, InvolvedParts
  <2>2. Stage \notin {State, BackupSession, Directory, Pointer} /\ \A a \in Authorities : Stage # Reserved(a)
    BY PartObjects
  <2>3. Stage \notin Reservations
    BY <2>2 DEF Reservations, TypeAuthorities, Authorities
  <2> QED BY <1>6, <2>1, <2>2, <2>3
<1>13. /\ process'.at = process.at /\ process'.command = process.command
       /\ process'.mark = IF part'[o] = "partial" THEN "pending" ELSE "made"
  BY <1>1, <1>2, <1>3 DEF ProcessType
<1>14. part'[o] = "partial" \/ part'[o] = to
  <2>1. to # "partial"
    BY <1>2, <1>3, PreparationEntryKinds DEF e
  <2> QED BY <1>11
<1>15. InPreparation /\ InPreparation' /\ Evidence' = Evidence
  BY <1>1, <1>3, <1>5 DEF InPreparation, Evidence
<1>16. Decided' /\ Closing' /\ RepairerInv'
  <2>1. Decided'
    BY <1>15 DEF Decided, InPreparation
  <2>2. Closing'
    BY <1>3, <1>13, <1>15 DEF Closing, InPreparation
  <2>3. RepairerInv'
    BY <1>3, <1>13 DEF RepairerInv, Repairing, Preparing, Actions
  <2> QED BY <2>1, <2>2, <2>3
<1> QED BY <1>7, <1>9, <1>11, <1>12, <1>13, <1>14, <1>15, <1>16

(* The command stages a part.                                                 *)
LEMMA PreparerStages ==
    ASSUME Typed, PreparationInv, PreparerChanges, process.at <= Len(PreparationStaging)
    PROVE  PreparationInv'
<1>1. PreparerAt("change")
  BY DEF PreparerChanges
<1>2. /\ Preparing /\ Changing /\ type \in Types /\ process.at \in 1 .. Len(PreparationPlan)
      /\ Len(PreparationPlan) \in Nat /\ Len(PreparationStaging) \in Nat
      /\ Len(PreparationPlan) > Len(PreparationStaging) /\ Len(PreparationStaging) >= 10
      /\ ~receipt /\ (process.at > 1 => InPreparation)
      /\ PreparationPlan[process.at].kind = "change"
      /\ UNCHANGED << marker, receipt, type >>
      /\ PreparationPlan' = PreparationPlan /\ PreparationStaging' = PreparationStaging
  BY <1>1, PreparerWorks
<1>3. PICK o, to : /\ PreparationPlan[process.at] = Change(o, to)
                   /\ \/ process.at = 2 /\ o = Directory /\ to = "staged"
                      \/ process.at = 3 /\ o = State /\ to = "staged"
                      \/ process.at = 6 /\ o = BackupSession /\ to = "published"
                      \/ process.at > 6 /\ o \in Reservations /\ to = "reserved"
                      \/ process.at > 6 /\ o = Stage /\ to = "staged"
  <2>1. \/ process.at = 2 /\ PreparationPlan[process.at] = Change(Directory, "staged")
        \/ process.at = 3 /\ PreparationPlan[process.at] = Change(State, "staged")
        \/ process.at = 6 /\ PreparationPlan[process.at] = Change(BackupSession, "published")
        \/ /\ process.at > 6
           /\ \E a \in TypeAuthorities : PreparationPlan[process.at] = Change(Reserved(a), "reserved")
        \/ process.at > 6 /\ PreparationPlan[process.at] = Change(Stage, "staged")
    BY <1>2, PreparationAt
  <2> QED BY <2>1 DEF Reservations
<1>4. /\ o \in Involved /\ o \in Parts
      /\ \/ part'[o] = to
         \/ o = RootCopy /\ part'[o] \in {"absent", "partial"}
      /\ \A p \in Parts : p # o =>
            part'[p] = part[p] \/ (o = Stage /\ p \in StageParts /\ part'[p] = "staged")
      /\ process'.at = process.at /\ process'.mark \in {"pending", "made"}
      /\ process'.command = process.command
      /\ process'.mark = "made" => part'[o] = to
      /\ Evidence' = Evidence /\ InPreparation /\ InPreparation'
      /\ Decided' /\ Closing' /\ RepairerInv'
  BY <1>3, PreparerMakes
<1>5. /\ \A p \in Reservations : p \in Parts /\ p[1] = "reservation"
      /\ \A p \in StageParts : p \in Involved /\ p[1] \in {"candidate", "root copy"}
      /\ Involved \subseteq Parts /\ Hidden \subseteq Parts
      /\ Directory \in Involved /\ Directory[1] = "transaction"
  <2>1. \A p \in Reservations : p \in Parts /\ p[1] = "reservation"
    BY AuthorityParts
  <2>2. Directory \in Involved
    BY DEF Involved
  <2> QED BY <1>2, <2>1, <2>2, InvolvedParts, PartObjects
<1>6. o # RootCopy /\ part'[o] = to /\ o[1] \in {"transaction", "state", "session", "reservation", "stage"}
  <2>1. o[1] \in {"transaction", "state", "session", "reservation", "stage"}
    <3>1. o \in Reservations => o[1] = "reservation"
      BY <1>5
    <3> QED BY <1>3, <3>1, PartObjects
  <2>2. o # RootCopy
    BY <2>1, PartObjects
  <2> QED BY <1>4, <2>1, <2>2
<1>7. ~Evidence.staged /\ (process.at > 5 => Evidence.filed) /\ process.at > 1
      /\ (process.at > 2 => part[Directory] = "staged")
  BY <1>2, <1>3 DEF PreparationInv, PreparerInv
<1>8. part'[Directory] = "staged"
  <2>1. CASE process.at = 2
    <3>1. o = Directory /\ to = "staged"
      BY <1>3, <2>1
    <3> QED BY <1>6, <3>1
  <2>2. CASE process.at # 2
    <3>1. process.at > 2 /\ part[Directory] = "staged"
      BY <1>2, <1>7, <2>2
    <3>2. o # Directory
      <4>1. \/ o \in {State, BackupSession, Stage}
            \/ o \in Reservations
        BY <1>3, <2>2
      <4> QED BY <1>5, <4>1, PartObjects
    <3> QED BY <1>4, <1>5, <3>1, <3>2
  <2> QED BY <2>1, <2>2
<1>14. \A p \in Parts : p[1] \notin {o[1], "candidate", "root copy"} => part'[p] = part[p]
  BY <1>4, <1>5
<1>15. \A p \in Parts : p[1] = "candidate" => part'[p] \in {part[p], "staged"}
  BY <1>4, <1>5, <1>6
<1>9. Involved' = Involved
  BY <1>2 DEF Involved, CandidateParts, Candidates, Reservations, DatabaseParts, CopyParts,
              TypeAuthorities, Database
<1>10. Sorted'
  <2>1. \A p \in Hidden : part'[p] # "published"
    <3>1. \A p \in Hidden : part[p] # "published" /\ p \in Parts /\ p[1] # "session"
      BY <1>5, PartObjects DEF PreparationInv, Sorted, Hidden
    <3>2. to = "published" => o[1] = "session"
      BY <1>3, PartObjects
    <3> QED BY <1>4, <1>6, <3>1, <3>2
  <2>2. \A k \in Created : part'[DbEntry(k)] # "restored"
    <3>1. \A k \in Created : part[DbEntry(k)] # "restored"
      BY DEF PreparationInv, Sorted
    <3>2. \A k \in Created : DbEntry(k) \in Parts /\ DbEntry(k)[1] = "database"
      BY <1>2, InvolvedParts, PartObjects
    <3> HIDE DEF DbEntry
    <3> QED BY <1>4, <1>5, <1>6, <3>1, <3>2
  <2>3. \A p \in Parts \ Involved : part'[p] = Unprepared[p]
    BY <1>4, <1>5 DEF PreparationInv, Sorted
  <2>4. \A p \in Parts : part'[p] \in {"staged", "partial"} => part'[Directory] \in {"staged", "partial"}
    BY <1>8
  <2> QED BY <1>9, <2>1, <2>2, <2>3, <2>4 DEF Sorted
<1>11. BeforeStaging'
  <2>1. /\ part[Pointer] = "absent" /\ part[State] # "published"
        /\ \A a \in Authorities : part[Candidate(a)] # "published"
        /\ \A k \in Keys : part[DbEntry(k)] = "before"
        /\ ~Evidence.filed => \A a \in Authorities : part[Reserved(a)] = "absent"
    BY <1>4, <1>7 DEF PreparationInv, BeforeStaging
  <2>2. part'[Pointer] = "absent"
    BY <1>4, <1>5, <1>6, <2>1, PartObjects
  <2>3. part'[State] # "published"
    BY <1>3, <1>4, <1>5, <1>6, <2>1, PartObjects
  <2>4. \A a \in Authorities : part'[Candidate(a)] # "published"
    <3> SUFFICES ASSUME NEW a \in Authorities PROVE part'[Candidate(a)] # "published"
      OBVIOUS
    <3>1. Candidate(a) \in Parts /\ Candidate(a)[1] = "candidate" /\ part[Candidate(a)] # "published"
      BY <2>1, PartObjects
    <3> QED BY <1>15, <3>1
  <2>5. \A k \in Keys : part'[DbEntry(k)] = "before"
    <3> SUFFICES ASSUME NEW k \in Keys PROVE part'[DbEntry(k)] = "before"
      OBVIOUS
    <3>1. DbEntry(k) \in Parts /\ DbEntry(k)[1] = "database" /\ part[DbEntry(k)] = "before"
      BY <2>1, PartObjects
    <3> QED BY <1>6, <1>14, <3>1
  <2>6. ~Evidence.filed => \A a \in Authorities : part'[Reserved(a)] = "absent"
    <3> SUFFICES ASSUME ~Evidence.filed, NEW a \in Authorities PROVE part'[Reserved(a)] = "absent"
      OBVIOUS
    <3>1. Reserved(a) \in Parts /\ Reserved(a)[1] = "reservation" /\ part[Reserved(a)] = "absent"
      BY <2>1, PartObjects
    <3>2. ~(process.at > 5)
      BY <1>7
    <3>3. o = Directory \/ o = State
      BY <1>2, <1>3, <3>2
    <3> QED BY <1>14, <3>1, <3>3, PartObjects
  <2> QED BY <1>4, <2>2, <2>3, <2>4, <2>5, <2>6 DEF BeforeStaging
<1>12. AfterStaging' /\ PointerLast'
  BY <1>4, <1>7, <1>11 DEF AfterStaging, PointerLast, BeforeStaging
<1>13. PreparerInv'
  <2>1. part'[Pointer] = "absent"
    BY <1>4, <1>7, <1>11 DEF BeforeStaging
  <2>2. \A a \in Authorities : part'[Reserved(a)] # "abandoned"
    <3>1. \A a \in Authorities : part[Reserved(a)] # "abandoned"
      BY <1>2 DEF PreparationInv, PreparerInv
    <3>2. to # "abandoned"
      BY <1>3
    <3> SUFFICES ASSUME NEW a \in Authorities PROVE part'[Reserved(a)] # "abandoned"
      OBVIOUS
    <3>3. Reserved(a) \in Parts /\ Reserved(a)[1] = "reservation" /\ part[Reserved(a)] # "abandoned"
      BY <3>1, PartObjects
    <3>4. Reserved(a) # o => part'[Reserved(a)] = part[Reserved(a)]
      BY <1>4, <1>5, <3>3
    <3> QED BY <1>6, <3>2, <3>3, <3>4
  <2>3. /\ Evidence.filed <=> process.at > 5
        /\ Evidence.staged <=> process.at > Len(PreparationStaging)
    BY <1>2, <1>7 DEF PreparationInv, PreparerInv
  <2>4. part'[PreparationPlan[process.at].object] = PreparationPlan[process.at].to
    BY <1>3, <1>6 DEF Change
  <2>5. process.at # 1 /\ ~(process.at > Len(PreparationStaging))
    BY <1>2, <1>7
  <2>6. \A i \in 1 .. Len(PreparationPlan) : ~(i > Len(PreparationStaging) /\ i < process.at)
    BY <1>2
  <2> QED BY <1>2, <1>4, <1>8, <2>1, <2>2, <2>3, <2>4, <2>5, <2>6 DEF PreparerInv
<1> QED BY <1>4, <1>10, <1>11, <1>12, <1>13 DEF PreparationInv

(* What all the parts of a candidate being final amounts to.                   *)
PartsFinal ==
    /\ type \in Types /\ Sorted /\ part[Pointer] = "published"
    /\ \A o \in CandidateParts : part[o] = FinalPart(o)

(* Then the candidate is published, with its certificates in the root database. *)
LEMMA CandidateFinal == PartsFinal => CandidatePublished /\ DatabasePublished
<1> SUFFICES ASSUME PartsFinal PROVE CandidatePublished /\ DatabasePublished
  OBVIOUS
<1> USE DEF PartsFinal
<1>1. \A a \in TypeAuthorities : part[Candidate(a)] = "published" /\ part[Reserved(a)] = "consumed"
  <2> SUFFICES ASSUME NEW a \in TypeAuthorities
               PROVE  part[Candidate(a)] = "published" /\ part[Reserved(a)] = "consumed"
    OBVIOUS
  <2>1. Candidate(a) \in CandidateParts /\ Reserved(a) \in CandidateParts /\ a \in Authorities
    BY DEF CandidateParts, Candidates, Reservations, TypeAuthorities, Authorities
  <2> QED BY <2>1, FinalPartIs
<1>2. part[State] = "published"
  BY FinalPartIs DEF CandidateParts
<1>3. part[RootCopy] = "absent"
  <2>1. CASE type = "intermediate"
    BY <2>1, FinalPartIs DEF CandidateParts, CopyParts
  <2>2. CASE type # "intermediate"
    <3>1. RootCopy \in Parts /\ RootCopy \notin CandidateParts
      <4>1. \A o \in CandidateParts : o # RootCopy
        <5>1. CopyParts = {}
          BY <2>2 DEF CopyParts
        <5>2. \A o \in Candidates \cup Reservations : o # RootCopy
          BY AuthorityParts, PartObjects
        <5>3. \A k \in Database \ Kept : DbEntry(k) # RootCopy
          BY PartObjects, IssuedIs
        <5>4. State # RootCopy
          BY PartObjects
        <5> QED BY <5>1, <5>2, <5>3, <5>4 DEF CandidateParts, DatabaseParts
      <4> QED BY <4>1, PartObjects
    <3>2. RootCopy \notin Involved
      BY <3>1, PartObjects DEF Involved
    <3>3. Unprepared[RootCopy] = "absent"
      BY <3>1, PartObjects DEF Unprepared
    <3> QED BY <3>1, <3>2, <3>3 DEF Sorted
  <2> QED BY <2>1, <2>2
<1>4. CandidatePublished
  BY <1>1, <1>2, <1>3 DEF CandidatePublished
<1>5. DatabasePublished
  <2> SUFFICES ASSUME NEW k \in Database \ Kept PROVE part[DbEntry(k)] = "after"
    BY DEF DatabasePublished
  <2>1. DbEntry(k) \in CandidateParts /\ k \in Keys
    BY IssuedIs DEF CandidateParts, DatabaseParts
  <2> QED BY <2>1, FinalPartIs
<1> QED BY <1>4, <1>5

(* The command publishes a part, the pointer after all the others.             *)
LEMMA PreparerPublishes ==
    ASSUME Typed, Typed', PreparationInv, PreparerChanges, process.at > Len(PreparationStaging)
    PROVE  PreparationInv'
<1>1. PreparerAt("change")
  BY DEF PreparerChanges
<1>2. /\ Preparing /\ Changing /\ type \in Types /\ process.at \in 1 .. Len(PreparationPlan)
      /\ Len(PreparationPlan) \in Nat /\ Len(PreparationStaging) \in Nat
      /\ Len(PreparationPlan) > Len(PreparationStaging) /\ Len(PreparationStaging) >= 10
      /\ ~receipt /\ (process.at > 1 => InPreparation)
      /\ PreparationPlan[process.at].kind = "change"
      /\ UNCHANGED << marker, receipt, type >>
      /\ PreparationPlan' = PreparationPlan /\ PreparationStaging' = PreparationStaging
  BY <1>1, PreparerWorks
<1>3. PICK o, to : /\ PreparationPlan[process.at] = Change(o, to)
                   /\ \/ /\ process.at < Len(PreparationPlan)
                         /\ o \in CandidateParts /\ to = FinalPart(o)
                      \/ process.at = Len(PreparationPlan) /\ o = Pointer /\ to = "published"
  <2>1. \/ /\ process.at < Len(PreparationPlan)
           /\ \E p \in CandidateParts : PreparationPlan[process.at] = Change(p, FinalPart(p))
        \/ /\ process.at = Len(PreparationPlan)
           /\ PreparationPlan[process.at] = Change(Pointer, "published")
    BY <1>2, PreparationAt
  <2> QED BY <2>1
<1>4. /\ o \in Involved /\ o \in Parts
      /\ \/ part'[o] = to
         \/ o = RootCopy /\ part'[o] \in {"absent", "partial"}
      /\ \A p \in Parts : p # o =>
            part'[p] = part[p] \/ (o = Stage /\ p \in StageParts /\ part'[p] = "staged")
      /\ process'.at = process.at /\ process'.mark \in {"pending", "made"}
      /\ process'.command = process.command
      /\ process'.mark = "made" => part'[o] = to
      /\ Evidence' = Evidence /\ InPreparation /\ InPreparation'
      /\ Decided' /\ Closing' /\ RepairerInv'
  BY <1>3, PreparerMakes
<1>5. /\ o[1] \in {"candidate", "reservation", "database", "root copy", "state", "pointer"}
      /\ o[1] = "pointer" <=> o = Pointer
      /\ to \in {"published", "consumed", "after", "absent"}
      /\ to = "published" => o[1] \in {"candidate", "state", "pointer"}
      /\ to = "absent" => o = RootCopy
      /\ o = RootCopy => to = "absent"
  BY <1>2, <1>3, FinalParts, PartObjects
<1>6. /\ o # Stage /\ o # Directory
      /\ \A p \in Parts : p # o => part'[p] = part[p]
  BY <1>4, <1>5, PartObjects
<1>7. /\ part[Directory] = "staged" /\ Evidence.staged /\ Evidence.filed
      /\ \A a \in Authorities : part[Reserved(a)] # "abandoned"
      /\ part[Pointer] = "published" => process.at > Len(PreparationPlan)
      /\ \A i \in 1 .. Len(PreparationPlan) :
              i > Len(PreparationStaging) /\ i < process.at =>
                  \/ part[PreparationPlan[i].object] = PreparationPlan[i].to
                  \/ PreparationPlan[i].object = PreparationPlan[process.at].object
      /\ process.at > 1
  <2>1. process.at > 5 /\ process.at <= Len(PreparationPlan)
    BY <1>2
  <2>2. process.mark = "pending"
    BY DEF PreparerChanges
  <2> QED BY <1>2, <2>1, <2>2 DEF PreparationInv, PreparerInv
<1>8. part'[Directory] = "staged"
  BY <1>6, <1>7, PartObjects
<1>9. Involved' = Involved
  BY <1>2 DEF Involved, CandidateParts, Candidates, Reservations, DatabaseParts, CopyParts,
              TypeAuthorities, Database
<1>10. Sorted'
  <2>1. \A p \in Hidden : part'[p] # "published"
    <3>1. \A p \in Hidden : part[p] # "published" /\ p \in Parts
                             /\ p[1] \notin {"candidate", "state", "pointer"}
      BY <1>2, InvolvedParts, PartObjects DEF PreparationInv, Sorted, Hidden
    <3> QED BY <1>4, <1>5, <1>6, <3>1
  <2>2. \A k \in Created : part'[DbEntry(k)] # "restored"
    <3>1. \A k \in Created : part[DbEntry(k)] # "restored" /\ DbEntry(k) \in Parts
                              /\ DbEntry(k)[1] = "database"
      BY <1>2, InvolvedParts, PartObjects DEF PreparationInv, Sorted
    <3> SUFFICES ASSUME NEW k \in Created PROVE part'[DbEntry(k)] # "restored"
      OBVIOUS
    <3>2. part[DbEntry(k)] # "restored" /\ DbEntry(k) \in Parts /\ DbEntry(k)[1] = "database"
      BY <3>1
    <3>3. RootCopy[1] # "database"
      BY PartObjects
    <3> QED BY <1>4, <1>5, <1>6, <3>2, <3>3
  <2>3. \A p \in Parts \ Involved : part'[p] = Unprepared[p]
    BY <1>4, <1>6 DEF PreparationInv, Sorted
  <2>4. \A p \in Parts : part'[p] \in {"staged", "partial"} => part'[Directory] \in {"staged", "partial"}
    BY <1>8
  <2> QED BY <1>9, <2>1, <2>2, <2>3, <2>4 DEF Sorted
<1>11. BeforeStaging'
  BY <1>4, <1>7 DEF BeforeStaging
<1>12. \A a \in Authorities : part'[Reserved(a)] # "abandoned"
  <2> SUFFICES ASSUME NEW a \in Authorities PROVE part'[Reserved(a)] # "abandoned"
    OBVIOUS
  <2>1. Reserved(a) \in Parts /\ Reserved(a)[1] = "reservation" /\ part[Reserved(a)] # "abandoned"
    BY <1>7, PartObjects
  <2>2. RootCopy[1] # "reservation"
    BY PartObjects
  <2> QED BY <1>4, <1>5, <1>6, <2>1, <2>2
<1>13. AfterStaging'
  <2>1. \A a \in TypeAuthorities' : a \in Authorities
    BY DEF TypeAuthorities, Authorities
  <2> QED BY <1>8, <1>12, <2>1 DEF AfterStaging
<1>14. part'[Pointer] = "published" => process.at = Len(PreparationPlan)
  <2>1. ~(process.at > Len(PreparationPlan)) /\ part[Pointer] # "published"
    BY <1>2, <1>7
  <2> QED BY <1>2, <1>3, <1>4, <1>6, <2>1, FinalParts, PartObjects
<1>15. PointerLast'
  <2>1. CASE process.at # Len(PreparationPlan)
    BY <1>14, <2>1 DEF PointerLast
  <2>2. CASE process.at = Len(PreparationPlan)
    <3>1. o = Pointer /\ to = "published" /\ part'[Pointer] = "published"
      <4>1. ~(process.at < Len(PreparationPlan))
        BY <1>2, <2>2
      <4>2. o = Pointer /\ to = "published"
        BY <1>3, <4>1
      <4> QED BY <1>4, <4>2, PartObjects
    <3>2. ASSUME NEW p \in CandidateParts PROVE part'[p] = FinalPart(p)
      <4>1. PICK i \in 1 .. Len(PreparationPlan) :
               /\ i > Len(PreparationStaging) /\ i < Len(PreparationPlan)
               /\ PreparationPlan[i] = Change(p, FinalPart(p))
        BY <1>2, PreparationPlanIs
      <4>2. p # Pointer /\ p \in Parts
        BY <1>2, InvolvedParts DEF Involved
      <4>3. PreparationPlan[i].object = p /\ PreparationPlan[i].to = FinalPart(p)
            /\ PreparationPlan[process.at].object = Pointer
        BY <1>3, <3>1, <4>1 DEF Change
      <4>4. part[p] = FinalPart(p)
        BY <1>7, <2>2, <4>1, <4>2, <4>3
      <4> QED BY <1>6, <3>1, <4>2, <4>4
    <3>3. (CandidatePublished /\ DatabasePublished)'
      <4>1. type' \in Types /\ CandidateParts' = CandidateParts
        BY <1>2 DEF CandidateParts, Candidates, Reservations, DatabaseParts, CopyParts,
                    TypeAuthorities, Database
      <4>2. (\A p \in CandidateParts : part[p] = FinalPart(p))'
        <5>1. \A p : FinalPart(p)' = FinalPart(p)
          BY DEF FinalPart
        <5> QED BY <3>2, <4>1, <5>1
      <4>3. PartsFinal'
        BY <1>10, <3>1, <4>1, <4>2 DEF PartsFinal
      <4> QED BY <4>3, CandidateFinal, PTL
    <3> QED BY <3>3 DEF PointerLast
  <2> QED BY <2>1, <2>2
<1>16. PreparerInv'
  <2>1. /\ Evidence.filed <=> process.at > 5
        /\ Evidence.staged <=> process.at > Len(PreparationStaging)
    BY <1>2, <1>7 DEF PreparationInv, PreparerInv
  <2>2. process'.mark = "made" =>
            part'[PreparationPlan[process.at].object] = PreparationPlan[process.at].to
    BY <1>3, <1>4 DEF Change
  <2>3. part'[Pointer] = "published" => process'.mark = "made"
    <3>1. part'[Pointer] = "published" => o = Pointer
      BY <1>3, <1>14, <1>2
    <3>2. process'.mark = IF part'[PreparationPlan[process.at].object] = "partial" THEN "pending" ELSE "made"
      <4>1. process.mark = "pending" /\ process \in ProcessType
        BY DEF PreparerChanges, Typed, JournalTyped
      <4> QED BY <4>1 DEF PreparerChanges, ProcessType
    <3> QED BY <1>3, <3>1, <3>2 DEF Change
  <2>4. ASSUME NEW i \in 1 .. Len(PreparationPlan), i > Len(PreparationStaging), i < process.at
        PROVE  \/ part'[PreparationPlan[i].object] = PreparationPlan[i].to
               \/ PreparationPlan[i].object = PreparationPlan[process.at].object
    <3>1. PreparationPlan[process.at].object = o
      BY <1>3 DEF Change
    <3>2. i # Len(PreparationPlan)
      BY <1>2, <2>4
    <3>3. PICK p \in CandidateParts : PreparationPlan[i] = Change(p, FinalPart(p))
      BY <1>2, <2>4, <3>2, PreparationPlanIs DEF Changes
    <3>4. p \in Parts /\ PreparationPlan[i].object = p
      <4>1. p \in Involved
        BY DEF Involved
      <4>2. PreparationPlan[i].object = p
        BY <3>3 DEF Change
      <4> QED BY <1>2, <4>1, <4>2, InvolvedParts
    <3> QED BY <1>6, <1>7, <2>4, <3>1, <3>4
  <2>5. process.at # 1 /\ process.at <= Len(PreparationPlan)
    BY <1>2, <1>7
  <2> QED BY <1>2, <1>4, <1>8, <1>12, <1>14, <2>1, <2>2, <2>3, <2>4, <2>5 DEF PreparerInv
<1> QED BY <1>4, <1>10, <1>11, <1>13, <1>15, <1>16 DEF PreparationInv

(* Every step of the command keeps the invariant.                             *)
LEMMA PreparerKeeps ==
    ASSUME Typed, Typed', PreparationInv, PreparerSteps PROVE PreparationInv'
<1>1. CASE PreparerChanges
  <2>1. PreparerAt("change")
    BY <1>1 DEF PreparerChanges
  <2>2. process.at \in Nat /\ Len(PreparationStaging) \in Nat
    BY <2>1, PreparerWorks
  <2>3. process.at <= Len(PreparationStaging) \/ process.at > Len(PreparationStaging)
    BY <2>2
  <2> QED BY <1>1, <2>3, PreparerStages, PreparerPublishes
<1>2. CASE PreparerUnlinks
  BY <1>2, Unlinked, PreparationStutters
<1> QED BY <1>1, <1>2, PreparerNotesKeep, PreparerFillsKeep, PreparerAnnouncesKeep,
    PreparerRecordsKeep
        DEF PreparerSteps

(* A command that fails, and the marker that a recovery finds with its receipt.  *)
LEMMA PreparationStopsKeep ==
    ASSUME Typed, PreparationInv, PreparationFails \/ DropMarkedReceipt PROVE PreparationInv'
<1>1. CASE PreparationFails
  <2>1. process' = Idle /\ journal' = journal /\ part' = part /\ type' = type
    BY <1>1 DEF PreparationFails, Failing, preparation_vars
  <2>2. (receipt' => receipt) /\ (~marker' => ~marker \/ receipt)
    BY <1>1 DEF PreparationFails
  <2> QED BY <2>1, <2>2, PreparationIdles
<1>2. CASE DropMarkedReceipt
  <2>1. process' = Idle
    BY <1>2 DEF DropMarkedReceipt, Running, Typed, Control
  <2>2. journal' = journal /\ part' = part /\ type' = type /\ receipt' = receipt /\ receipt
    BY <1>2 DEF DropMarkedReceipt, preparation_vars
  <2> QED BY <2>1, <2>2, PreparationIdles
<1> QED BY <1>1, <1>2

(* A recovery at work: its journal is not committed yet.                       *)
LEMMA RepairerWorks ==
    ASSUME Typed, PreparationInv, RepairsOn, process.mark \in {"none", "pending", "made"}
    PROVE  /\ Repairing /\ Changing /\ type \in Types /\ process.at \in 1 .. Len(Repairs)
           /\ Len(Repairs) \in Nat /\ process \in ProcessType /\ journal \in JournalType
           /\ process.command \in Actions /\ process.operation = "rollover-prepare" /\ ~Preparing
           /\ InPreparation /\ ~journal.committed /\ ~receipt
           /\ process.action = process.command
           /\ UNCHANGED << marker, receipt, type >>
           /\ RepairEntry = Repairs[process.at] /\ Lawful(RepairEntry.object, RepairEntry.to)
           /\ \A i \in 1 .. Len(Repairs) : i < process.at => Repaired(Repairs[i])
           /\ process.command = "resume" => Continued
<1>1. /\ Repairing /\ Changing /\ process.at <= Len(Repairs) /\ UNCHANGED << marker, receipt, type >>
  BY DEF RepairsOn, Repairs, Changing
<1>2. process \in ProcessType /\ journal \in JournalType
  BY DEF Typed, JournalTyped
<1>3. process.at \in Nat /\ process.command \in Actions /\ process.operation = "rollover-prepare"
      /\ ~Preparing
  BY <1>1, <1>2 DEF ProcessType, Repairing, Preparing, Actions
<1>4. type \in Types /\ process.at >= 1 /\ journal.operation = "rollover-prepare"
      /\ process.action = process.command
  BY <1>1, <1>3 DEF Typed, Control, Actions, Changing
<1>5. Len(Repairs) \in Nat
  BY <1>4, StagedRollbackIs, UnstagedRollbackIs, ResumptionIs DEF Repairs, RepairPlan
<1>6. ~journal.committed
  <2>1. process.at # Len(Repairs) + 1
    BY <1>1, <1>3, <1>5
  <2> QED BY <1>1, <2>1 DEF PreparationInv, RepairerInv
<1>7. InPreparation /\ ~receipt
  BY <1>4, <1>6 DEF InPreparation, PreparationInv, Closing
<1>8. /\ \A i \in 1 .. Len(Repairs) : i < process.at => Repaired(Repairs[i])
      /\ process.command = "resume" => Continued
  BY <1>1, <1>6 DEF PreparationInv, RepairerInv
<1>9. process.at \in 1 .. Len(Repairs)
  BY <1>1, <1>3, <1>4, <1>5
<1>10. RepairEntry = Repairs[process.at] /\ Lawful(RepairEntry.object, RepairEntry.to)
  BY <1>3, <1>4, <1>9, RepairEntryKinds DEF RepairEntry, Repairs
<1> QED BY <1>1, <1>2, <1>3, <1>4, <1>5, <1>6, <1>7, <1>8, <1>9, <1>10

(* A step of a recovery that only writes the journal.                         *)
LEMMA RepairerWrites ==
    ASSUME Typed, PreparationInv, RepairsOn, process.mark \in {"none", "pending", "made"},
           part' = part, InPreparation', process'.command = process.command,
           process'.operation = process.operation,
           Evidence'.staged = Evidence.staged, Evidence'.filed = Evidence.filed,
           \/ process'.at = process.at /\ process'.mark = "pending" /\ FixDue
           \/ process'.at = process.at + 1 /\ process'.mark = "none" /\ Repaired(RepairEntry)
    PROVE  PreparationInv'
<1>1. /\ Repairing /\ Changing /\ type \in Types /\ process.at \in 1 .. Len(Repairs)
      /\ Len(Repairs) \in Nat /\ process \in ProcessType
      /\ process.command \in Actions /\ process.operation = "rollover-prepare" /\ ~Preparing
      /\ InPreparation /\ ~journal.committed /\ ~receipt
      /\ UNCHANGED << marker, receipt, type >> /\ RepairEntry = Repairs[process.at]
      /\ \A i \in 1 .. Len(Repairs) : i < process.at => Repaired(Repairs[i])
      /\ process.command = "resume" => Continued
  BY RepairerWorks
<1>2. /\ Sorted' <=> Sorted
      /\ PointerLast' <=> PointerLast
  BY <1>1, SameParts
<1>3. Sorted' /\ PointerLast'
  BY <1>2 DEF PreparationInv
<1>4. BeforeStaging' /\ AfterStaging'
  <2>1. TypeAuthorities' = TypeAuthorities
    BY <1>1 DEF TypeAuthorities
  <2> QED BY <1>1, <2>1 DEF PreparationInv, BeforeStaging, AfterStaging
<1>5. Decided'
  BY DEF Decided, InPreparation
<1>6. process'.mark \in {"none", "pending"}
  OBVIOUS
<1>7. Closing'
  BY <1>1, <1>6 DEF Closing, InPreparation
<1>8. PreparerInv'
  BY <1>1 DEF PreparerInv, Preparing
<1>9. Repairs' = Repairs
  <2>1. \A action : RepairPlan(action)' = RepairPlan(action)
    BY <1>1, SamePreparation
  <2> QED BY <2>1 DEF Repairs
<1>10. \A e : Repaired(e)' <=> Repaired(e)
  BY DEF Repaired
<1>11. process.command = "resume" => Continued'
  <2>1. Candidates' = Candidates
    BY <1>1 DEF Candidates, TypeAuthorities
  <2> QED BY <1>1, <2>1 DEF Continued
<1>12. ~journal'.committed
  BY DEF InPreparation
<1>13. CASE process'.at = process.at /\ process'.mark = "pending" /\ FixDue
  <2>1. RepairEntry' = RepairEntry
    BY <1>1, <1>9, <1>13 DEF RepairEntry, Repairs
  <2>2. FixDue'
    BY <1>13, <2>1 DEF FixDue
  <2>3. \A i \in 1 .. Len(Repairs') : i < process'.at => Repaired(Repairs[i])'
    BY <1>1, <1>9, <1>10, <1>13 DEF Repaired
  <2> QED BY <1>1, <1>3, <1>4, <1>5, <1>7, <1>8, <1>9, <1>11, <1>12, <1>13, <2>2, <2>3
          DEF RepairerInv, PreparationInv
<1>14. CASE process'.at = process.at + 1 /\ process'.mark = "none" /\ Repaired(RepairEntry)
  <2>1. \A i \in 1 .. Len(Repairs) : i < process'.at => Repaired(Repairs[i])
    <3> SUFFICES ASSUME NEW i \in 1 .. Len(Repairs), i < process'.at PROVE Repaired(Repairs[i])
      OBVIOUS
    <3>1. i < process.at \/ i = process.at
      BY <1>1, <1>14
    <3> QED BY <1>1, <1>14, <3>1
  <2>2. \A i \in 1 .. Len(Repairs') : i < process'.at => Repaired(Repairs[i])'
    BY <1>9, <1>10, <2>1 DEF Repaired
  <2> QED BY <1>1, <1>3, <1>4, <1>5, <1>7, <1>8, <1>9, <1>11, <1>12, <1>14, <2>2
          DEF RepairerInv, PreparationInv
<1> QED BY <1>13, <1>14

(* An entry of a rollback never leads to a state that it starts from, and of a  *)
(* resume neither.                                                            *)
LEMMA RepairsEnd ==
    ASSUME type \in Types, NEW action \in Actions, NEW i \in 1 .. Len(RepairPlan(action))
    PROVE  RepairPlan(action)[i].to \notin RepairPlan(action)[i].from
<1>0. \A o : RepairOf(o).to \notin RepairOf(o).from
  BY DEF RepairOf, Fix
<1>1. CASE action = "resume"
  <2>1. RepairPlan(action) = Resumption
    BY <1>1 DEF RepairPlan
  <2>2. \A o : CompletionOf(o).to \notin CompletionOf(o).from
    BY DEF CompletionOf, Fix, Move
  <2>3. \A e \in Renewals : e.to \notin e.from
    BY DEF Renewals, Renew, Fix
  <2>4. Fix(Pointer, {"absent"}, "published").to \notin Fix(Pointer, {"absent"}, "published").from
    BY DEF Fix
  <2>5. Resumption[i].to \notin Resumption[i].from
    BY <2>1, <2>2, <2>3, <2>4, ResumptionIs DEF CompletionsOf
  <2> QED BY <2>1, <2>5
<1>2. CASE action # "resume" /\ Evidence.staged
  <2>1. RepairPlan(action) = StagedRollback
    BY <1>2 DEF RepairPlan
  <2>2. StagedRollback[i] \in Repairings(RolledBack) \cup Repairings(EndingParts)
    BY <2>1, StagedRollbackIs
  <2> QED BY <1>0, <2>1, <2>2 DEF Repairings
<1>3. CASE action # "resume" /\ ~Evidence.staged
  <2>1. RepairPlan(action) = UnstagedRollback
    BY <1>3 DEF RepairPlan
  <2>2. UnstagedRollback[i] \in Repairings(EndingParts) \cup Repairings({BackupSession})
    BY <2>1, UnstagedRollbackIs
  <2> QED BY <1>0, <2>1, <2>2 DEF Repairings
<1> QED BY <1>1, <1>2, <1>3

(* The steps of a recovery that change no part.                               *)
LEMMA RepairerNotes ==
    ASSUME Typed, PreparationInv,
           RepairAnnounces \/ RepairRefuses \/ RepairRecords \/ RepairPasses
    PROVE  PreparationInv'
<1>1. RepairsOn /\ process.mark \in {"none", "pending", "made"}
  BY DEF RepairAnnounces, RepairRefuses, RepairRecords, RepairPasses
<1>2. /\ Repairing /\ Changing /\ type \in Types /\ process.at \in 1 .. Len(Repairs)
      /\ process \in ProcessType /\ journal \in JournalType /\ process.command \in Actions
      /\ InPreparation /\ ~journal.committed
      /\ UNCHANGED << marker, receipt, type >>
      /\ RepairEntry = Repairs[process.at] /\ Lawful(RepairEntry.object, RepairEntry.to)
  BY <1>1, RepairerWorks
<1>3. ASSUME NEW mark \in {"pending", "done"}, NEW evidence \in EvidenceType,
             PartCheckpoint(RepairEntry.object, mark, evidence),
             evidence.staged = journal.evidence.staged, evidence.filed = journal.evidence.filed
      PROVE  /\ InPreparation' /\ Evidence'.staged = Evidence.staged
             /\ Evidence'.filed = Evidence.filed
  BY <1>2, <1>3, PartCheckpointTyped DEF Lawful, Typed, InPreparation, Evidence
<1>4. journal.evidence \in EvidenceType
  BY <1>2 DEF JournalType
<1>5. Done => /\ process'.command = process.command /\ process'.operation = process.operation
              /\ process'.at = process.at + 1 /\ process'.mark = "none"
  BY <1>2 DEF Done, ProcessType
<1>6. RepairEntry.to \notin RepairEntry.from
  BY <1>2, RepairsEnd DEF Repairs
<1>7. CASE RepairAnnounces
  <2>1. /\ PartCheckpoint(RepairEntry.object, "pending", journal.evidence)
        /\ process' = [process EXCEPT !.mark = "pending"] /\ part' = part /\ FixDue
    BY <1>7 DEF RepairAnnounces, Evidence
  <2>2. /\ process'.command = process.command /\ process'.operation = process.operation
        /\ process'.at = process.at /\ process'.mark = "pending"
    BY <1>2, <2>1 DEF ProcessType
  <2>3. InPreparation' /\ Evidence'.staged = Evidence.staged /\ Evidence'.filed = Evidence.filed
    BY <1>3, <1>4, <2>1
  <2> QED BY <1>1, <2>1, <2>2, <2>3, RepairerWrites
<1>8. CASE RepairRefuses
  <2>1. process' = Idle /\ journal' = journal /\ part' = part
    BY <1>8 DEF RepairRefuses
  <2> QED BY <1>2, <2>1, PreparationIdles
<1>9. CASE RepairRecords
  <2>1. /\ PartCheckpoint(RepairEntry.object, "done", Recorded(RepairEntry.object, RepairEntry.to))
        /\ Done /\ part' = part
        /\ process.mark = "made" \/ Unrecorded(RepairEntry)
    BY <1>9 DEF RepairRecords
  <2>2. /\ Recorded(RepairEntry.object, RepairEntry.to) \in EvidenceType
        /\ Recorded(RepairEntry.object, RepairEntry.to).filed = journal.evidence.filed
        /\ Recorded(RepairEntry.object, RepairEntry.to).staged = journal.evidence.staged
    BY <1>2, RecordedTyped DEF Lawful, Typed
  <2>3. InPreparation' /\ Evidence'.staged = Evidence.staged /\ Evidence'.filed = Evidence.filed
    BY <1>3, <2>1, <2>2
  <2>4. Repaired(RepairEntry)
    <3>1. CASE process.mark = "made"
      BY <1>2, <3>1 DEF PreparationInv, RepairerInv
    <3>2. CASE Unrecorded(RepairEntry)
      BY <1>6, <3>2 DEF Unrecorded, Repaired
    <3> QED BY <2>1, <3>1, <3>2
  <2> QED BY <1>1, <1>5, <2>1, <2>3, <2>4, RepairerWrites
<1>10. CASE RepairPasses
  <2>1. Done /\ journal' = journal /\ part' = part /\ ~FixDue
    BY <1>10 DEF RepairPasses
  <2>2. InPreparation' /\ Evidence' = Evidence
    BY <1>2, <2>1 DEF InPreparation, Evidence
  <2>3. Repaired(RepairEntry)
    BY <2>1 DEF FixDue, Repaired
  <2> QED BY <1>1, <1>5, <2>1, <2>2, <2>3, RepairerWrites
<1> QED BY <1>7, <1>8, <1>9, <1>10

(* What of the invariant a change by a recovery may disturb.                   *)
RepairsKept ==
    /\ Sorted' /\ BeforeStaging' /\ AfterStaging' /\ PointerLast'
    /\ \A i \in 1 .. Len(Repairs) : i < process.at => Repaired(Repairs[i])'
    /\ process.command = "resume" => Continued'

(* A change by a recovery.                                                    *)
LEMMA RepairerMakes ==
    ASSUME Typed, PreparationInv, RepairChanges, RepairEntry.object \in Involved \ {Directory},
           RepairEntry.to \notin {"staged", "partial"}
    PROVE  LET o == RepairEntry.object
               to == RepairEntry.to
           IN  /\ o \in Parts
               /\ to = "absent" /\ IsTree(o) =>
                     part'[o] = IF part[o] = "partial" THEN "absent" ELSE "partial"
               /\ ~(to = "absent" /\ IsTree(o)) => part'[o] = to
               /\ \A p \in Parts : p # o =>
                     \/ part'[p] = part[p]
                     \/ /\ o = Stage /\ p \in StageParts
                        /\ part[p] \in {"staged", "partial"} /\ part'[p] \in {"absent", "partial"}
               /\ FixDue \/ (part[o] = "partial" /\ to = "absent")
               /\ Evidence' = Evidence /\ InPreparation' /\ type' = type /\ Repairs' = Repairs
               /\ RepairsKept => PreparationInv'
<1> DEFINE o == RepairEntry.object
           to == RepairEntry.to
<1>1. /\ RepairsOn /\ process.mark = "pending" /\ ChangePart(o, to) /\ journal' = journal
      /\ process' = [process EXCEPT !.mark = IF part'[o] = "partial" THEN process.mark ELSE "made"]
  BY DEF RepairChanges
<1>2. /\ Repairing /\ Changing /\ type \in Types /\ process.at \in 1 .. Len(Repairs)
      /\ Len(Repairs) \in Nat /\ process \in ProcessType
      /\ process.command \in Actions /\ process.operation = "rollover-prepare" /\ ~Preparing
      /\ InPreparation /\ ~journal.committed /\ ~receipt
      /\ UNCHANGED << marker, receipt, type >>
      /\ RepairEntry = Repairs[process.at] /\ Lawful(o, to)
      /\ \A i \in 1 .. Len(Repairs) : i < process.at => Repaired(Repairs[i])
  BY <1>1, RepairerWorks
<1>3. to \notin RepairEntry.from
  BY <1>2, RepairsEnd DEF Repairs
<1>4. FixDue \/ (part[o] = "partial" /\ to = "absent")
  BY <1>1, <1>2 DEF PreparationInv, RepairerInv
<1>5. o \in Parts /\ o \in Involved /\ o # Directory /\ to \notin {"staged", "partial"}
  BY <1>2 DEF Lawful
<1>6. /\ Evidence' = Evidence /\ InPreparation' /\ type' = type
      /\ process'.at = process.at /\ process'.command = process.command
      /\ process'.operation = process.operation
      /\ process'.mark = IF part'[o] = "partial" THEN "pending" ELSE "made"
  BY <1>1, <1>2 DEF Evidence, InPreparation, ProcessType
<1>7. Repairs' = Repairs
  <2>1. \A action : RepairPlan(action)' = RepairPlan(action)
    BY <1>2, <1>6, SamePreparation
  <2> QED BY <1>6, <2>1 DEF Repairs
<1>8. RepairEntry' = RepairEntry
  BY <1>2, <1>6, <1>7 DEF RepairEntry, Repairs
<1> HIDE DEF o, to
<1>9. /\ to = "absent" /\ IsTree(o) =>
              part'[o] = IF part[o] = "partial" THEN "absent" ELSE "partial"
      /\ ~(to = "absent" /\ IsTree(o)) => part'[o] = to
      /\ \A p \in Parts : p # o =>
              \/ part'[p] = part[p]
              \/ /\ o = Stage /\ p \in StageParts
                 /\ part[p] \in {"staged", "partial"} /\ part'[p] \in {"absent", "partial"}
  <2>1. PreparationTyped
    BY DEF Typed
  <2> QED BY <1>1, <1>2, <1>5, <2>1, PartChanges
<1>10. ASSUME RepairsKept PROVE PreparationInv'
  <2>1. Decided' /\ Closing' /\ PreparerInv'
    <3>1. Decided'
      BY <1>6 DEF Decided, InPreparation
    <3>2. Closing'
      BY <1>2, <1>6 DEF Closing, InPreparation
    <3>3. PreparerInv'
      BY <1>2, <1>6 DEF PreparerInv, Preparing
    <3> QED BY <3>1, <3>2, <3>3
  <2>2. ~journal'.committed
    BY <1>6 DEF InPreparation
  <2>3. process'.mark # "none" => process'.at <= Len(Repairs')
    BY <1>2, <1>6, <1>7
  <2>4. process'.mark = "pending" => part'[o] = "partial" /\ to = "absent"
    BY <1>5, <1>6, <1>9
  <2>5. process'.mark = "pending" =>
            FixDue' \/ (part'[RepairEntry'.object] = "partial" /\ RepairEntry'.to = "absent")
    BY <1>8, <2>4 DEF o, to
  <2>6. process'.mark = "made" => part'[o] = to
    BY <1>6, <1>9
  <2>7. process'.mark = "made" => Repaired(RepairEntry)'
    BY <1>3, <1>8, <2>6 DEF Repaired, o, to
  <2>8. /\ \A i \in 1 .. Len(Repairs') : i < process'.at => Repaired(Repairs[i])'
        /\ process'.command = "resume" => Continued'
    BY <1>6, <1>7, <1>10 DEF RepairsKept
  <2>9. RepairerInv'
    BY <2>2, <2>3, <2>5, <2>7, <2>8 DEF RepairerInv
  <2> QED BY <1>10, <2>1, <2>9 DEF PreparationInv, RepairsKept
<1> QED BY <1>4, <1>5, <1>6, <1>7, <1>9, <1>10 DEF o, to

(* Where each entry of a rollback stands.                                     *)
LEMMA RollbackEntries ==
    ASSUME type \in Types, process.command = "rollback", NEW i \in 1 .. Len(Repairs)
    PROVE  /\ Len(Repairs) \in Nat
           /\ Repairs[i] = RepairOf(Repairs[i].object)
           /\ Repairs[i].object \in RolledBack \cup EndingParts
           /\ ~Evidence.staged => Repairs[i].object \in EndingParts
           /\ ~Evidence.staged /\ ~Evidence.filed => Repairs[i].object = BackupSession
           /\ Evidence.staged => /\ Repairs[1] = RepairOf(Pointer)
                                 /\ Repairs[i].object \in EndingParts =>
                                      \E j \in 1 .. Len(Repairs) :
                                          j < i /\ Repairs[j] = RepairOf(State)
<1>0. \A p : RepairOf(p).object = p
  BY DEF RepairOf, Fix
<1>1. CASE Evidence.staged
  <2>1. Repairs = StagedRollback
    BY <1>1 DEF Repairs, RepairPlan
  <2>2. /\ Len(Repairs) \in Nat /\ Len(CandidateRollback) \in Nat
        /\ Repairs[1] = RepairOf(Pointer)
        /\ Len(Repairs) > Len(CandidateRollback)
        /\ IF i <= Len(CandidateRollback) THEN Repairs[i] \in Repairings(RolledBack)
           ELSE Repairs[i] \in Repairings(EndingParts)
        /\ \A p \in RolledBack :
              \E j \in 1 .. Len(CandidateRollback) : Repairs[j] = RepairOf(p)
    BY <2>1, StagedRollbackIs
  <2>3. Repairs[i] = RepairOf(Repairs[i].object) /\ Repairs[i].object \in RolledBack \cup EndingParts
    BY <1>0, <2>2 DEF Repairings
  <2>4. i <= Len(CandidateRollback) => Repairs[i].object \in RolledBack
    BY <1>0, <2>2 DEF Repairings
  <2>5. RolledBack \cap EndingParts = {}
    <3>1. \A p \in RolledBack : p[1] \in {"pointer", "state", "stage", "candidate", "database"}
      <4>1. \A k \in Database \ Kept : DbEntry(k)[1] = "database"
        BY PartObjects, IssuedIs
      <4>2. \A p \in DatabaseParts : p[1] = "database"
        BY <4>1 DEF DatabaseParts
      <4>3. \A p \in Candidates : p[1] = "candidate"
        BY AuthorityParts
      <4> QED BY <4>2, <4>3, PartObjects DEF RolledBack
    <3>2. \A p \in EndingParts : p[1] \in {"reservation", "session"}
      BY AuthorityParts, PartObjects DEF EndingParts
    <3> QED BY <3>1, <3>2
  <2>6. Repairs[i].object \in EndingParts =>
            \E j \in 1 .. Len(Repairs) : j < i /\ Repairs[j] = RepairOf(State)
    <3> SUFFICES ASSUME Repairs[i].object \in EndingParts
                 PROVE  \E j \in 1 .. Len(Repairs) : j < i /\ Repairs[j] = RepairOf(State)
      OBVIOUS
    <3>1. ~(i <= Len(CandidateRollback))
      BY <2>4, <2>5
    <3>2. PICK j \in 1 .. Len(CandidateRollback) : Repairs[j] = RepairOf(State)
      BY <2>2 DEF RolledBack
    <3>3. j < i /\ j \in 1 .. Len(Repairs)
      BY <2>2, <3>1
    <3> QED BY <3>2, <3>3
  <2> QED BY <1>1, <2>2, <2>3, <2>6
<1>2. CASE ~Evidence.staged
  <2>1. Repairs = UnstagedRollback
    BY <1>2 DEF Repairs, RepairPlan
  <2>2. /\ Len(Repairs) \in Nat
        /\ Repairs[i] \in Repairings(IF Evidence.filed THEN EndingParts ELSE {BackupSession})
    BY <2>1, UnstagedRollbackIs
  <2>3. Repairs[i] = RepairOf(Repairs[i].object)
        /\ Repairs[i].object \in (IF Evidence.filed THEN EndingParts ELSE {BackupSession})
    BY <1>0, <2>2 DEF Repairings
  <2>4. BackupSession \in EndingParts
    BY DEF EndingParts
  <2> QED BY <1>2, <2>2, <2>3, <2>4
<1> QED BY <1>1, <1>2

(* What a rollback takes, and to which state.                                 *)
LEMMA RollbackStates ==
    ASSUME type \in Types, NEW o \in RolledBack \cup EndingParts
    PROVE  /\ o \in Involved /\ o # Directory /\ o # RootCopy
           /\ RepairOf(o).to \in {"before", "restored", "abandoned", "absent"}
           /\ RepairOf(o).to = "abandoned" <=> o \in Reservations
           /\ o \in DatabaseParts <=> RepairOf(o).to \in {"before", "restored"}
           /\ \A k \in Created : o = DbEntry(k) => RepairOf(o).to = "before"
           /\ o \notin DatabaseParts \cup Reservations => RepairOf(o).to = "absent"
           /\ o \in EndingParts => ~IsTree(o)
           /\ o \in StageParts => RepairOf(o).from = {"published"}
<1>1. \/ \E a \in TypeAuthorities : o = Candidate(a)
      \/ \E a \in TypeAuthorities : o = Reserved(a)
      \/ \E k \in Database \ Kept : o = DbEntry(k)
      \/ o \in {Pointer, State, Stage, BackupSession}
  BY DEF RolledBack, EndingParts, Candidates, Reservations, DatabaseParts
<1>2. o \in Involved
  BY DEF RolledBack, EndingParts, Involved, CandidateParts
<1>3. \A p \in DatabaseParts : p[1] = "database"
  <2>1. \A k \in Database \ Kept : DbEntry(k)[1] = "database"
    BY PartObjects, IssuedIs
  <2> QED BY <2>1 DEF DatabaseParts
<1>4. \A p \in Reservations : p[1] = "reservation"
  BY AuthorityParts
<1>5. \A p \in StageParts : p[1] \in {"candidate", "root copy"}
  BY InvolvedParts
<1>6. \A p \in EndingParts : p[1] \in {"reservation", "session"}
  BY <1>4, PartObjects DEF EndingParts
<1>7. \A k \in Created : k \in Keys /\ DbEntry(k)[1] = "database" /\ DbEntry(k)[2] = k
  BY InvolvedParts, PartObjects
<1>8. ASSUME NEW a \in TypeAuthorities, o = Candidate(a)
      PROVE  o[1] = "candidate" /\ RepairOf(o) = Fix(o, {"published"}, "absent")
  BY <1>8, PartObjects, RepairIs DEF TypeAuthorities, Authorities
<1>9. ASSUME NEW a \in TypeAuthorities, o = Reserved(a)
      PROVE  /\ o[1] = "reservation" /\ o \in Reservations
             /\ RepairOf(o) = Fix(o, {"absent", "reserved", "consumed"}, "abandoned")
  BY <1>9, PartObjects, RepairIs DEF Reservations, Release, TypeAuthorities, Authorities
<1>10. ASSUME NEW k \in Database \ Kept, o = DbEntry(k)
       PROVE  /\ o[1] = "database" /\ o[2] = k /\ o \in DatabaseParts
              /\ RepairOf(o) = Fix(o, {"after"}, IF k \in Created THEN "before" ELSE "restored")
  BY <1>10, PartObjects, IssuedIs, RepairIs DEF DatabaseParts, Restore
<1>11. ASSUME o \in {Pointer, State, Stage, BackupSession}
       PROVE  /\ o[1] \in {"pointer", "state", "stage", "session"}
              /\ RepairOf(o).to = "absent"
  <2>1. /\ RepairOf(Pointer) = Fix(Pointer, {"published"}, "absent")
        /\ RepairOf(State) = Fix(State, {"staged", "published"}, "absent")
        /\ RepairOf(Stage) = Fix(Stage, {"staged", "partial"}, "absent")
        /\ RepairOf(BackupSession) = Fix(BackupSession, {"published"}, "absent")
    BY RepairIs
  <2>2. \A p, from, to : Fix(p, from, to).to = to
    BY DEF Fix
  <2>3. \A p \in {Pointer, State, Stage, BackupSession} : RepairOf(p).to = "absent"
    BY <2>1, <2>2
  <2>4. o[1] \in {"pointer", "state", "stage", "session"}
    BY <1>11, PartObjects
  <2> QED BY <1>11, <2>3, <2>4
<1>12. o[1] \notin {"transaction", "root copy"}
  BY <1>1, <1>8, <1>9, <1>10, <1>11
<1>13. o # Directory /\ o # RootCopy
  BY <1>12, PartObjects
<1>14. /\ RepairOf(o).to \in {"before", "restored", "abandoned", "absent"}
       /\ RepairOf(o).to = "abandoned" <=> o \in Reservations
       /\ o \in DatabaseParts <=> RepairOf(o).to \in {"before", "restored"}
       /\ o \notin DatabaseParts \cup Reservations => RepairOf(o).to = "absent"
  BY <1>1, <1>3, <1>4, <1>8, <1>9, <1>10, <1>11 DEF Fix
<1>15. \A k \in Created : o = DbEntry(k) => RepairOf(o).to = "before"
  <2> SUFFICES ASSUME NEW k \in Created, o = DbEntry(k) PROVE RepairOf(o).to = "before"
    OBVIOUS
  <2>1. o[1] = "database" /\ o[2] = k
    BY <1>7
  <2> QED BY <2>1 DEF RepairOf, Fix
<1>16. o \in EndingParts => ~IsTree(o)
  BY <1>6 DEF IsTree
<1>17. o \in StageParts => RepairOf(o).from = {"published"}
  <2> SUFFICES ASSUME o \in StageParts PROVE RepairOf(o).from = {"published"}
    OBVIOUS
  <2>1. o[1] = "candidate"
    BY <1>5, <1>12
  <2>2. \E a \in TypeAuthorities : o = Candidate(a)
    BY <1>1, <1>9, <1>10, <1>11, <2>1
  <2>3. RepairOf(o) = Fix(o, {"published"}, "absent")
    BY <1>8, <2>2
  <2> QED BY <2>3 DEF Fix
<1> QED BY <1>2, <1>13, <1>14, <1>15, <1>16, <1>17

(* A rollback takes a part back, the pointer before all the others.            *)
LEMMA RollbackTakes ==
    ASSUME Typed, PreparationInv, RepairChanges, process.command = "rollback"
    PROVE  PreparationInv'
<1> DEFINE o == RepairEntry.object
           to == RepairEntry.to
<1>1. RepairsOn /\ process.mark \in {"none", "pending", "made"}
  BY DEF RepairChanges
<1>2. /\ type \in Types /\ process.at \in 1 .. Len(Repairs) /\ Len(Repairs) \in Nat
      /\ InPreparation /\ RepairEntry = Repairs[process.at]
      /\ \A i \in 1 .. Len(Repairs) : i < process.at => Repaired(Repairs[i])
  BY <1>1, RepairerWorks
<1>3. /\ RepairEntry = RepairOf(o) /\ o \in RolledBack \cup EndingParts
      /\ ~Evidence.staged => o \in EndingParts
      /\ ~Evidence.staged /\ ~Evidence.filed => o = BackupSession
      /\ Evidence.staged => /\ Repairs[1] = RepairOf(Pointer)
                            /\ o \in EndingParts =>
                                 \E j \in 1 .. Len(Repairs) :
                                     j < process.at /\ Repairs[j] = RepairOf(State)
  BY <1>2, RollbackEntries
<1>4. /\ o \in Involved /\ o # Directory /\ o # RootCopy
      /\ to \in {"before", "restored", "abandoned", "absent"}
      /\ to = "abandoned" <=> o \in Reservations
      /\ o \in DatabaseParts <=> to \in {"before", "restored"}
      /\ \A k \in Created : o = DbEntry(k) => to = "before"
      /\ o \notin DatabaseParts \cup Reservations => to = "absent"
      /\ o \in EndingParts => ~IsTree(o)
      /\ o \in StageParts => RepairEntry.from = {"published"}
  BY <1>2, <1>3, RollbackStates
<1>5. /\ o \in Parts
      /\ to = "absent" /\ IsTree(o) =>
              part'[o] = IF part[o] = "partial" THEN "absent" ELSE "partial"
      /\ ~(to = "absent" /\ IsTree(o)) => part'[o] = to
      /\ \A p \in Parts : p # o =>
              \/ part'[p] = part[p]
              \/ /\ o = Stage /\ p \in StageParts
                 /\ part[p] \in {"staged", "partial"} /\ part'[p] \in {"absent", "partial"}
      /\ FixDue \/ (part[o] = "partial" /\ to = "absent")
      /\ Evidence' = Evidence /\ InPreparation' /\ type' = type /\ Repairs' = Repairs
      /\ RepairsKept => PreparationInv'
  BY <1>4, RepairerMakes
<1>6. /\ \A p \in Parts : part[p] \in {"staged", "partial"} => part[Directory] \in {"staged", "partial"}
      /\ \A p \in Hidden : part[p] # "published"
      /\ \A k \in Created : part[DbEntry(k)] # "restored"
      /\ \A p \in Parts \ Involved : part[p] = Unprepared[p]
      /\ AfterStaging /\ BeforeStaging
  BY DEF PreparationInv, Sorted
<1> HIDE DEF o, to
<1>7. \A p \in StageParts : p[1] \in {"candidate", "root copy"}
  BY <1>2, InvolvedParts
<1>8. \A p \in Parts : p \notin StageParts /\ p # o => part'[p] = part[p]
  BY <1>5
<1>9. part'[o] \in {"before", "restored", "abandoned", "absent", "partial"}
  BY <1>4, <1>5
<1>10. part'[Directory] = part[Directory] /\ Directory \in Parts /\ Directory \notin StageParts
  BY <1>4, <1>7, <1>8, PartObjects
<1>11. Evidence.staged => part[Directory] = "staged"
  BY <1>2, <1>6 DEF AfterStaging
<1>12. Sorted'
  <2>1. ASSUME NEW p \in Parts, part'[p] \in {"staged", "partial"}
        PROVE  part'[Directory] \in {"staged", "partial"}
    <3>1. CASE p # o
      BY <1>5, <1>6, <1>10, <2>1, <3>1
    <3>2. CASE p = o
      <4>1. IsTree(o)
        BY <1>4, <1>5, <2>1, <3>2
      <4>2. Evidence.staged
        BY <1>3, <1>4, <4>1
      <4> QED BY <1>10, <1>11, <4>2
    <3> QED BY <3>1, <3>2
  <2>2. \A p \in Hidden : part'[p] # "published"
    <3>1. Hidden \subseteq Parts
      BY <1>2, InvolvedParts
    <3> QED BY <1>5, <1>6, <1>9, <3>1
  <2>3. \A k \in Created : part'[DbEntry(k)] # "restored"
    <3> SUFFICES ASSUME NEW k \in Created PROVE part'[DbEntry(k)] # "restored"
      OBVIOUS
    <3>1. DbEntry(k) \in Parts /\ DbEntry(k)[1] = "database"
      BY <1>2, InvolvedParts, PartObjects
    <3>2. CASE o = DbEntry(k)
      BY <1>4, <1>5, <3>2
    <3>3. CASE o # DbEntry(k)
      BY <1>6, <1>7, <1>8, <3>1, <3>3
    <3> QED BY <3>2, <3>3
  <2>4. Involved' = Involved
    BY <1>5 DEF Involved, CandidateParts, Candidates, Reservations, DatabaseParts, CopyParts,
                TypeAuthorities, Database
  <2>5. \A p \in Parts \ Involved : part'[p] = Unprepared[p]
    <3>1. StageParts \subseteq Involved
      BY <1>2, InvolvedParts
    <3> QED BY <1>4, <1>6, <1>8, <3>1
  <2> QED BY <2>1, <2>2, <2>3, <2>4, <2>5 DEF Sorted
<1>13. \A p \in EndingParts : p[1] \in {"reservation", "session"}
  BY AuthorityParts, PartObjects DEF EndingParts
<1>14. BeforeStaging'
  <2> SUFFICES ASSUME ~Evidence.staged PROVE BeforeStaging'
    BY <1>5 DEF BeforeStaging
  <2>1. o[1] \in {"reservation", "session"} /\ o # Stage
    BY <1>3, <1>13, PartObjects
  <2>2. \A p \in Parts : p # o => part'[p] = part[p]
    BY <1>5, <2>1
  <2>3. /\ part[Pointer] = "absent" /\ part[State] # "published"
        /\ \A a \in Authorities : part[Candidate(a)] # "published"
        /\ \A k \in Keys : part[DbEntry(k)] = "before"
        /\ ~Evidence.filed => \A a \in Authorities : part[Reserved(a)] = "absent"
    BY <1>2, <1>6 DEF BeforeStaging
  <2>4. part'[Pointer] = "absent" /\ part'[State] # "published"
    BY <2>1, <2>2, <2>3, PartObjects
  <2>5. \A a \in Authorities : part'[Candidate(a)] # "published"
    BY <2>1, <2>2, <2>3, PartObjects
  <2>6. \A k \in Keys : part'[DbEntry(k)] = "before"
    <3> SUFFICES ASSUME NEW k \in Keys PROVE part'[DbEntry(k)] = "before"
      OBVIOUS
    <3>1. DbEntry(k) \in Parts /\ DbEntry(k)[1] = "database" /\ part[DbEntry(k)] = "before"
      BY <2>3, PartObjects
    <3> QED BY <2>1, <2>2, <3>1
  <2>7. ~Evidence.filed => \A a \in Authorities : part'[Reserved(a)] = "absent"
    <3> SUFFICES ASSUME ~Evidence.filed, NEW a \in Authorities PROVE part'[Reserved(a)] = "absent"
      OBVIOUS
    <3>1. Reserved(a) \in Parts /\ Reserved(a)[1] = "reservation" /\ part[Reserved(a)] = "absent"
      BY <2>3, PartObjects
    <3>2. o[1] = "session"
      BY <1>3, PartObjects
    <3> QED BY <2>2, <3>1, <3>2
  <2> QED BY <1>5, <2>4, <2>5, <2>6, <2>7 DEF BeforeStaging
<1>15. AfterStaging'
  <2> SUFFICES ASSUME Evidence.staged PROVE AfterStaging'
    BY <1>5 DEF AfterStaging
  <2>1. part'[Directory] = "staged"
    BY <1>10, <1>11
  <2>2. TypeAuthorities' = TypeAuthorities
    BY <1>5 DEF TypeAuthorities
  <2>3. State \in Parts /\ State \notin StageParts
    BY <1>7, PartObjects
  <2>4. part[State] \notin {"staged", "published"} => part'[State] \notin {"staged", "published"}
    BY <1>8, <1>9, <2>3
  <2>5. ASSUME NEW a \in TypeAuthorities, part'[Reserved(a)] = "abandoned"
        PROVE  part'[State] \notin {"staged", "published"}
    <3>1. Reserved(a) \in Parts /\ Reserved(a) \notin StageParts /\ Reserved(a) \in EndingParts
      BY <1>7, PartObjects DEF EndingParts, Reservations, TypeAuthorities, Authorities
    <3>2. CASE o # Reserved(a)
      <4>1. part[Reserved(a)] = "abandoned"
        BY <1>8, <2>5, <3>1, <3>2
      <4> QED BY <1>2, <1>6, <2>4, <4>1 DEF AfterStaging
    <3>3. CASE o = Reserved(a)
      <4>1. PICK j \in 1 .. Len(Repairs) : j < process.at /\ Repairs[j] = RepairOf(State)
        BY <1>3, <3>1, <3>3
      <4>2. Repaired(RepairOf(State))
        BY <1>2, <4>1
      <4>3. part[State] \notin {"staged", "published"}
        BY <4>2, RepairIs DEF Repaired, Fix
      <4> QED BY <2>4, <4>3
    <3> QED BY <3>2, <3>3
  <2> QED BY <2>1, <2>2, <2>5 DEF AfterStaging
<1>16. part'[Pointer] # "published"
  <2>1. Pointer \in Parts /\ Pointer \notin StageParts
    BY <1>7, PartObjects
  <2>2. CASE o = Pointer
    BY <1>9, <2>2
  <2>3. CASE o # Pointer /\ ~Evidence.staged
    BY <1>2, <1>6, <1>8, <2>1, <2>3 DEF BeforeStaging
  <2>4. CASE o # Pointer /\ Evidence.staged
    <3>1. RepairOf(Pointer).object = Pointer /\ RepairOf(Pointer).from = {"published"}
      BY RepairIs DEF Fix
    <3>2. process.at # 1
      BY <1>2, <1>3, <2>4, <3>1 DEF o
    <3>3. 1 \in 1 .. Len(Repairs) /\ 1 < process.at
      BY <1>2, <3>2
    <3>4. Repaired(RepairOf(Pointer))
      BY <1>2, <1>3, <2>4, <3>3
    <3>5. part[Pointer] # "published"
      BY <3>1, <3>4 DEF Repaired
    <3> QED BY <1>8, <2>1, <2>4, <3>5
  <2> QED BY <2>2, <2>3, <2>4
<1>17. \A i \in 1 .. Len(Repairs) : i < process.at => Repaired(Repairs[i])'
  <2> SUFFICES ASSUME NEW i \in 1 .. Len(Repairs), i < process.at PROVE Repaired(Repairs[i])'
    OBVIOUS
  <2> DEFINE p == Repairs[i].object
  <2>1. /\ Repairs[i] = RepairOf(p) /\ p \in RolledBack \cup EndingParts
    BY <1>2, RollbackEntries
  <2>2. part[p] \notin Repairs[i].from
    BY <1>2 DEF Repaired
  <2>3. p \in Parts /\ (p \in StageParts => Repairs[i].from = {"published"})
    <3>1. p \in Involved /\ (p \in StageParts => RepairOf(p).from = {"published"})
      BY <1>2, <2>1, RollbackStates
    <3> HIDE DEF p
    <3> QED BY <1>2, <2>1, <3>1, InvolvedParts
  <2> HIDE DEF p
  <2>4. ASSUME p # o PROVE part'[p] \notin Repairs[i].from
    BY <1>5, <2>2, <2>3, <2>4
  <2>5. ASSUME p = o PROVE part'[p] \notin Repairs[i].from
    <3>1. Repairs[i] = RepairEntry
      BY <1>3, <2>1, <2>5
    <3>2. ~FixDue
      BY <2>2, <2>5, <3>1 DEF FixDue, o
    <3>3. part[o] = "partial" /\ to = "absent"
      BY <1>5, <3>2
    <3>4. part'[o] = "absent"
      BY <1>5, <3>3
    <3>5. to \notin RepairEntry.from
      BY <1>2, RepairsEnd DEF Repairs, to, Actions
    <3> QED BY <2>5, <3>1, <3>3, <3>4, <3>5
  <2>6. part'[p] \notin Repairs[i].from
    BY <2>4, <2>5
  <2> QED BY <1>5, <2>6 DEF Repaired, p
<1>18. RepairsKept
  BY <1>12, <1>14, <1>15, <1>16, <1>17 DEF RepairsKept, PointerLast
<1> QED BY <1>5, <1>18

(* Where each entry of a resume stands, and what it does to its part.          *)
Resumes(e, i) ==
    /\ e.object \in Involved /\ e.object \in Parts
    /\ e.object[1] \in {"pointer", "session", "reservation", "candidate", "state", "database",
                        "root copy"}
    /\ e.object[1] = "pointer" <=> i = Len(Repairs)
    /\ e.object[1] = "pointer" =>
          e.object = Pointer /\ e.from = {"absent"} /\ e.to = "published"
    /\ e.object[1] = "session" =>
          e.object = BackupSession /\ e.from = {"absent"} /\ e.to = "published"
    /\ e.object[1] = "reservation" =>
          \/ i <= Len(Renewal) /\ e.from = {"absent"} /\ e.to = "reserved"
          \/ i > Len(Renewal) /\ e.from = {"reserved"} /\ e.to = "consumed"
    /\ e.object[1] = "candidate" =>
          e.object \in Candidates /\ e.from = {"staged"} /\ e.to = "published"
    /\ e.object[1] = "state" => e.object = State /\ e.from = {"staged"} /\ e.to = "published"
    /\ e.object[1] = "database" =>
          e.object \in DatabaseParts /\ e.from = {"before"} /\ e.to = "after"
    /\ e.object[1] = "root copy" =>
          e.object = RootCopy /\ e.from = {"staged", "partial"} /\ e.to = "absent"

(* The entries of a resume are of these kinds and no other.                    *)
LEMMA ResumeEntries ==
    ASSUME type \in Types, process.command = "resume", NEW i \in 1 .. Len(Repairs)
    PROVE  /\ Len(Repairs) \in Nat /\ Len(Renewal) \in Nat /\ Len(Repairs) >= 1
           /\ Resumes(Repairs[i], i)
           /\ \A e \in Renewals \cup CompletionsOf(CandidateParts) :
                 \E j \in 1 .. Len(Repairs) : j < Len(Repairs) /\ Repairs[j] = e
<1>1. Repairs = Resumption
  BY DEF Repairs, RepairPlan
<1>2. /\ Len(Repairs) \in Nat /\ Len(Repairs) >= 1 /\ Len(Renewal) \in Nat
      /\ Repairs[Len(Repairs)] = Fix(Pointer, {"absent"}, "published")
      /\ IF i <= Len(Renewal) THEN Repairs[i] \in Renewals
         ELSE i # Len(Repairs) => Repairs[i] \in CompletionsOf(CandidateParts)
      /\ \A e \in Renewals \cup CompletionsOf(CandidateParts) :
              \E j \in 1 .. Len(Repairs) : j < Len(Repairs) /\ Repairs[j] = e
  BY <1>1, ResumptionIs
<1> DEFINE e == Repairs[i]
<1>3. \A o, from, to : /\ Fix(o, from, to).object = o /\ Fix(o, from, to).from = from
                       /\ Fix(o, from, to).to = to
  BY DEF Fix
<1>4. Involved \subseteq Parts
  BY InvolvedParts
<1> HIDE DEF e
<1>5. CASE i = Len(Repairs)
  <2>1. e.object = Pointer /\ e.from = {"absent"} /\ e.to = "published"
    BY <1>2, <1>3, <1>5 DEF e
  <2>2. Pointer \in Involved /\ Pointer[1] = "pointer"
    BY PartObjects DEF Involved
  <2>3. Resumes(e, i)
    BY <1>4, <1>5, <2>1, <2>2 DEF Resumes
  <2> QED BY <1>2, <2>3 DEF e
<1>6. CASE i # Len(Repairs) /\ i <= Len(Renewal)
  <2>1. e \in Renewals
    BY <1>2, <1>6 DEF e
  <2>2. CASE e = Fix(BackupSession, {"absent"}, "published")
    <3>1. e.object = BackupSession /\ e.from = {"absent"} /\ e.to = "published"
      BY <1>3, <2>2
    <3>2. BackupSession \in Involved /\ BackupSession[1] = "session"
      BY PartObjects DEF Involved
    <3>3. Resumes(e, i)
      BY <1>4, <1>6, <3>1, <3>2 DEF Resumes
    <3> QED BY <1>2, <3>3 DEF e
  <2>3. ASSUME NEW a \in TypeAuthorities, e = Renew(a)
        PROVE  Resumes(e, i)
    <3>1. e.object = Reserved(a) /\ e.from = {"absent"} /\ e.to = "reserved"
      BY <1>3, <2>3 DEF Renew
    <3>2. Reserved(a) \in Involved /\ Reserved(a)[1] = "reservation"
      BY PartObjects DEF Involved, CandidateParts, Reservations, TypeAuthorities, Authorities
    <3> QED BY <1>4, <1>6, <3>1, <3>2 DEF Resumes
  <2>4. Resumes(e, i)
    BY <2>1, <2>2, <2>3 DEF Renewals, e
  <2> QED BY <1>2, <2>4 DEF e
<1>7. CASE i # Len(Repairs) /\ ~(i <= Len(Renewal))
  <2>1. PICK p \in CandidateParts : e = CompletionOf(p)
    BY <1>2, <1>7 DEF e, CompletionsOf
  <2>2. /\ p \in Involved /\ p[1] \in {"candidate", "reservation", "database", "root copy", "state"}
        /\ p[1] = "root copy" => p = RootCopy
    BY InvolvedParts DEF Involved
  <2>3. i > Len(Renewal)
    BY <1>2, <1>7
  <2>4. CASE p[1] = "candidate"
    <3>1. p \in Candidates
      BY <2>2, <2>4, InvolvedParts
    <3>2. e.object = p /\ e.from = {"staged"} /\ e.to = "published"
      BY <1>3, <2>1, <2>4 DEF CompletionOf, Move
    <3>3. Resumes(e, i)
      BY <1>4, <1>7, <2>2, <2>4, <3>1, <3>2 DEF Resumes
    <3> QED BY <1>2, <3>3 DEF e
  <2>5. CASE p[1] = "reservation"
    <3>1. e.object = p /\ e.from = {"reserved"} /\ e.to = "consumed"
      BY <1>3, <2>1, <2>5 DEF CompletionOf
    <3>2. Resumes(e, i)
      BY <1>4, <1>7, <2>2, <2>3, <2>5, <3>1 DEF Resumes
    <3> QED BY <1>2, <3>2 DEF e
  <2>6. CASE p[1] = "database"
    <3>1. e.object = p /\ e.from = {"before"} /\ e.to = "after"
      BY <1>3, <2>1, <2>6 DEF CompletionOf
    <3>2. p \in DatabaseParts
      BY <2>6, PartObjects
        DEF CandidateParts, Candidates, Reservations, CopyParts, TypeAuthorities,
                               Authorities
    <3>3. Resumes(e, i)
      BY <1>4, <1>7, <2>2, <2>6, <3>1, <3>2 DEF Resumes
    <3> QED BY <1>2, <3>3 DEF e
  <2>7. CASE p[1] = "root copy"
    <3>1. e.object = p /\ e.from = {"staged", "partial"} /\ e.to = "absent"
      <4>1. CompletionOf(p) = Fix(p, {"staged", "partial"}, "absent")
      BY <2>7 DEF CompletionOf
    <4> QED BY <1>3, <2>1, <4>1
    <3>2. Resumes(e, i)
      BY <1>4, <1>7, <2>2, <2>7, <3>1 DEF Resumes
    <3> QED BY <1>2, <3>2 DEF e
  <2>8. CASE p[1] = "state"
    <3>1. e.object = p /\ e.from = {"staged"} /\ e.to = "published"
      BY <1>3, <2>1, <2>8 DEF CompletionOf, Move
    <3>2. p = State
      <4>1. \A k \in Database \ Kept : DbEntry(k)[1] = "database"
        BY PartObjects, IssuedIs
      <4>2. p \notin DatabaseParts
        BY <2>8, <4>1 DEF DatabaseParts
      <4> QED BY <2>8, <4>2, PartObjects
          DEF CandidateParts, Candidates, Reservations, CopyParts,
                                        TypeAuthorities, Authorities
    <3>3. Resumes(e, i)
      BY <1>4, <1>7, <2>2, <2>8, <3>1, <3>2 DEF Resumes
    <3> QED BY <1>2, <3>3 DEF e
  <2> QED BY <2>2, <2>4, <2>5, <2>6, <2>7, <2>8
<1> QED BY <1>5, <1>6, <1>7

(* When a resume has passed all but the pointer, the candidate is published.    *)
LEMMA ResumeEnds ==
    ASSUME Typed, PreparationInv, type \in Types, process.command = "resume", Continued,
           \A a \in TypeAuthorities : part[Reserved(a)] # "abandoned",
           \A i \in 1 .. Len(Repairs) : i < Len(Repairs) => Repaired(Repairs[i])
    PROVE  /\ \A a \in TypeAuthorities :
                 part[Candidate(a)] = "published" /\ part[Reserved(a)] = "consumed"
           /\ part[State] = "published" /\ part[RootCopy] = "absent"
           /\ \A k \in Database \ Kept : part[DbEntry(k)] \in {"after", "restored"}
<1>0. \A o \in Parts : part[o] \in PartStates(o)
  BY DEF Typed, PreparationTyped
<1>1. \A e \in Renewals \cup CompletionsOf(CandidateParts) : part[e.object] \notin e.from
  <2>1. 1 \in 1 .. Len(Repairs)
    <3>1. Repairs = Resumption
      BY DEF Repairs, RepairPlan
    <3> QED BY <3>1, ResumptionIs
  <2> QED BY <2>1, ResumeEntries DEF Repaired
<1>2. \A o, from, to : /\ Fix(o, from, to).object = o /\ Fix(o, from, to).from = from
  BY DEF Fix
<1>3. \A o \in CandidateParts : part[CompletionOf(o).object] \notin CompletionOf(o).from
  BY <1>1 DEF CompletionsOf
<1>4. ASSUME NEW a \in TypeAuthorities
      PROVE  part[Candidate(a)] = "published" /\ part[Reserved(a)] = "consumed"
  <2>1. a \in Authorities
    BY DEF TypeAuthorities, Authorities
  <2>2. Candidate(a) \in CandidateParts /\ Reserved(a) \in CandidateParts /\ Candidate(a) \in Candidates
    BY DEF CandidateParts, Candidates, Reservations
  <2>3. /\ CompletionOf(Reserved(a)) = Fix(Reserved(a), {"reserved"}, "consumed")
        /\ CompletionOf(Candidate(a)) = Fix(Candidate(a), {"staged"}, "published")
    BY <2>1, CompletionIs DEF Spend, Move
  <2>4. part[Reserved(a)] # "reserved" /\ part[Candidate(a)] # "staged"
    BY <1>2, <1>3, <2>2, <2>3
  <2>5. Renew(a) \in Renewals /\ Renew(a) = Fix(Reserved(a), {"absent"}, "reserved")
    BY DEF Renewals, Renew
  <2>6. part[Reserved(a)] # "absent"
    BY <1>1, <1>2, <2>5
  <2>7. part[Reserved(a)] \in {"absent", "reserved", "consumed", "abandoned"}
    <3>1. Reserved(a) \in Parts
      BY <2>1, PartObjects
    <3>2. PartStates(Reserved(a)) = {"absent", "reserved", "consumed", "abandoned"}
      BY <2>1, StatesOfParts
    <3> QED BY <1>0, <3>1, <3>2
  <2> QED BY <2>2, <2>4, <2>6, <2>7 DEF Continued
<1>5. part[State] = "published"
  <2>1. State \in CandidateParts /\ CompletionOf(State) = Fix(State, {"staged"}, "published")
    BY CompletionIs DEF CandidateParts, Move
  <2>2. part[State] # "staged"
    BY <1>2, <1>3, <2>1
  <2> QED BY <2>2 DEF Continued
<1>6. part[RootCopy] = "absent"
  <2>0. RootCopy \in Parts /\ part[RootCopy] # "published" /\ RootCopy[1] = "root copy"
    BY PartObjects DEF PreparationInv, Sorted, Hidden
  <2>1. CASE RootCopy \in CandidateParts
    <3>1. CompletionOf(RootCopy) = Fix(RootCopy, {"staged", "partial"}, "absent")
      BY CompletionIs
    <3>2. part[RootCopy] \notin {"staged", "partial"}
      BY <1>2, <1>3, <2>1, <3>1
    <3>3. part[RootCopy] \in {"absent", "staged", "published", "partial"}
      BY <1>0, <2>0, StatesOfParts
    <3> QED BY <2>0, <3>2, <3>3
  <2>2. CASE RootCopy \notin CandidateParts
    <3>1. RootCopy \notin Involved
      BY <2>2, PartObjects DEF Involved
    <3> QED BY <2>0, <3>1 DEF PreparationInv, Sorted, Unprepared
  <2> QED BY <2>1, <2>2
<1>8. \A k \in Database \ Kept : part[DbEntry(k)] \in {"after", "restored"}
  <2> SUFFICES ASSUME NEW k \in Database \ Kept PROVE part[DbEntry(k)] \in {"after", "restored"}
    OBVIOUS
  <2>1. DbEntry(k) \in CandidateParts /\ k \in Keys
    BY IssuedIs DEF CandidateParts, DatabaseParts
  <2>2. CompletionOf(DbEntry(k)) = Fix(DbEntry(k), {"before"}, "after")
    BY <2>1, CompletionIs
  <2>3. part[DbEntry(k)] # "before"
    BY <1>2, <1>3, <2>1, <2>2
  <2>4. part[DbEntry(k)] \in {"before", "after", "restored"}
    <3>1. DbEntry(k) \in Parts
      BY <2>1, PartObjects
    <3>2. PartStates(DbEntry(k)) = {"before", "after", "restored"}
      BY <2>1, StatesOfParts
    <3> QED BY <1>0, <3>1, <3>2
  <2> QED BY <2>3, <2>4
<1> QED BY <1>4, <1>5, <1>6, <1>8

(* A resume carries a part forward, the pointer after all the others.          *)
LEMMA ResumeMoves ==
    ASSUME Typed, PreparationInv, RepairChanges, process.command = "resume"
    PROVE  PreparationInv'
<1> DEFINE o == RepairEntry.object
           to == RepairEntry.to
           from == RepairEntry.from
<1>1. RepairsOn /\ process.mark \in {"none", "pending", "made"}
  BY DEF RepairChanges
<1>2. /\ type \in Types /\ process.at \in 1 .. Len(Repairs) /\ Len(Repairs) \in Nat
      /\ InPreparation /\ RepairEntry = Repairs[process.at]
      /\ \A i \in 1 .. Len(Repairs) : i < process.at => Repaired(Repairs[i])
      /\ Continued
  BY <1>1, RepairerWorks
<1>3. Resumes(RepairEntry, process.at) /\ Len(Renewal) \in Nat /\ Len(Repairs) >= 1
  BY <1>2, ResumeEntries
<1>4. /\ o \in Involved /\ o \in Parts /\ o # Directory /\ o # Stage
      /\ to \notin {"staged", "partial", "abandoned", "restored"}
      /\ to = "absent" => o = RootCopy /\ from = {"staged", "partial"}
      /\ to = "published" => o[1] \notin {"root copy"}
  BY <1>3, PartObjects DEF Resumes
<1>5. /\ o \in Parts
      /\ to = "absent" /\ IsTree(o) =>
              part'[o] = IF part[o] = "partial" THEN "absent" ELSE "partial"
      /\ ~(to = "absent" /\ IsTree(o)) => part'[o] = to
      /\ \A p \in Parts : p # o =>
              \/ part'[p] = part[p]
              \/ /\ o = Stage /\ p \in StageParts
                 /\ part[p] \in {"staged", "partial"} /\ part'[p] \in {"absent", "partial"}
      /\ FixDue \/ (part[o] = "partial" /\ to = "absent")
      /\ Evidence' = Evidence /\ InPreparation' /\ type' = type /\ Repairs' = Repairs
      /\ RepairsKept => PreparationInv'
  BY <1>4, RepairerMakes
<1>6. /\ part[Directory] = "staged"
      /\ \A a \in TypeAuthorities : part[Reserved(a)] # "abandoned"
      /\ part[State] \in {"staged", "published"}
      /\ \A p \in Candidates : part[p] \in {"staged", "published"}
      /\ Evidence.staged
  BY <1>2 DEF PreparationInv, AfterStaging, Continued
<1>7. part[o] \in from
  BY <1>4, <1>5 DEF FixDue
<1> HIDE DEF o, to, from
<1>8. /\ \A p \in Parts : p # o => part'[p] = part[p]
      /\ part'[o] = to \/ (o = RootCopy /\ part'[o] \in {"absent", "partial"})
  BY <1>4, <1>5
<1>9. part'[Directory] = "staged"
  BY <1>4, <1>6, <1>8, PartObjects
<1>10. TypeAuthorities' = TypeAuthorities /\ Candidates' = Candidates /\ Involved' = Involved
       /\ Database' = Database
  BY <1>5 DEF Involved, CandidateParts, Candidates, Reservations, DatabaseParts, CopyParts,
              TypeAuthorities, Database
<1>11. Sorted'
  <2>1. \A p \in Hidden : part'[p] # "published"
    <3>1. \A p \in Hidden : part[p] # "published" /\ p \in Parts
      BY <1>2, InvolvedParts DEF PreparationInv, Sorted
    <3>2. o \in Hidden => o = RootCopy
      BY <1>4 DEF Hidden
    <3>3. o = RootCopy => part'[o] # "published"
      BY <1>4, <1>8, PartObjects
    <3> QED BY <1>8, <3>1, <3>2, <3>3
  <2>2. \A k \in Created : part'[DbEntry(k)] # "restored"
    <3> SUFFICES ASSUME NEW k \in Created PROVE part'[DbEntry(k)] # "restored"
      OBVIOUS
    <3>1. part[DbEntry(k)] # "restored" /\ DbEntry(k) \in Parts
      BY <1>2, InvolvedParts, PartObjects DEF PreparationInv, Sorted
    <3> QED BY <1>4, <1>8, <3>1
  <2>3. \A p \in Parts \ Involved : part'[p] = Unprepared[p]
    BY <1>4, <1>8 DEF PreparationInv, Sorted
  <2> QED BY <1>9, <1>10, <2>1, <2>2, <2>3 DEF Sorted
<1>12. BeforeStaging'
  BY <1>5, <1>6 DEF BeforeStaging
<1>13. \A a \in TypeAuthorities : part'[Reserved(a)] # "abandoned"
  <2> SUFFICES ASSUME NEW a \in TypeAuthorities PROVE part'[Reserved(a)] # "abandoned"
    OBVIOUS
  <2>1. Reserved(a) \in Parts /\ part[Reserved(a)] # "abandoned"
    BY <1>6, PartObjects DEF TypeAuthorities, Authorities
  <2> QED BY <1>4, <1>8, <2>1
<1>14. AfterStaging'
  BY <1>9, <1>10, <1>13 DEF AfterStaging
<1>15. Continued'
  <2>1. ASSUME NEW p \in Candidates \cup {State}
        PROVE  part'[p] \in {"staged", "published"}
    <3>1. p \in Parts /\ p[1] \in {"candidate", "state"} /\ part[p] \in {"staged", "published"}
      <4>1. \A q \in Candidates : q \in Parts /\ q[1] = "candidate"
        BY AuthorityParts
      <4>2. State \in Parts /\ State[1] = "state"
        BY PartObjects
      <4> QED BY <1>6, <4>1, <4>2
    <3>2. CASE p = o
      <4>1. to = "published" /\ o # RootCopy
        BY <1>3, <3>1, <3>2, PartObjects DEF Resumes, o, to
      <4> QED BY <1>8, <3>2, <4>1
    <3> QED BY <1>8, <3>1, <3>2
  <2> QED BY <1>5, <1>6, <1>10, <2>1 DEF Continued
<1>16. \A i \in 1 .. Len(Repairs) : i < process.at => Repaired(Repairs[i])'
  <2> SUFFICES ASSUME NEW i \in 1 .. Len(Repairs), i < process.at PROVE Repaired(Repairs[i])'
    OBVIOUS
  <2> DEFINE p == Repairs[i].object
  <2>1. Resumes(Repairs[i], i) /\ part[p] \notin Repairs[i].from /\ p \in Parts
    BY <1>2, ResumeEntries DEF Repaired, Resumes
  <2>2. ASSUME p = o PROVE part'[p] \notin Repairs[i].from
    <3>1. p[1] # "reservation" => Repairs[i].from = from
      BY <1>3, <2>1, <2>2 DEF Resumes, o, from
    <3>2. p[1] = "reservation"
      BY <1>7, <2>1, <2>2, <3>1
    <3>3. /\ \/ i <= Len(Renewal) /\ Repairs[i].from = {"absent"}
             \/ i > Len(Renewal) /\ Repairs[i].from = {"reserved"}
          /\ \/ process.at <= Len(Renewal) /\ from = {"absent"} /\ to = "reserved"
             \/ process.at > Len(Renewal) /\ from = {"reserved"} /\ to = "consumed"
      BY <1>3, <2>1, <2>2, <3>2 DEF Resumes, o, from, to
    <3>4. process.at <= Len(Renewal) => ~(i > Len(Renewal))
      BY <1>2, <1>3
    <3>5. to \notin Repairs[i].from
      BY <3>3, <3>4
    <3>6. o # RootCopy
      BY <2>2, <3>2, PartObjects
    <3> QED BY <1>8, <2>2, <3>5, <3>6
  <2>3. part'[p] \notin Repairs[i].from
    BY <1>8, <2>1, <2>2
  <2> QED BY <1>5, <2>3 DEF Repaired
<1>17. PointerLast'
  <2> SUFFICES ASSUME part'[Pointer] = "published"
               PROVE  (CandidatePublished /\ (DatabasePublished \/ DatabaseStale))'
    BY DEF PointerLast
  <2>0. Pointer \in Parts /\ State \in Parts /\ RootCopy \in Parts
        /\ Pointer \notin {State, RootCopy}
        /\ \A a \in TypeAuthorities : Candidate(a) \in Parts /\ Reserved(a) \in Parts
    BY PartObjects DEF TypeAuthorities, Authorities
  <2>1. CASE o = Pointer
    <3>1. process.at = Len(Repairs)
      BY <1>3, <2>1, PartObjects DEF Resumes, o
    <3>2. \A i \in 1 .. Len(Repairs) : i < Len(Repairs) => Repaired(Repairs[i])
      BY <1>2, <3>1
    <3>3. /\ \A a \in TypeAuthorities :
                 part[Candidate(a)] = "published" /\ part[Reserved(a)] = "consumed"
          /\ part[State] = "published" /\ part[RootCopy] = "absent"
          /\ \A k \in Database \ Kept : part[DbEntry(k)] \in {"after", "restored"}
      BY <1>2, <1>6, <3>2, ResumeEnds
    <3>4. \A a \in TypeAuthorities : part'[Candidate(a)] = "published" /\ part'[Reserved(a)] = "consumed"
      <4> SUFFICES ASSUME NEW a \in TypeAuthorities
                   PROVE  part'[Candidate(a)] = "published" /\ part'[Reserved(a)] = "consumed"
        OBVIOUS
      <4>1. Candidate(a) # Pointer /\ Reserved(a) # Pointer
        BY PartObjects DEF TypeAuthorities, Authorities
      <4> QED BY <1>8, <2>0, <2>1, <3>3, <4>1
    <3>5. part'[State] = "published" /\ part'[RootCopy] = "absent"
      BY <1>8, <2>0, <2>1, <3>3
    <3>6. CandidatePublished'
      BY <1>10, <3>4, <3>5 DEF CandidatePublished
    <3>7. \A k \in Database \ Kept : part'[DbEntry(k)] \in {"after", "restored"}
      <4> SUFFICES ASSUME NEW k \in Database \ Kept PROVE part'[DbEntry(k)] \in {"after", "restored"}
        OBVIOUS
      <4>1. DbEntry(k) \in Parts /\ DbEntry(k) # Pointer
        BY <1>2, IssuedIs, PartObjects
      <4> QED BY <1>8, <2>1, <3>3, <4>1
    <3> QED BY <1>10, <3>6, <3>7 DEF DatabasePublished, DatabaseStale
  <2>2. CASE o # Pointer
    <3>1. part[Pointer] = "published"
      BY <1>8, <2>0, <2>2
    <3>2. CandidatePublished /\ (DatabasePublished \/ DatabaseStale)
      BY <3>1 DEF PreparationInv, PointerLast
    <3>3. /\ \A a \in TypeAuthorities :
                 part[Candidate(a)] = "published" /\ part[Reserved(a)] = "consumed"
          /\ part[State] = "published" /\ part[RootCopy] = "absent"
      BY <3>2 DEF CandidatePublished
    <3>4. o # RootCopy /\ o # State /\ \A a \in TypeAuthorities : o # Candidate(a) /\ o # Reserved(a)
      <4>1. o # RootCopy /\ o # State
        BY <1>3, <1>7, <3>3, PartObjects DEF Resumes, o, from
      <4>2. ASSUME NEW a \in TypeAuthorities PROVE o # Candidate(a) /\ o # Reserved(a)
        <5>1. Candidate(a)[1] = "candidate" /\ Reserved(a)[1] = "reservation"
          BY PartObjects DEF TypeAuthorities, Authorities
        <5>2. /\ o[1] = "candidate" => from = {"staged"}
              /\ o[1] = "reservation" => from = {"absent"} \/ from = {"reserved"}
          BY <1>3 DEF Resumes, o, from
        <5> QED BY <1>7, <3>3, <5>1, <5>2
      <4> QED BY <4>1, <4>2
    <3>5. /\ \A a \in TypeAuthorities :
                 part'[Candidate(a)] = "published" /\ part'[Reserved(a)] = "consumed"
          /\ part'[State] = "published" /\ part'[RootCopy] = "absent"
      BY <1>8, <2>0, <3>3, <3>4
    <3>6. CandidatePublished'
      BY <1>10, <3>5 DEF CandidatePublished
    <3>7. CASE o[1] = "database"
      <4>1. o \in DatabaseParts /\ part[o] = "before"
        BY <1>3, <1>7, <3>7 DEF Resumes, o, from
      <4>2. ~DatabasePublished
        BY <4>1 DEF DatabasePublished, DatabaseParts
      <4>3. PICK k \in Database \ Kept : part[DbEntry(k)] = "restored"
        BY <3>2, <4>2 DEF DatabaseStale
      <4>4. DbEntry(k) \in Parts /\ DbEntry(k) # o
        BY <1>2, <4>1, <4>3, IssuedIs, PartObjects
      <4>5. DatabaseStale'
        BY <1>8, <1>10, <4>3, <4>4 DEF DatabaseStale
      <4> QED BY <3>6, <4>5
    <3>8. CASE o[1] # "database"
      <4>1. \A k \in Database \ Kept : part'[DbEntry(k)] = part[DbEntry(k)]
        <5> SUFFICES ASSUME NEW k \in Database \ Kept PROVE part'[DbEntry(k)] = part[DbEntry(k)]
          OBVIOUS
        <5>1. DbEntry(k) \in Parts /\ DbEntry(k) # o
          BY <1>2, <3>8, IssuedIs, PartObjects
        <5> QED BY <1>8, <5>1
      <4> QED BY <1>10, <3>2, <3>6, <4>1 DEF DatabasePublished, DatabaseStale
    <3> QED BY <3>7, <3>8
  <2> QED BY <2>1, <2>2
<1>18. RepairsKept
  BY <1>11, <1>12, <1>14, <1>15, <1>16, <1>17 DEF RepairsKept
<1> QED BY <1>5, <1>18

(* Every step of a recovery keeps the invariant.                              *)
LEMMA RepairerKeeps ==
    ASSUME Typed, PreparationInv, RepairSteps PROVE PreparationInv'
<1>1. CASE RepairChanges
  <2>1. process.command \in Actions
    BY <1>1 DEF RepairChanges, RepairsOn, Repairing
  <2> QED BY <1>1, <2>1, RollbackTakes, ResumeMoves DEF Actions
<1>2. CASE RepairUnlinks
  BY <1>2, Unlinked, PreparationStutters
<1> QED BY <1>1, <1>2, RepairerNotes DEF RepairSteps

(* The parts that a preparation of this type does not change.                 *)
LEMMA OtherParts ==
    ASSUME Sorted, type \in Types
    PROVE  /\ \A a \in Authorities : a \notin TypeAuthorities =>
                 part[Candidate(a)] = "absent" /\ part[Reserved(a)] = "absent"
           /\ \A k \in Keys : k \notin Database \ Kept => part[DbEntry(k)] = "before"
           /\ \A o \in Parts \ Involved : part[o] \notin {"staged", "partial"}
<1>1. \A o \in Parts \ Involved : part[o] = IF o[1] = "database" THEN "before" ELSE "absent"
  BY DEF Sorted, Unprepared
<1>2. /\ \A a \in TypeAuthorities : /\ Candidate(a)[1] = "candidate" /\ Candidate(a)[2] = a
                                    /\ Reserved(a)[1] = "reservation" /\ Reserved(a)[2] = a
      /\ \A k \in Database \ Kept : DbEntry(k)[1] = "database" /\ DbEntry(k)[2] = k
  BY IssuedIs, PartObjects DEF Candidate, Reserved
<1>3. \A o \in Involved :
         \/ o[1] = "candidate" /\ o[2] \in TypeAuthorities
         \/ o[1] = "reservation" /\ o[2] \in TypeAuthorities
         \/ o[1] = "database" /\ o[2] \in Database \ Kept
         \/ o[1] \in {"root copy", "state", "session", "pointer", "stage", "transaction"}
  <2>1. \A o \in Candidates : o[1] = "candidate" /\ o[2] \in TypeAuthorities
    BY <1>2 DEF Candidates
  <2>2. \A o \in Reservations : o[1] = "reservation" /\ o[2] \in TypeAuthorities
    BY <1>2 DEF Reservations
  <2>3. \A o \in DatabaseParts : o[1] = "database" /\ o[2] \in Database \ Kept
    BY <1>2 DEF DatabaseParts
  <2>4. \A o \in CopyParts \cup {State, BackupSession, Pointer, Stage, Directory} :
           o[1] \in {"root copy", "state", "session", "pointer", "stage", "transaction"}
    BY PartObjects DEF CopyParts
  <2> QED BY <2>1, <2>2, <2>3, <2>4 DEF Involved, CandidateParts
<1>4. ASSUME NEW a \in Authorities, a \notin TypeAuthorities
      PROVE  part[Candidate(a)] = "absent" /\ part[Reserved(a)] = "absent"
  <2>1. /\ Candidate(a) \in Parts /\ Candidate(a)[1] = "candidate" /\ Candidate(a)[2] = a
        /\ Reserved(a) \in Parts /\ Reserved(a)[1] = "reservation" /\ Reserved(a)[2] = a
    BY PartObjects DEF Candidate, Reserved
  <2>2. Candidate(a) \notin Involved /\ Reserved(a) \notin Involved
    BY <1>3, <1>4, <2>1
  <2> QED BY <1>1, <2>1, <2>2
<1>5. ASSUME NEW k \in Keys, k \notin Database \ Kept
      PROVE  part[DbEntry(k)] = "before"
  <2>1. DbEntry(k) \in Parts /\ DbEntry(k)[1] = "database" /\ DbEntry(k)[2] = k
    BY PartObjects
  <2>2. DbEntry(k) \notin Involved
    BY <1>3, <1>5, <2>1
  <2> QED BY <1>1, <2>1, <2>2
<1> QED BY <1>1, <1>4, <1>5

(* A rollback that has passed every entry has taken the preparation back.      *)
LEMMA RollbackEnds ==
    ASSUME Typed, PreparationInv, type \in Types, InPreparation, process.command = "rollback",
           \A i \in 1 .. Len(Repairs) : Repaired(Repairs[i])
    PROVE  TakenBack
<1>0. \A o \in Parts : part[o] \in PartStates(o)
  BY DEF Typed, PreparationTyped
<1>1. Sorted /\ BeforeStaging
  BY DEF PreparationInv
<1>2. ASSUME NEW O, \A o \in O : \E i \in 1 .. Len(Repairs) : Repairs[i] = RepairOf(o)
      PROVE  \A o \in O : part[o] \notin RepairOf(o).from
  <2>1. \A o : RepairOf(o).object = o
    BY DEF RepairOf, Fix
  <2> SUFFICES ASSUME NEW o \in O PROVE part[o] \notin RepairOf(o).from
    OBVIOUS
  <2>2. PICK i \in 1 .. Len(Repairs) : Repairs[i] = RepairOf(o)
    BY <1>2
  <2>3. Repaired(Repairs[i])
    OBVIOUS
  <2> QED BY <2>1, <2>2, <2>3 DEF Repaired
<1>3. \A o, from, to : Fix(o, from, to).from = from
  BY DEF Fix
<1>4. ASSUME \A o \in EndingParts : part[o] \notin RepairOf(o).from
      PROVE  /\ part[BackupSession] = "absent"
             /\ \A a \in Authorities : part[Reserved(a)] \in {"absent", "abandoned"}
  <2>1. part[BackupSession] = "absent"
    <3>1. BackupSession \in EndingParts /\ BackupSession \in Parts
          /\ RepairOf(BackupSession) = Fix(BackupSession, {"published"}, "absent")
          /\ PartStates(BackupSession) = {"absent", "published"}
      BY RepairIs, PartObjects, StatesOfParts DEF EndingParts
    <3>2. part[BackupSession] # "published"
      BY <1>3, <1>4, <3>1
    <3> QED BY <1>0, <3>1, <3>2
  <2>2. ASSUME NEW a \in TypeAuthorities PROVE part[Reserved(a)] = "abandoned"
    <3>0. a \in Authorities /\ Reserved(a) \in EndingParts
      BY DEF TypeAuthorities, Authorities, EndingParts, Reservations
    <3>1. Reserved(a) \in Parts
      BY <3>0, PartObjects
    <3>2. PartStates(Reserved(a)) = {"absent", "reserved", "consumed", "abandoned"}
      BY <3>0, StatesOfParts
    <3>3. RepairOf(Reserved(a)) = Fix(Reserved(a), {"absent", "reserved", "consumed"}, "abandoned")
      BY <3>0, RepairIs DEF Release
    <3>4. part[Reserved(a)] \notin {"absent", "reserved", "consumed"}
      BY <1>3, <1>4, <3>0, <3>3
    <3> QED BY <1>0, <3>1, <3>2, <3>4
  <2> QED BY <1>1, <2>1, <2>2, OtherParts
<1>5. CASE Evidence.staged
  <2>1. Repairs = StagedRollback
    BY <1>5 DEF Repairs, RepairPlan
  <2>2. \A o \in RolledBack \cup EndingParts : \E i \in 1 .. Len(Repairs) : Repairs[i] = RepairOf(o)
    <3>1. /\ \A o \in RolledBack :
               \E i \in 1 .. Len(CandidateRollback) : StagedRollback[i] = RepairOf(o)
          /\ \A o \in EndingParts :
               \E i \in 1 .. Len(StagedRollback) : StagedRollback[i] = RepairOf(o)
          /\ Len(StagedRollback) > Len(CandidateRollback)
          /\ Len(StagedRollback) \in Nat /\ Len(CandidateRollback) \in Nat
      BY StagedRollbackIs
    <3>2. \A i \in 1 .. Len(CandidateRollback) : i \in 1 .. Len(StagedRollback)
      BY <3>1
    <3> QED BY <2>1, <3>1, <3>2
  <2>3. \A o \in RolledBack \cup EndingParts : part[o] \notin RepairOf(o).from
    BY <1>2, <2>2
  <2>4. /\ part[BackupSession] = "absent"
        /\ \A a \in Authorities : part[Reserved(a)] \in {"absent", "abandoned"}
    BY <1>4, <2>3
  <2>5. part[Pointer] = "absent"
    <3>1. Pointer \in RolledBack /\ Pointer \in Parts
          /\ RepairOf(Pointer) = Fix(Pointer, {"published"}, "absent")
          /\ PartStates(Pointer) = {"absent", "published"}
      BY RepairIs, PartObjects, StatesOfParts DEF RolledBack
    <3>2. part[Pointer] # "published"
      BY <1>3, <2>3, <3>1
    <3> QED BY <1>0, <3>1, <3>2
  <2>6. part[State] # "published"
    <3>1. State \in RolledBack /\ RepairOf(State) = Fix(State, {"staged", "published"}, "absent")
      BY RepairIs DEF RolledBack
    <3> QED BY <1>3, <2>3, <3>1
  <2>7. ASSUME NEW a \in Authorities PROVE part[Candidate(a)] # "published"
    <3>1. CASE a \in TypeAuthorities
      <4>1. Candidate(a) \in RolledBack
            /\ RepairOf(Candidate(a)) = Fix(Candidate(a), {"published"}, "absent")
        BY <3>1, RepairIs DEF RolledBack, Candidates
      <4> QED BY <1>3, <2>3, <4>1
    <3> QED BY <1>1, <3>1, OtherParts
  <2>8. ASSUME NEW k \in Keys PROVE part[DbEntry(k)] \in {"before", "restored"}
    <3>1. CASE k \in Database \ Kept
      <4>1. DbEntry(k) \in RolledBack /\ DbEntry(k) \in Parts
        BY <3>1, PartObjects DEF RolledBack, DatabaseParts
      <4>2. RepairOf(DbEntry(k)).from = {"after"}
        BY <1>3, RepairIs DEF Restore
      <4>3. PartStates(DbEntry(k)) = {"before", "after", "restored"}
        BY StatesOfParts
      <4>4. part[DbEntry(k)] # "after"
        BY <2>3, <4>1, <4>2
      <4> QED BY <1>0, <4>1, <4>3, <4>4
    <3> QED BY <1>1, <3>1, OtherParts
  <2> QED BY <2>4, <2>5, <2>6, <2>7, <2>8 DEF TakenBack
<1>6. CASE ~Evidence.staged
  <2>1. Repairs = UnstagedRollback
    BY <1>6 DEF Repairs, RepairPlan
  <2>2. /\ part[Pointer] = "absent" /\ part[State] # "published"
        /\ \A a \in Authorities : part[Candidate(a)] # "published"
        /\ \A k \in Keys : part[DbEntry(k)] = "before"
        /\ ~Evidence.filed => \A a \in Authorities : part[Reserved(a)] = "absent"
    BY <1>1, <1>6 DEF BeforeStaging
  <2>3. CASE Evidence.filed
    <3>1. \A o \in EndingParts : \E i \in 1 .. Len(Repairs) : Repairs[i] = RepairOf(o)
      BY <2>1, <2>3, UnstagedRollbackIs
    <3>2. \A o \in EndingParts : part[o] \notin RepairOf(o).from
      BY <1>2, <3>1
    <3> QED BY <1>4, <2>2, <3>2 DEF TakenBack
  <2>4. CASE ~Evidence.filed
    <3>1. \A o \in {BackupSession} : \E i \in 1 .. Len(Repairs) : Repairs[i] = RepairOf(o)
      BY <2>1, <2>4, UnstagedRollbackIs
    <3>2. \A o \in {BackupSession} : part[o] \notin RepairOf(o).from
      BY <1>2, <3>1
    <3>3. /\ BackupSession \in Parts
          /\ RepairOf(BackupSession) = Fix(BackupSession, {"published"}, "absent")
          /\ PartStates(BackupSession) = {"absent", "published"}
      BY RepairIs, PartObjects, StatesOfParts
    <3>4. part[BackupSession] # "published"
      BY <1>3, <3>2, <3>3
    <3>5. part[BackupSession] = "absent"
      BY <1>0, <3>3, <3>4
    <3> QED BY <2>2, <2>4, <3>5 DEF TakenBack
  <2> QED BY <2>3, <2>4
<1> QED BY <1>5, <1>6

(* A command or a recovery of a preparation, at its end.                       *)
LEMMA EndsOf ==
    ASSUME Typed, NEW mark, Ending(mark)
    PROVE  /\ process.operation = "rollover-prepare" /\ process.mark = mark /\ type' = type
           /\ type \in Types /\ process \in ProcessType /\ journal \in JournalType
           /\ Preparing \/ (Repairing /\ ~Preparing)
           /\ mark = "none" /\ Preparing => process.at = 1 + Len(PreparationPlan)
           /\ mark = "none" /\ ~Preparing => process.at = 1 + Len(Repairs)
           /\ Len(PreparationPlan) \in Nat /\ Len(PreparationPlan) > Len(PreparationStaging)
           /\ Len(PreparationStaging) \in Nat /\ Len(PreparationStaging) >= 10
           /\ \A m : Ended(m) => /\ process'.mark = m /\ process'.operation = process.operation
                                 /\ process'.command = process.command
<1>1. /\ process.operation = "rollover-prepare" /\ process.mark = mark /\ type' = type
      /\ process \in ProcessType /\ journal \in JournalType
  BY DEF Ending, Typed, JournalTyped
<1>2. type \in Types
  BY <1>1 DEF Typed, Control
<1>3. Preparing \/ (Repairing /\ ~Preparing)
  <2>1. process.command \in Commands /\ process.command # "none"
    BY <1>1, IdleTyped DEF ProcessType, Typed, Control, Idle
  <2>2. process.command \notin {"create", "abort", "migrate"}
    BY <1>1 DEF Typed, Control, Bootstraps
  <2> QED BY <1>1, <2>1, <2>2 DEF Preparing, Repairing, Commands, Actions
<1>4. /\ Len(PreparationPlan) \in Nat /\ Len(PreparationStaging) \in {10, 11}
      /\ Len(PreparationPlan) > Len(PreparationStaging)
  BY <1>2, PreparationPlanIs
<1>5. Len(PreparationStaging) \in Nat /\ Len(PreparationStaging) >= 10
  <2>1. Len(PreparationStaging) = 10 \/ Len(PreparationStaging) = 11
    BY <1>4
  <2>2. CASE Len(PreparationStaging) = 10
    BY <2>2
  <2>3. CASE Len(PreparationStaging) = 11
    BY <2>3
  <2> QED BY <2>1, <2>2, <2>3
<1>6. /\ mark = "none" /\ Preparing => process.at = 1 + Len(PreparationPlan)
      /\ mark = "none" /\ ~Preparing => process.at = 1 + Len(Repairs)
  BY DEF Ending, Repairs
<1>7. \A m : Ended(m) => /\ process'.mark = m /\ process'.operation = process.operation
                         /\ process'.command = process.command
  BY <1>1 DEF Ended, ProcessType
<1> QED BY <1>1, <1>2, <1>3, <1>4, <1>5, <1>6, <1>7

(* At the end of its changes the command has published the pointer, as a resume  *)
(* has, and a rollback has taken everything back.                             *)
LEMMA OutcomeReached ==
    ASSUME Typed, PreparationInv, EndCommits
    PROVE  /\ IF Outcome = "resume" THEN part[Pointer] = "published" ELSE TakenBack
           /\ journal.operation = "rollover-prepare"
<1>1. Ending("none")
  BY DEF EndCommits
<1>2. /\ process.operation = "rollover-prepare" /\ process.mark = "none" /\ type \in Types
      /\ Preparing \/ (Repairing /\ ~Preparing)
      /\ Preparing => process.at = 1 + Len(PreparationPlan)
      /\ ~Preparing => process.at = 1 + Len(Repairs)
      /\ Len(PreparationPlan) \in Nat /\ Len(PreparationPlan) > Len(PreparationStaging)
      /\ Len(PreparationStaging) \in Nat /\ Len(PreparationStaging) >= 10
  BY <1>1, EndsOf
<1>3. Changing
  BY <1>2 DEF Changing
<1>4. CASE Preparing
  <2>1. InPreparation
    <3>1. process.at > 1
      BY <1>2, <1>4
    <3> QED BY <1>3, <1>4, <3>1 DEF PreparationInv, PreparerInv
  <2>2. PreparationPlan[Len(PreparationPlan)] = Change(Pointer, "published")
    BY <1>2, PreparationPlanIs
  <2>3. part[PreparationPlan[Len(PreparationPlan)].object] = PreparationPlan[Len(PreparationPlan)].to
    <3>1. /\ Len(PreparationPlan) \in 1 .. Len(PreparationPlan)
          /\ Len(PreparationPlan) > Len(PreparationStaging) /\ Len(PreparationPlan) < process.at
          /\ ~(process.at <= Len(PreparationPlan))
      BY <1>2, <1>4
    <3> QED BY <1>3, <1>4, <3>1 DEF PreparationInv, PreparerInv
  <2>4. part[Pointer] = "published"
    BY <2>2, <2>3 DEF Change
  <2> QED BY <1>4, <2>1, <2>4 DEF Outcome, InPreparation
<1>5. CASE ~Preparing /\ journal.committed
  <2>1. journal.operation = "rollover-prepare" /\ journal.action = process.command
    BY <1>2, <1>3, <1>5 DEF PreparationInv, RepairerInv, Typed, Control, Repairing, Actions
  <2> QED BY <1>5, <2>1 DEF Outcome, PreparationInv, Decided
<1>6. CASE ~Preparing /\ ~journal.committed
  <2>1. journal.operation = "rollover-prepare" /\ process.command \in Actions
    BY <1>2, <1>6 DEF Typed, Control, Repairing
  <2>2. Len(Repairs) \in Nat
    BY <1>2, StagedRollbackIs, UnstagedRollbackIs, ResumptionIs DEF Repairs, RepairPlan
  <2>3. \A i \in 1 .. Len(Repairs) : Repaired(Repairs[i])
    <3>1. \A i \in 1 .. Len(Repairs) : i < process.at
      BY <1>2, <1>6, <2>2
    <3> QED BY <1>2, <1>3, <1>6, <3>1 DEF PreparationInv, RepairerInv
  <2>4. CASE process.command = "rollback"
    BY <1>2, <1>6, <2>1, <2>3, <2>4, RollbackEnds DEF Outcome, InPreparation
  <2>5. CASE process.command = "resume"
    <3>1. Repairs = Resumption
      BY <2>5 DEF Repairs, RepairPlan
    <3>2. Len(Repairs) \in 1 .. Len(Repairs)
          /\ Repairs[Len(Repairs)] = Fix(Pointer, {"absent"}, "published")
      BY <1>2, <3>1, ResumptionIs
    <3>3. Repaired(Fix(Pointer, {"absent"}, "published"))
      BY <2>3, <3>2
    <3>4. part[Pointer] # "absent"
      BY <3>3 DEF Repaired, Fix
    <3>5. part[Pointer] \in {"absent", "published"}
      <4>1. Pointer \in Parts /\ PartStates(Pointer) = {"absent", "published"}
        BY PartObjects, StatesOfParts
      <4> QED BY <4>1 DEF Typed, PreparationTyped
    <3> QED BY <1>6, <2>1, <2>5, <3>4, <3>5 DEF Outcome
  <2> QED BY <2>1, <2>4, <2>5 DEF Actions
<1> QED BY <1>4, <1>5, <1>6

(* The end of a preparation is decided before its directory goes.              *)
LEMMA EndingsCommit == ASSUME Typed, PreparationInv, EndCommits PROVE PreparationInv'
<1>1. /\ Ending("none") /\ Ended("committed") /\ part' = part /\ marker' = marker /\ receipt' = receipt
      /\ journal' = [journal EXCEPT !.phase = "terminal-cleanup", !.committed = TRUE,
                                    !.action = Outcome, !.step = NoStep,
                                    !.evidence.directory = journal.evidence.directory \/ part[Directory] # "absent"]
  BY DEF EndCommits
<1>2. /\ type' = type /\ journal \in JournalType /\ process.operation = "rollover-prepare"
      /\ process'.mark = "committed" /\ process'.operation = "rollover-prepare"
      /\ process'.command = process.command
  BY <1>1, EndsOf
<1>3. /\ IF Outcome = "resume" THEN part[Pointer] = "published" ELSE TakenBack
      /\ journal.operation = "rollover-prepare"
  BY OutcomeReached
<1>4. /\ journal'.operation = "rollover-prepare" /\ journal'.committed /\ journal'.action = Outcome
  BY <1>1, <1>2, <1>3 DEF JournalType
<1>5. /\ Sorted' <=> Sorted
      /\ TakenBack' <=> TakenBack
      /\ Resolute' <=> Resolute
      /\ PointerLast' <=> PointerLast
  BY <1>1, <1>2, SameParts
<1>6. ~InPreparation'
  BY <1>4 DEF InPreparation
<1>7. Sorted' /\ PointerLast' /\ BeforeStaging' /\ AfterStaging'
  BY <1>5, <1>6 DEF PreparationInv, BeforeStaging, AfterStaging
<1>8. Decided'
  BY <1>1, <1>3, <1>4, <1>5 DEF Decided
<1>9. Closing'
  BY <1>1, <1>2, <1>4, <1>5, <1>6 DEF PreparationInv, Closing
<1>10. PreparerInv' /\ RepairerInv'
  BY <1>2 DEF PreparerInv, RepairerInv, Changing
<1> QED BY <1>7, <1>8, <1>9, <1>10 DEF PreparationInv

(* The last steps change no part, but the one that removes the directory.      *)
LEMMA EndingsKeep ==
    ASSUME Typed, PreparationInv,
           EndMarks \/ EndRefuses \/ EndReceipts \/ EndDropsJournal \/ EndDropsMarker
    PROVE  PreparationInv'
<1>0. PICK mark \in {"committed", "marked", "receipted", "dropped"} : Ending(mark)
  BY DEF EndMarks, EndRefuses, EndReceipts, EndDropsJournal, EndDropsMarker
<1>1. /\ process.operation = "rollover-prepare" /\ process.mark = mark /\ type' = type
      /\ part' = part
      /\ \A m : Ended(m) => /\ process'.mark = m /\ process'.operation = process.operation
                            /\ process'.command = process.command
  BY <1>0, EndsOf DEF EndMarks, EndRefuses, EndReceipts, EndDropsJournal, EndDropsMarker
<1>2. /\ Sorted' <=> Sorted
      /\ TakenBack' <=> TakenBack
      /\ Resolute' <=> Resolute
      /\ PointerLast' <=> PointerLast
  BY <1>1, SameParts
<1>3. /\ mark \in {"committed", "marked", "receipted"} =>
             journal.operation = "rollover-prepare" /\ journal.committed
      /\ mark \in {"marked", "receipted", "dropped"} => marker
      /\ mark \in {"receipted", "dropped"} => receipt
      /\ receipt => Resolute /\ ~InPreparation
  BY <1>1 DEF PreparationInv, Closing
<1>4. Sorted' /\ PointerLast'
  BY <1>2 DEF PreparationInv
<1>5. ASSUME NEW m \in {"marked", "receipted", "dropped"}, Ended(m), marker',
             m = "dropped" \/ (journal' = journal /\ journal.committed),
             receipt' => Resolute, m \in {"receipted", "dropped"} => receipt',
             m = "dropped" => journal' = NoJournal /\ Resolute
      PROVE  PreparationInv'
  <2>1. ~InPreparation'
    BY <1>5, NoJournalTyped DEF InPreparation
  <2>2. BeforeStaging' /\ AfterStaging'
    BY <2>1 DEF BeforeStaging, AfterStaging
  <2>3. Decided'
    <3>1. CASE journal' = NoJournal
      BY <3>1, NoJournalTyped DEF Decided
    <3>2. CASE journal' = journal
      BY <1>1, <1>2, <3>2 DEF Decided, PreparationInv
    <3> QED BY <1>5, <3>1, <3>2
  <2>4. process'.mark = m /\ process'.operation = "rollover-prepare"
    BY <1>1, <1>5
  <2>5. m # "dropped" => journal.operation = "rollover-prepare"
    <3>1. m # "dropped" => mark # "dropped"
      BY <1>1, <1>5
        DEF EndMarks, EndRefuses, EndReceipts, EndDropsJournal, EndDropsMarker, Ending,
                        Ended, Idle
    <3> QED BY <1>3, <3>1
  <2>6. Closing'
    BY <1>2, <1>5, <2>1, <2>4, <2>5 DEF Closing
  <2>7. PreparerInv' /\ RepairerInv'
    BY <1>5, <2>4 DEF PreparerInv, RepairerInv, Changing
  <2> QED BY <1>4, <2>2, <2>3, <2>6, <2>7 DEF PreparationInv
<1>6. CASE EndMarks
  <2>1. Ended("marked") /\ marker' /\ ~receipt' /\ journal' = journal /\ mark = "committed"
    BY <1>1, <1>6 DEF EndMarks, Ending
  <2> QED BY <1>3, <1>5, <2>1
<1>7. CASE EndRefuses
  BY <1>1, <1>7, PreparationIdles DEF EndRefuses
<1>8. CASE EndReceipts
  <2>1. /\ Ended("receipted") /\ receipt' /\ journal' = journal /\ marker' = marker /\ mark = "marked"
        /\ part[Directory] = "absent"
    BY <1>1, <1>8 DEF EndReceipts, Ending
  <2>2. Cleared
    BY <2>1 DEF PreparationInv, Sorted, Cleared
  <2>3. Resolute
    BY <1>3, <2>1, <2>2 DEF PreparationInv, Decided, Resolute
  <2> QED BY <1>3, <1>5, <2>1, <2>3
<1>9. CASE EndDropsJournal
  <2>1. /\ Ended("dropped") /\ journal' = NoJournal /\ marker' = marker /\ receipt' = receipt
        /\ mark = "receipted"
    BY <1>1, <1>9 DEF EndDropsJournal, Ending
  <2> QED BY <1>3, <1>5, <2>1
<1>10. CASE EndDropsMarker
  <2>1. process' = Idle /\ journal' = journal /\ receipt' = receipt /\ mark = "dropped"
    BY <1>1, <1>10 DEF EndDropsMarker, Ending
  <2> QED BY <1>1, <1>3, <2>1, PreparationIdles
<1> QED BY <1>6, <1>7, <1>8, <1>9, <1>10

(* What the removal of the directory does to the parts: it takes those that     *)
(* are staged in it, and all of them when it has gone.                        *)
LEMMA DirectoryTaken ==
    ASSUME Typed, Sorted, type \in Types, Take(Directory), part[Directory] \in {"staged", "partial"}
    PROVE  /\ part'[Directory] = IF part[Directory] = "partial" THEN "absent" ELSE "partial"
           /\ \A o \in Parts : part[o] \notin {"staged", "partial"} => part'[o] = part[o]
           /\ \A o \in Parts : part[o] \in {"staged", "partial"} => part'[o] = part'[Directory]
<1>1. part' = [o \in Parts |-> IF o \notin Lost(Directory) THEN part[o]
                               ELSE IF part[Directory] = "partial" THEN "absent" ELSE "partial"]
  BY DEF Take
<1>2. Directory \in Parts /\ Contents(Directory) = StageParts \cup {Stage, State}
  BY InvolvedParts, PartObjects
<1>3. Lost(Directory) =
          {Directory} \cup {o \in StageParts \cup {Stage, State} : part[o] \in {"staged", "partial"}}
  BY <1>2 DEF Lost
<1>4. \A o \in Parts : part[o] \notin {"staged", "partial"} => o \notin Lost(Directory)
  BY <1>3
<1>5. ASSUME NEW o \in Parts, part[o] \in {"staged", "partial"} PROVE o \in Lost(Directory)
  <2>1. part[o] \in PartStates(o)
    BY DEF Typed, PreparationTyped
  <2>2. o[1] \notin {"database", "reservation", "session", "pointer"}
    BY <1>5, <2>1 DEF PartStates
  <2>3. o \in Involved
    BY <1>5, OtherParts
  <2>4. o \in StageParts \cup {Stage, State, Directory}
    <3>1. \A p \in Reservations : p[1] = "reservation"
      BY AuthorityParts
    <3>2. \A p \in DatabaseParts : p[1] = "database"
      <4>1. \A k \in Database \ Kept : DbEntry(k)[1] = "database"
        BY PartObjects, IssuedIs
      <4> QED BY <4>1 DEF DatabaseParts
    <3> QED BY <2>2, <2>3, <3>1, <3>2, PartObjects DEF Involved, CandidateParts, StageParts
  <2> QED BY <1>3, <1>5, <2>4
<1> QED BY <1>1, <1>2, <1>4, <1>5, PartObjects

(* The directory goes, and leaves what is published or was taken back.          *)
LEMMA EndingsClear == ASSUME Typed, PreparationInv, EndClears PROVE PreparationInv'
<1>1. /\ Ending("marked") /\ Take(Directory) /\ part[Directory] \in {"staged", "partial"}
      /\ journal' = journal /\ marker' = marker /\ receipt' = receipt /\ process' = process
  BY DEF EndClears
<1>2. /\ type' = type /\ type \in Types /\ process.mark = "marked"
      /\ process.operation = "rollover-prepare"
  BY <1>1, EndsOf
<1>3. Sorted /\ PointerLast /\ Decided /\ Closing
  BY DEF PreparationInv
<1>4. /\ part'[Directory] = IF part[Directory] = "partial" THEN "absent" ELSE "partial"
      /\ \A o \in Parts : part[o] \notin {"staged", "partial"} => part'[o] = part[o]
      /\ \A o \in Parts : part[o] \in {"staged", "partial"} => part'[o] = part'[Directory]
  BY <1>1, <1>2, <1>3, DirectoryTaken
<1>5. /\ \A o \in Parts : part'[o] = part[o] \/ part'[o] \in {"absent", "partial"}
      /\ \A o \in Parts : part'[o] \in {"staged", "partial"} => part'[Directory] = "partial"
  BY <1>4
<1>6. /\ journal.operation = "rollover-prepare" /\ journal.committed /\ marker /\ ~receipt
  <2>1. Directory \in Parts
    BY PartObjects
  <2> QED BY <1>1, <1>2, <1>3, <2>1 DEF Closing, Resolute, Cleared
<1>7. ~InPreparation'
  BY <1>1, <1>6 DEF InPreparation
<1>8. /\ TypeAuthorities' = TypeAuthorities /\ Database' = Database /\ Involved' = Involved
  BY <1>2 DEF Involved, CandidateParts, Candidates, Reservations, DatabaseParts, CopyParts,
              TypeAuthorities, Database
<1>9. Sorted'
  <2>1. \A o \in Parts : part'[o] \in {"staged", "partial"} => part'[Directory] \in {"staged", "partial"}
    BY <1>5
  <2>2. \A o \in Hidden : part'[o] # "published"
    BY <1>2, <1>3, <1>5, InvolvedParts DEF Sorted
  <2>3. \A k \in Created : part'[DbEntry(k)] # "restored"
    <3> SUFFICES ASSUME NEW k \in Created PROVE part'[DbEntry(k)] # "restored"
      OBVIOUS
    <3>1. DbEntry(k) \in Parts /\ part[DbEntry(k)] # "restored"
      BY <1>2, <1>3, InvolvedParts, PartObjects DEF Sorted
    <3> QED BY <1>5, <3>1
  <2>4. \A o \in Parts \ Involved : part'[o] = Unprepared[o]
    <3>1. \A o \in Parts \ Involved : part[o] \notin {"staged", "partial"}
      BY <1>2, <1>3, OtherParts
    <3> QED BY <1>3, <1>4, <3>1 DEF Sorted
  <2> QED BY <1>8, <2>1, <2>2, <2>3, <2>4 DEF Sorted
<1>10. \A k \in Keys : part'[DbEntry(k)] = part[DbEntry(k)]
  <2> SUFFICES ASSUME NEW k \in Keys PROVE part'[DbEntry(k)] = part[DbEntry(k)]
    OBVIOUS
  <2>1. DbEntry(k) \in Parts
    BY PartObjects
  <2>2. PartStates(DbEntry(k)) = {"before", "after", "restored"}
    BY StatesOfParts
  <2>3. part[DbEntry(k)] \in {"before", "after", "restored"}
    BY <2>1, <2>2 DEF Typed, PreparationTyped
  <2> QED BY <1>4, <2>1, <2>3
<1>11. Pointer \in Parts /\ State \in Parts /\ RootCopy \in Parts /\ BackupSession \in Parts
       /\ \A a \in Authorities : Candidate(a) \in Parts /\ Reserved(a) \in Parts
  BY PartObjects
<1>12. ASSUME NEW o \in Parts
       PROVE  /\ part[o] \in {"published", "consumed", "absent", "abandoned"} => part'[o] = part[o]
              /\ part[o] # "published" => part'[o] # "published"
  BY <1>4, <1>5
<1>13. part'[Pointer] = "published" <=> part[Pointer] = "published"
  BY <1>11, <1>12
<1>14. PointerLast'
  <2> SUFFICES ASSUME part[Pointer] = "published"
               PROVE  (CandidatePublished /\ (DatabasePublished \/ DatabaseStale))'
    BY <1>13 DEF PointerLast
  <2>1. CandidatePublished /\ (DatabasePublished \/ DatabaseStale)
    BY <1>3 DEF PointerLast
  <2>2. /\ \A a \in TypeAuthorities :
             part[Candidate(a)] = "published" /\ part[Reserved(a)] = "consumed"
        /\ part[State] = "published" /\ part[RootCopy] = "absent"
    BY <2>1 DEF CandidatePublished
  <2>3. \A a \in TypeAuthorities : a \in Authorities
    BY DEF TypeAuthorities, Authorities
  <2>4. /\ \A a \in TypeAuthorities :
             part'[Candidate(a)] = "published" /\ part'[Reserved(a)] = "consumed"
        /\ part'[State] = "published" /\ part'[RootCopy] = "absent" /\ part'[Pointer] = "published"
    BY <1>11, <1>12, <1>13, <2>2, <2>3
  <2>5. CandidatePublished'
    BY <1>8, <2>4 DEF CandidatePublished
  <2>6. \A k \in Database \ Kept : part'[DbEntry(k)] = part[DbEntry(k)]
    BY <1>2, <1>10, IssuedIs
  <2> QED BY <1>8, <2>1, <2>5, <2>6 DEF DatabasePublished, DatabaseStale
<1>15. TakenBack => TakenBack'
  <2> SUFFICES ASSUME TakenBack PROVE TakenBack'
    OBVIOUS
  <2>1. /\ part'[Pointer] = "absent" /\ part'[State] # "published" /\ part'[BackupSession] = "absent"
    BY <1>11, <1>12 DEF TakenBack
  <2>2. \A a \in Authorities : /\ part'[Candidate(a)] # "published"
                               /\ part'[Reserved(a)] \in {"absent", "abandoned"}
    BY <1>11, <1>12 DEF TakenBack
  <2>3. \A k \in Keys : part'[DbEntry(k)] \in {"before", "restored"}
    BY <1>10 DEF TakenBack
  <2> QED BY <2>1, <2>2, <2>3 DEF TakenBack
<1>16. Decided'
  BY <1>1, <1>3, <1>13, <1>15 DEF Decided
<1>17. Closing'
  BY <1>1, <1>2, <1>6, <1>7 DEF Closing
<1>18. PreparerInv' /\ RepairerInv'
  BY <1>1, <1>2 DEF PreparerInv, RepairerInv, Changing
<1> QED BY <1>7, <1>9, <1>14, <1>16, <1>17, <1>18
        DEF PreparationInv, BeforeStaging, AfterStaging

(* Every step of the end of a preparation keeps the invariant.                *)
LEMMA EndsKeep == ASSUME Typed, PreparationInv, EndSteps PROVE PreparationInv'
BY EndingsCommit, EndingsKeep, EndingsClear DEF EndSteps

(* Nothing that a creation or a migration does concerns a preparation.         *)
LEMMA NotPrepared == Typed /\ Worlds /\ type = "none" => PreparationInv
<1> SUFFICES ASSUME Typed, Worlds, type = "none" PROVE PreparationInv
  OBVIOUS
<1>1. part = Unprepared
  BY DEF Worlds
<1>2. journal.operation # "rollover-prepare" /\ process.operation # "rollover-prepare"
  BY DEF Typed, Control, Types
<1>3. process.command # "prepare"
  BY <1>2 DEF Typed, Control
<1> QED BY <1>1, <1>2, <1>3, NothingPrepared

(* A preparation's invariant is inductive, given those of the layout it is      *)
(* made next to.                                                             *)
LEMMA PreparationKeeps ==
    ASSUME Typed, Owned, MigrationInv, CreationInv, Worlds, PreparationInv, [Next]_vars
    PROVE  PreparationInv'
<1>1. Typed' /\ Worlds'
  BY StepIsTyped, WorldsKept
<1>2. CASE Prepares
  <2>1. CASE PrepareSteps
    BY <1>1, <2>1, PreparerKeeps, RepairerKeeps, EndsKeep DEF PrepareSteps
  <2>2. CASE PreparationFails \/ DropMarkedReceipt
    BY <2>2, PreparationStopsKeep
  <2>3. ASSUME NEW kind \in Types, BeginPreparation(kind) PROVE PreparationInv'
    BY <2>3, PreparationBegun
  <2>4. ASSUME NEW action \in Actions, BeginRepair(action) PROVE PreparationInv'
    BY <2>4, RepairBegun
  <2> QED BY <1>2, <2>1, <2>2, <2>3, <2>4 DEF Prepares
<1>3. ASSUME type' = "none" PROVE PreparationInv'
  <2>1. (Typed /\ Worlds /\ type = "none")'
    BY <1>1, <1>3
  <2> QED BY <2>1, NotPrepared, PTL
<1>4. CASE Creates \/ Migrates
  <2>1. type' = type
    BY <1>4 DEF Creates, Migrates, preparation_vars
  <2>2. type = "none"
    BY <1>4, SettledSpared DEF Worlds
  <2> QED BY <1>3, <2>1, <2>2
<1>5. CASE /\ process' = Idle \/ process' = process
           /\ UNCHANGED << journal, marker, receipt, preparation_vars >>
  <2>1. part' = part /\ type' = type /\ journal' = journal /\ marker' = marker /\ receipt' = receipt
    BY <1>5 DEF preparation_vars
  <2>2. CASE process' = Idle
    BY <2>1, <2>2, PreparationIdles
  <2>3. CASE process' = process
    BY <1>5, <2>3, PreparationStutters DEF preparation_vars
  <2> QED BY <1>5, <2>2, <2>3
<1> QED BY <1>2, <1>4, <1>5, StepWorks

(* The invariant of the composition, and what it rests on.                     *)
CompositionInv == Typed /\ Owned /\ MigrationInv /\ CreationInv /\ Worlds /\ PreparationInv

(* It holds before any command ran.                                           *)
LEMMA CompositionStarts == Init => CompositionInv
<1> SUFFICES ASSUME Init PROVE CompositionInv
  OBVIOUS
<1>1. Typed /\ Owned /\ MigrationInv /\ CreationInv /\ Worlds
  BY InitTyped, OwnedAtFirst, MigrationStarts, CreationStarts, WorldsAtFirst
<1>2. type = "none"
  BY DEF Init
<1>3. PreparationInv
  BY <1>1, <1>2, NotPrepared
<1> QED BY <1>1, <1>3 DEF CompositionInv

(* Every step of every command, failure and recovery keeps it.                 *)
LEMMA CompositionKept == CompositionInv /\ [Next]_vars => CompositionInv'
<1> SUFFICES ASSUME CompositionInv, [Next]_vars PROVE CompositionInv'
  OBVIOUS
<1>1. Typed /\ Owned /\ MigrationInv /\ CreationInv /\ Worlds /\ PreparationInv
  BY DEF CompositionInv
<1>2. Typed' /\ Owned' /\ MigrationInv' /\ CreationInv' /\ Worlds' /\ PreparationInv'
  BY <1>1, StepIsTyped, OwnedKept, MigrationKeeps, CreationKeeps, WorldsKept, PreparationKeeps
<1> QED BY <1>2 DEF CompositionInv

(* What no journal but history leaves unfinished.                              *)
LEMMA NothingUnresolved ==
    ASSUME CompositionInv, NoUnresolvedState
    PROVE  ~InCreation /\ ~InMigration /\ ~marker /\ journal.operation # "rollover-prepare"
<1>1. journal = NoJournal \/ TerminalHistory
  BY DEF NoUnresolvedState
<1>2. CASE journal = NoJournal
  BY <1>2, NoJournalTyped DEF NoUnresolvedState, InCreation, InMigration, Bootstraps, NoJournal
<1>3. CASE TerminalHistory
  BY <1>3 DEF NoUnresolvedState, InCreation, InMigration, TerminalHistory, TerminalBootstrap,
              TerminalMigration, Bootstraps
<1> QED BY <1>1, <1>2, <1>3

(* With nothing unfinished the layout is one of the three, and whole.           *)
LEMMA LayoutAtRest ==
    ASSUME CompositionInv, NoUnresolvedState
    PROVE  WholeCreation \/ WholeLegacy \/ WholeGeneration
<1>1. MigrationTyped /\ CreationRests /\ Rests /\ (Fresh \/ Legacy)
  BY DEF CompositionInv, Typed, MigrationInv, CreationInv, Worlds
<1>2. ~InCreation /\ ~InMigration
  BY NothingUnresolved
<1>3. CASE Fresh
  <2>1. Layout = "empty"
    BY <1>1, <1>3, LayoutIs
  <2>2. NothingCreated \/ RootCreated \/ PairCreated
    BY <1>1, <1>2 DEF CreationRests
  <2> QED BY <2>1, <2>2 DEF WholeCreation, NothingCreated, RootCreated, PairCreated, PairFinal
<1>4. CASE Legacy /\ AsFound
  <2>1. Layout = "legacy"
    BY <1>1, <1>4, LayoutIs
  <2>2. \A o \in Objects \ {Provenance} : place[o] # "none"
    <3> SUFFICES ASSUME NEW o \in Objects \ {Provenance} PROVE place[o] # "none"
      OBVIOUS
    <3>1. place[o] \in Places(o)
      BY <1>1 DEF MigrationTyped
    <3>2. CASE \E a \in Authorities : o = Tree(a)
      BY <1>4, <3>2 DEF Legacy
    <3>3. CASE ~\E a \in Authorities : o = Tree(a)
      <4>1. \/ \E a \in Authorities : o = Config(a) \/ o = Reservation(a)
            \/ \E s \in Services : o = Issuer(s)
            \/ \E q \in QuarantineNames : o = Quarantine(q)
            \/ o = Session \/ o = Active
        BY <3>3 DEF Objects
      <4>2. "none" \notin Places(Session) /\ "none" \notin Places(Active)
        BY DEF Places, Session, Active
      <4> QED BY <3>1, <4>1, <4>2, StatesOfObjects
    <3> QED BY <3>2, <3>3
  <2> QED BY <1>4, <2>1, <2>2 DEF WholeLegacy, AsFound
<1>5. CASE AllFinal
  BY <1>1, <1>5, LayoutIs DEF WholeGeneration, AllFinal
<1> QED BY <1>1, <1>2, <1>3, <1>4, <1>5 DEF Rests

(* With nothing unfinished there is no candidate, or a whole one over          *)
(* authorities that are whole.                                                *)
LEMMA CandidateAtRest ==
    ASSUME CompositionInv, NoUnresolvedState
    PROVE  \/ WithoutCandidate
           \/ Founded /\ CandidatePublished /\ \A o \in Hidden : part[o] = "absent"
<1>1. PreparationTyped /\ MigrationTyped /\ Worlds /\ Sorted /\ PointerLast /\ Closing
  BY DEF CompositionInv, Typed, PreparationInv
<1>2. Resolute
  BY <1>1, NothingUnresolved DEF Closing
<1>3. \A o \in Parts : part[o] \in PartStates(o) /\ part[o] \notin {"staged", "partial"}
  BY <1>1, <1>2 DEF PreparationTyped, Resolute, Cleared
<1>4. Stage \in Parts /\ RootCopy \in Parts /\ Directory \in Parts
  BY PartObjects
<1>5. \A o \in Hidden : part[o] = "absent"
  <2>1. \A o \in Hidden : part[o] # "published"
    BY <1>1 DEF Sorted
  <2>2. \A o \in Hidden : part[o] \in {"absent", "staged", "published", "partial"}
    BY <1>3, <1>4, StatesOfParts DEF Hidden
  <2> QED BY <1>3, <1>4, <2>1, <2>2 DEF Hidden
<1>6. CASE TakenBack
  <2>1. /\ \A a \in Authorities : /\ part[Candidate(a)] = "absent"
                                  /\ part[Reserved(a)] \in {"absent", "abandoned"}
        /\ part[Pointer] = "absent" /\ part[BackupSession] = "absent" /\ part[State] = "absent"
    <3>1. ASSUME NEW a \in Authorities
          PROVE  /\ part[Candidate(a)] \in {"absent", "staged", "published", "partial"}
                 /\ part[Candidate(a)] \notin {"staged", "partial"}
      <4>1. Candidate(a) \in Parts
        BY PartObjects
      <4>2. PartStates(Candidate(a)) = {"absent", "staged", "published", "partial"}
        BY StatesOfParts
      <4> QED BY <1>3, <4>1, <4>2
    <3>2. /\ part[State] \in {"absent", "staged", "published", "partial"}
          /\ part[State] \notin {"staged", "partial"}
      BY <1>3, PartObjects, StatesOfParts
    <3> QED BY <1>6, <3>1, <3>2 DEF TakenBack
  <2>2. \A k \in Keys : part[DbEntry(k)] \in {"before", "restored"}
    BY <1>6 DEF TakenBack
  <2>3. \A o \in Parts : part[o] \in {"absent", "before", "restored", "abandoned"}
    BY <1>5, <2>1, <2>2 DEF Parts, Hidden
  <2>4. ASSUME NEW k \in Keys, part[DbEntry(k)] = "restored" PROVE k \notin Created \cup Kept
    <3>1. k \notin Created
      BY <1>1, <2>4 DEF Sorted
    <3>2. CASE type = "none"
      <4>1. part[DbEntry(k)] = "before"
        BY <1>1, <3>2, PartObjects DEF Worlds, Unprepared
      <4> QED BY <2>4, <4>1
    <3>3. CASE type # "none"
      <4>1. type \in Types
        BY <1>1, <3>3 DEF PreparationTyped
      <4>2. k \notin Database \ Kept => part[DbEntry(k)] = "before"
        BY <1>1, <4>1, OtherParts
      <4> QED BY <2>4, <3>1, <4>2
    <3> QED BY <3>1, <3>2, <3>3
  <2> QED BY <2>3, <2>4 DEF WithoutCandidate
<1>7. CASE part[Pointer] = "published"
  <2>1. CandidatePublished
    BY <1>1, <1>7 DEF PointerLast
  <2>2. type # "none"
    BY <1>1, <1>7, PartObjects DEF Worlds, Unprepared
  <2>3. (Fresh /\ PairCreated) \/ (Legacy /\ AllFinal)
    BY <1>1, <2>2 DEF Worlds, Settled
  <2>4. Founded
    BY <1>1, <2>3, LayoutIs
       DEF Founded, PairCreated, PairFinal, Manifests, Whole, Authorities
  <2> QED BY <1>5, <2>1, <2>4
<1> QED BY <1>2, <1>6, <1>7 DEF Resolute

(* Whenever other commands are let through, they find one layout and nothing   *)
(* of another, and next to a generation nothing of a preparation or all of it.  *)
THEOREM AlwaysAdmittedIsWhole == Spec => []AdmittedIsWhole
<1>1. CompositionInv => AdmittedIsWhole
  BY LayoutAtRest, CandidateAtRest DEF AdmittedIsWhole
<1> QED BY <1>1, CompositionStarts, CompositionKept, PTL DEF Spec

(* In whatever order publication, rollback and resume of any command were       *)
(* interrupted, the manifests of the first root, of the active pair and of the  *)
(* prepared candidate name only what is entirely there.                       *)
THEOREM ManifestsAlwaysNameWhole == Spec => []ManifestsNameWhole
<1>1. CompositionInv => ManifestsNameWhole
  <2> SUFFICES ASSUME CompositionInv PROVE ManifestsNameWhole
    OBVIOUS
  <2>1. LayoutManifests /\ PointerLast
    BY LayoutManifestsHold DEF CompositionInv, PreparationInv
  <2> QED BY <2>1 DEF ManifestsNameWhole, LayoutManifests, ActiveIsLast, PointerLast
<1> QED BY <1>1, CompositionStarts, CompositionKept, PTL DEF Spec

------------------------------------------------------------------------------
(* What the other commands see is CaLayout.                                   *)
Waiting == Running \/ ~NoUnresolvedState

(* Where nothing was found and nothing created, no command worked.             *)
Untouched == Fresh /\ creating = "none" => ~Waiting

(* With nothing to wait for, the only steps are the beginnings.                *)
LEMMA AdmittedSteps ==
    ASSUME Typed, ~Waiting, [Next]_vars
    PROVE  \/ \E a \in Authorities : BeginCreation(a) /\ Layout = "empty" /\ Creates
                                     /\ UNCHANGED << migration_vars, preparation_vars >>
           \/ BeginMigration /\ UNCHANGED << creation_vars, preparation_vars >>
           \/ \E kind \in Types : BeginPreparation(kind) /\ Founded
                                  /\ UNCHANGED << creation_vars, migration_vars >>
           \/ /\ UNCHANGED << journal, marker, creation_vars, migration_vars, preparation_vars >>
              /\ process' = Idle \/ process' = process
<1>1. /\ process.command = "none" /\ ~Running /\ ~marker
      /\ journal = NoJournal \/ TerminalHistory
  BY DEF Waiting, Running, NoUnresolvedState
<1>2. /\ journal.operation \in Bootstraps \cup {"legacy-migrate"} => journal.committed
      /\ journal.operation # "rollover-prepare"
  BY <1>1, NoJournalTyped DEF TerminalHistory, TerminalBootstrap, TerminalMigration, Bootstraps
<1>3. CASE Creates
  <2>1. ~Creating /\ ~Withdrawing /\ ~Completing
    BY <1>1 DEF Creating, Withdrawing, Completing
  <2>2. ~BootstrapSteps /\ ~CreationFails
    BY <2>1 DEF BootstrapSteps, CreationFails, CreatorSteps, CreatorJournals, CreatorPlaces,
         CreatorCommits, CreatorReturns, CreatorAt, WithdrawalAnnounces, WithdrawalChanges,
         WithdrawalRecords, WithdrawalPasses, WithdrawalCommits, WithdrawalReturns, WithdrawsOn,
         CompletionAnnounces, CompletionChanges, CompletionRecords, CompletionCommits,
         CompletionUnmarks, CompletionReturns, CompletesAt
  <2>3. \A action : ~BeginBootstrapRecovery(action)
    BY <1>2 DEF BeginBootstrapRecovery
  <2> QED BY <1>3, <2>2, <2>3 DEF Creates
<1>4. CASE Migrates
  <2>1. ~Writing /\ ~Recovering
    BY <1>1 DEF Writing, Recovering, Actions
  <2>2. ~WriterSteps /\ ~RecoverySteps /\ ~MigrationFails
    BY <2>1 DEF WriterSteps, WriterRecords, WriterPublishes, WriterCommits, WriterReturns,
      Planned,
         MigrationFails, Working, RecoverySteps, RecoveryRecords, AnnounceChange, MakeChange,
         RecordChange, PassChange, PassOver, RecoveryRefuses, RecoveryCommits, RecoveryReturns
  <2>3. \A action : ~BeginRecovery(action)
    BY <1>2 DEF BeginRecovery, Actionable
  <2> QED BY <1>4, <2>2, <2>3 DEF Migrates, CommandSteps
<1>5. CASE Prepares
  <2>1. ~Preparing /\ ~Repairing /\ process.operation = "none"
    BY <1>1, IdleTyped DEF Preparing, Repairing, Typed, Control, Actions
  <2>2. ~PrepareSteps /\ ~PreparationFails /\ ~DropMarkedReceipt
    BY <1>1, <2>1 DEF PrepareSteps, PreparerSteps, PreparerNotes, PreparerFills,
         PreparerAnnounces, PreparerChanges, PreparerUnlinks, Unlink, PreparerRecords,
           PreparerAt, RepairSteps,
         RepairAnnounces, RepairChanges, RepairRefuses, RepairUnlinks, RepairRecords,
           RepairPasses, RepairsOn,
         EndSteps, EndCommits, EndMarks, EndClears, EndRefuses, EndReceipts,
         EndDropsJournal, EndDropsMarker, Ending, PreparationFails, DropMarkedReceipt
  <2>3. \A action : ~BeginRepair(action)
    BY <1>2 DEF BeginRepair
  <2> QED BY <1>5, <2>2, <2>3 DEF Prepares
<1> QED BY <1>3, <1>4, <1>5, StepWorks

(* While others wait, no step changes which operation they wait for.            *)
LEMMA WaitingSteps ==
    ASSUME Typed, Waiting, [Next]_vars PROVE type' = type /\ creating' = creating
<1>1. \A a : ~BeginCreation(a)
  BY DEF Waiting, BeginCreation
<1>2. \A kind : ~BeginPreparation(kind)
  BY DEF Waiting, BeginPreparation
<1>3. creating' = creating
  <2>1. CASE Creates
    BY <1>1, <2>1 DEF Creates, BootstrapSteps, CreationFails, CreatorSteps, CreatorJournals,
         CreatorPlaces, CreatorCommits, CreatorReturns, CreatorAt, WithdrawalAnnounces,
         WithdrawalChanges, WithdrawalRecords, WithdrawalPasses, WithdrawalCommits,
         WithdrawalReturns, WithdrawsOn, CompletionAnnounces, CompletionChanges,
         CompletionRecords, CompletionCommits, CompletionUnmarks, CompletionReturns,
           CompletesAt,
         BeginBootstrapRecovery, creation_vars
  <2>2. CASE UNCHANGED creation_vars
    BY <2>2 DEF creation_vars
  <2> QED BY <2>1, <2>2, StepWorks
<1>4. type' = type
  <2>1. CASE Prepares
    BY <1>2, <2>1 DEF Prepares, PrepareSteps, PreparerSteps, PreparerNotes, PreparerFills,
         PreparerAnnounces, PreparerChanges, PreparerUnlinks, Unlink, PreparerRecords,
           PreparerAt, RepairSteps,
         RepairAnnounces, RepairChanges, RepairRefuses, RepairUnlinks, RepairRecords,
           RepairPasses, RepairsOn,
         EndSteps, EndCommits, EndMarks, EndClears, EndRefuses, EndReceipts,
         EndDropsJournal, EndDropsMarker, Ending, PreparationFails, DropMarkedReceipt,
           BeginRepair,
         preparation_vars
  <2>2. CASE UNCHANGED preparation_vars
    BY <2>2 DEF preparation_vars
  <2> QED BY <2>1, <2>2, StepWorks
<1> QED BY <1>3, <1>4

(* Which layouts an operation leaves, by what it worked on.                    *)
SettledOutcomes ==
    /\ type # "none" =>
          SettledLayout = IF part[Pointer] = "published" THEN "prepared" ELSE "generation"
    /\ type = "none" /\ creating = "root" => SettledLayout \in {"empty", "root"}
    /\ type = "none" /\ creating = "intermediate" => SettledLayout \in {"root", "generation"}
    /\ type = "none" /\ Legacy => SettledLayout \in {"legacy", "generation"}

(* They follow from the invariants of what rests.                             *)
LEMMA SettledIs == CompositionInv /\ NoUnresolvedState => SettledOutcomes
<1> SUFFICES ASSUME CompositionInv, NoUnresolvedState PROVE SettledOutcomes
  OBVIOUS
<1>1. MigrationTyped /\ CreationRests /\ Rests /\ Worlds /\ Beginning
  BY DEF CompositionInv, Typed, MigrationInv, CreationInv
<1>2. ~InCreation /\ ~InMigration
  BY NothingUnresolved
<1>3. NothingCreated \/ RootCreated \/ PairCreated
  BY <1>1, <1>2 DEF CreationRests
<1>4. AsFound \/ AllFinal
  BY <1>1, <1>2 DEF Rests
<1>5. Manifests("absent", "absent") => CreatedLayout = "empty"
  BY DEF Manifests, CreatedLayout
<1>6. Manifests("published", "absent") => CreatedLayout = "root"
  BY DEF Manifests, CreatedLayout
<1>7. Manifests("absent", "published") => CreatedLayout = "generation"
  BY DEF Manifests, CreatedLayout
<1>8. type = "none" => part[Pointer] # "published"
  BY <1>1, PartObjects DEF Worlds, Unprepared
<1>9. creating \in Authorities => Fresh
  BY <1>1 DEF Worlds, Legacy, Authorities
<1>10. ASSUME type # "none"
       PROVE  SettledLayout = IF part[Pointer] = "published" THEN "prepared" ELSE "generation"
  <2>1. (Fresh /\ PairCreated) \/ (Legacy /\ AllFinal)
    BY <1>1, <1>10 DEF Worlds, Settled
  <2> QED BY <1>1, <1>7, <2>1, LayoutIs DEF PairCreated, PairFinal, SettledLayout
<1>11. ASSUME type = "none", creating = "root" PROVE SettledLayout \in {"empty", "root"}
  <2>1. Layout = "empty"
    BY <1>1, <1>9, <1>11, LayoutIs DEF Authorities
  <2>2. ~PairCreated
    BY <1>1, <1>11 DEF Beginning, PairCreated, PairFinal, Manifests
  <2> QED BY <1>3, <1>5, <1>6, <1>8, <1>11, <2>1, <2>2
          DEF SettledLayout, NothingCreated, RootCreated
<1>12. ASSUME type = "none", creating = "intermediate"
       PROVE  SettledLayout \in {"root", "generation"}
  <2>1. Layout = "empty"
    BY <1>1, <1>9, <1>12, LayoutIs DEF Authorities
  <2>2. ~NothingCreated
    BY <1>1, <1>12 DEF Beginning, NothingCreated, Missing, Whole
  <2> QED BY <1>3, <1>6, <1>7, <1>8, <1>12, <2>1, <2>2
          DEF SettledLayout, RootCreated, PairCreated, PairFinal
<1>13. ASSUME type = "none", Legacy PROVE SettledLayout \in {"legacy", "generation"}
  BY <1>1, <1>4, <1>8, <1>13, LayoutIs DEF SettledLayout
<1> QED BY <1>10, <1>11, <1>12, <1>13 DEF SettledOutcomes

(* Nothing found and nothing created means that no command ever worked.        *)
LEMMA UntouchedAtFirst == Init => Untouched
<1> SUFFICES ASSUME Init PROVE Untouched
  OBVIOUS
<1>1. process = Idle /\ journal = NoJournal /\ ~marker
  BY DEF Init
<1> QED BY <1>1, IdleTyped DEF Untouched, Waiting, Running, NoUnresolvedState

(* A command begins only on what was found or created, or creates.             *)
LEMMA UntouchedKept ==
    ASSUME CompositionInv, CompositionInv', Untouched, [Next]_vars PROVE Untouched'
<1>1. /\ Typed /\ Worlds /\ CreationInv /\ MigrationInv /\ MigrationInv' /\ MigrationTyped
      /\ JournalTyped
  BY DEF CompositionInv, Typed
<1> SUFFICES ASSUME Fresh', creating' = "none" PROVE ~Waiting'
  BY DEF Untouched
<1>2. place' = place
  <2>1. place'[Tree("root")] = "none"
    BY MigrationObjects DEF Fresh, Unfounded, Tree, Objects, Authorities
  <2>2. process'.operation # "legacy-migrate"
    BY <1>1, <2>1 DEF MigrationInv, Grounded, Authorities
  <2> QED BY <1>1, <2>2, FoundStays
<1>3. Fresh
  BY <1>2 DEF Fresh, Unfounded
<1>4. ASSUME Waiting PROVE FALSE
  <2>1. creating = "none"
    BY <1>1, <1>4, WaitingSteps
  <2> QED BY <1>3, <1>4, <2>1 DEF Untouched
<1>5. CASE \E a \in Authorities : BeginCreation(a)
  BY <1>5 DEF BeginCreation, Authorities
<1>6. CASE BeginMigration
  BY <1>1, <1>3, <1>6, LayoutIs DEF BeginMigration
<1>7. CASE \E kind \in Types : BeginPreparation(kind) /\ Founded
                               /\ UNCHANGED << creation_vars, migration_vars >>
  <2>1. creating = "none"
    BY <1>7 DEF creation_vars
  <2>2. made[ActiveManifest] = "absent"
    BY <1>1, <2>1 DEF CreationInv, Beginning
  <2> QED BY <1>1, <1>3, <1>7, <2>2, LayoutIs DEF Founded
<1>8. CASE /\ UNCHANGED << journal, marker, creation_vars, migration_vars, preparation_vars >>
           /\ process' = Idle \/ process' = process
  BY <1>4, <1>8, IdleTyped DEF Waiting, Running, NoUnresolvedState, TerminalHistory,
     TerminalBootstrap, TerminalMigration
<1> QED BY <1>1, <1>4, <1>5, <1>6, <1>7, <1>8, AdmittedSteps

(* What others wait for is work on what was created or found.                  *)
LEMMA WaitingFor ==
    ASSUME CompositionInv, Untouched, Waiting, type = "none"
    PROVE  creating \in Authorities \/ (creating = "none" /\ Legacy)
<1>1. creating \in Authorities \cup {"none"} /\ (Fresh \/ Legacy)
  BY DEF CompositionInv, Typed, CreationTyped, Worlds
<1> QED BY <1>1 DEF Untouched

(* A command begins from the layout it changes.                                *)
LEMMA BeginningsVisible ==
    ASSUME CompositionInv, ~Waiting, Waiting', [Next]_vars
    PROVE  [Visible!Next]_VisibleLayout
<1>1. Typed /\ Worlds /\ MigrationTyped
  BY DEF CompositionInv, Typed
<1>2. VisibleLayout = SettledLayout /\ VisibleLayout' = WorkingLayout' /\ NoUnresolvedState
  BY DEF VisibleLayout, Waiting
<1>3. type = "none" => part[Pointer] # "published"
  BY <1>1, PartObjects DEF Worlds, Unprepared
<1>4. ASSUME NEW a \in Authorities, BeginCreation(a), Layout = "empty", Creates,
             UNCHANGED << migration_vars, preparation_vars >>
      PROVE  Visible!Next
  <2>1. type = "none" /\ type' = "none" /\ creating' = a /\ Creatable(a)
    BY <1>1, <1>4, SettledSpared DEF Worlds, BeginCreation, preparation_vars
  <2>2. SettledLayout = CreatedLayout
    BY <1>3, <1>4, <2>1 DEF SettledLayout
  <2>3. CASE a = "root"
    <3>1. RootManifest \in Own("root") /\ ActiveManifest \in Own("intermediate")
      BY DEF Own
    <3>2. made[RootManifest] = "absent" /\ made[ActiveManifest] = "absent"
      BY <2>1, <2>3, <3>1 DEF Creatable
    <3>3. SettledLayout = "empty" /\ WorkingLayout' = "creating root"
      BY <2>1, <2>2, <2>3, <3>2 DEF CreatedLayout, WorkingLayout
    <3> QED BY <1>2, <3>3 DEF Visible!Next, Visible!Operation
  <2>4. CASE a = "intermediate"
    <3>1. made[ActiveManifest] = "absent" /\ made[RootManifest] = "published"
      BY <2>1, <2>4 DEF Creatable
    <3>2. SettledLayout = "root" /\ WorkingLayout' = "creating intermediate"
      BY <2>1, <2>2, <2>4, <3>1 DEF CreatedLayout, WorkingLayout
    <3> QED BY <1>2, <3>2 DEF Visible!Next, Visible!Operation
  <2> QED BY <2>3, <2>4 DEF Authorities
<1>5. ASSUME BeginMigration, UNCHANGED << creation_vars, preparation_vars >> PROVE Visible!Next
  <2>1. Layout = "legacy"
    BY <1>5 DEF BeginMigration
  <2>2. creating = "none"
    BY <1>1, <2>1, LayoutIs DEF Worlds, Legacy
  <2>3. type = "none"
    BY <1>1, <2>1, LayoutIs DEF Worlds, Settled
  <2>4. type' = "none" /\ creating' = "none"
    BY <1>5, <2>2, <2>3 DEF creation_vars, preparation_vars
  <2>5. SettledLayout = "legacy" /\ WorkingLayout' = "migrating"
    BY <1>3, <2>1, <2>3, <2>4 DEF SettledLayout, WorkingLayout
  <2> QED BY <1>2, <2>5 DEF Visible!Next, Visible!Operation
<1>6. ASSUME NEW kind \in Types, BeginPreparation(kind), Founded PROVE Visible!Next
  <2>1. part[Pointer] = "absent" /\ type' = kind /\ kind # "none"
    BY <1>6 DEF BeginPreparation, Types
  <2>2. SettledLayout = "generation"
    <3>1. (Fresh /\ PairCreated) \/ (Legacy /\ AllFinal)
      BY <1>6, PreparationFounded DEF CompositionInv
    <3>2. PairCreated => CreatedLayout = "generation"
      BY DEF PairCreated, PairFinal, Manifests, CreatedLayout
    <3> QED BY <1>1, <2>1, <3>1, <3>2, LayoutIs DEF SettledLayout
  <2>3. WorkingLayout' = "preparing"
    BY <2>1 DEF WorkingLayout
  <2> QED BY <1>2, <2>2, <2>3 DEF Visible!Next, Visible!Operation
<1>7. CASE /\ UNCHANGED << journal, marker, creation_vars, migration_vars, preparation_vars >>
           /\ process' = Idle \/ process' = process
  BY <1>7, IdleTyped DEF Waiting, Running, NoUnresolvedState, TerminalHistory,
     TerminalBootstrap, TerminalMigration
<1> QED BY <1>1, <1>4, <1>5, <1>6, <1>7, AdmittedSteps

(* A command, or the recovery that ends it, leaves the layout it began from or  *)
(* its own.                                                                  *)
LEMMA EndingsVisible ==
    ASSUME CompositionInv, Untouched, Waiting, [Next]_vars, CompositionInv', ~Waiting'
    PROVE  Visible!Next
<1>1. Typed /\ type \in Types \cup {"none"}
  BY DEF CompositionInv, Typed, PreparationTyped
<1>2. type' = type /\ creating' = creating
  BY <1>1, WaitingSteps
<1>3. VisibleLayout = WorkingLayout /\ VisibleLayout' = SettledLayout' /\ NoUnresolvedState'
  BY DEF VisibleLayout, Waiting
<1>4. SettledOutcomes'
  <2>1. (CompositionInv /\ NoUnresolvedState)'
    BY <1>3
  <2> QED BY <2>1, SettledIs, PTL
<1>5. CASE type # "none"
  BY <1>2, <1>3, <1>4, <1>5 DEF SettledOutcomes, WorkingLayout, Visible!Next, Visible!Operation
<1>6. CASE type = "none" /\ creating = "root"
  BY <1>2, <1>3, <1>4, <1>6 DEF SettledOutcomes, WorkingLayout, Visible!Next, Visible!Operation
<1>7. CASE type = "none" /\ creating = "intermediate"
  BY <1>2, <1>3, <1>4, <1>7 DEF SettledOutcomes, WorkingLayout, Visible!Next, Visible!Operation
<1>8. CASE type = "none" /\ creating = "none" /\ Legacy
  <2>1. Legacy'
    <3>1. place' = place \/ \A a \in Authorities : place'[Tree(a)] # "none"
      <4>1. MigrationInv /\ MigrationInv'
        BY DEF CompositionInv
      <4> QED BY <1>1, <4>1, FoundStays DEF MigrationInv, Grounded
    <3> QED BY <1>2, <1>8, <3>1 DEF Legacy
  <2> QED BY <1>2, <1>3, <1>4, <1>8, <2>1
      DEF SettledOutcomes, WorkingLayout, Visible!Next, Visible!Operation
<1> QED BY <1>1, <1>5, <1>6, <1>7, <1>8, WaitingFor DEF Authorities

(* Every step is a step of the layout or changes nothing that others see.      *)
LEMMA LayoutStep ==
    CompositionInv /\ Untouched /\ [Next]_vars /\ CompositionInv' => [Visible!Next]_VisibleLayout
<1> SUFFICES ASSUME CompositionInv, Untouched, [Next]_vars, CompositionInv'
             PROVE  [Visible!Next]_VisibleLayout
  OBVIOUS
<1>1. CASE ~Waiting /\ Waiting'
  BY <1>1, BeginningsVisible
<1>2. CASE Waiting /\ ~Waiting'
  BY <1>2, EndingsVisible
<1>3. CASE Waiting /\ Waiting'
  <2>1. type' = type /\ creating' = creating
    BY <1>3, WaitingSteps DEF CompositionInv
  <2>2. VisibleLayout = WorkingLayout /\ VisibleLayout' = WorkingLayout'
    BY <1>3 DEF VisibleLayout, Waiting
  <2> QED BY <2>1, <2>2 DEF WorkingLayout
<1>4. CASE ~Waiting /\ ~Waiting'
  <2>1. UNCHANGED << creation_vars, migration_vars, preparation_vars >>
    <3>1. \A a : ~BeginCreation(a)
      BY <1>4, BegunIs DEF BeginCreation, Waiting, Running
    <3>2. ~BeginMigration
      BY <1>4, BegunIs DEF BeginMigration, Waiting, Running
    <3>3. \A kind : ~BeginPreparation(kind)
      BY <1>4, BegunIs DEF BeginPreparation, Waiting, Running
    <3> QED BY <1>4, <3>1, <3>2, <3>3, AdmittedSteps DEF CompositionInv
  <2>2. made' = made /\ place' = place /\ part' = part
    BY <2>1 DEF creation_vars, migration_vars, preparation_vars
  <2>3. VisibleLayout = SettledLayout /\ VisibleLayout' = SettledLayout'
    BY <1>4 DEF VisibleLayout, Waiting
  <2> QED BY <2>2, <2>3 DEF SettledLayout, CreatedLayout, Layout, LegacyAny, GenerationAny
<1> QED BY <1>1, <1>2, <1>3, <1>4

(* At first there is nothing, or what was found.                               *)
LEMMA LayoutAtFirst == Init => Visible!Init
<1> SUFFICES ASSUME Init PROVE Visible!Init
  OBVIOUS
<1>1. CompositionInv /\ Untouched
  BY CompositionStarts, UntouchedAtFirst
<1>2. process = Idle /\ journal = NoJournal /\ ~marker /\ type = "none" /\ creating = "none"
      /\ place \in {Unmigrated, Unfounded}
  BY DEF Init
<1>3. ~Running /\ NoUnresolvedState
  BY <1>2, IdleTyped DEF Running, NoUnresolvedState
<1>4. MigrationTyped /\ Worlds /\ Beginning /\ Rests
  BY <1>1 DEF CompositionInv, Typed, CreationInv, MigrationInv
<1>5. part[Pointer] # "published"
  BY <1>2, <1>4, PartObjects DEF Worlds, Unprepared
<1>6. CreatedLayout = "empty"
  BY <1>2, <1>4 DEF Beginning, NothingCreated, Manifests, CreatedLayout
<1>7. CASE Fresh
  BY <1>3, <1>4, <1>5, <1>6, <1>7, LayoutIs DEF VisibleLayout, SettledLayout, Visible!Init
<1>8. CASE Legacy
  <2>1. AsFound
    BY <1>2 DEF AsFound, Unmigrated, Unfounded
  <2>2. Layout = "legacy"
    BY <1>4, <1>8, <2>1, LayoutIs
  <2> QED BY <1>3, <1>5, <2>2 DEF VisibleLayout, SettledLayout, Visible!Init
<1> QED BY <1>4, <1>7, <1>8 DEF Worlds

(* Creation, migration, preparation and all their recoveries implement          *)
(* CaLayout: other commands see the layout change at once or not at all.        *)
THEOREM LayoutImplemented == Spec => ImplementsLayout
<1> DEFINE Inv == CompositionInv /\ Untouched
<1>1. Init => Inv
  BY CompositionStarts, UntouchedAtFirst
<1>2. Inv /\ [Next]_vars => Inv'
  BY CompositionKept, UntouchedKept
<1>3. Inv /\ [Next]_vars => [Visible!Next]_VisibleLayout
  BY CompositionKept, LayoutStep
<1> QED BY <1>1, <1>2, <1>3, LayoutAtFirst, PTL DEF Spec, ImplementsLayout, Visible!Spec

------------------------------------------------------------------------------
(* Where the journals and the places of a creation are in its plan.            *)

(* The phases of the last cleanup of an intermediate.                          *)
CleanupPhases == {"cleanup-pending", "cleanup-done"}

(* What publishes an authority, in which order, writes no journal of a cleanup. *)
PublicationEntries ==
    {Journaled(phase) : phase \in CreationPhases \ (CleanupPhases \cup {"root-db-pending"})}
        \cup {Placed(Authority(creating), "published"), Placed(Grant(creating), "consumed")}
        \cup {Placed(RootEntry(k), "after") : k \in Keys \ Kept}
        \cup (IF creating = "intermediate" THEN {Journaled("root-db-pending")} ELSE {})

LEMMA PublicationOrder ==
    ASSUME creating \in Authorities
    PROVE  /\ AuthorityPublication \in Seq(PublicationEntries)
           /\ Len(AuthorityPublication) \in Nat /\ Len(AuthorityPublication) > 4
           /\ AuthorityPublication[1] = Placed(Authority(creating), "published")
           /\ AuthorityPublication[Len(AuthorityPublication)] = Journaled("reservation-consumed")
<1> DEFINE first == << Placed(Authority(creating), "published"), Journaled("authority-published") >>
           last == << Journaled("reservation-consume-pending"), Placed(Grant(creating), "consumed"),
                      Journaled("reservation-consumed") >>
           begin == << Journaled("root-db-pending") >>
           end == << Journaled("root-db-published") >>
           S == PublicationEntries
<1>1. /\ \A p \in {"authority-published", "reservation-consume-pending", "reservation-consumed",
                   "root-entry-pending", "root-entry-done", "root-db-published"} : Journaled(p) \in S
      /\ Placed(Authority(creating), "published") \in S /\ Placed(Grant(creating), "consumed") \in S
      /\ \A k \in Keys \ Kept : Placed(RootEntry(k), "after") \in S
      /\ creating = "intermediate" => Journaled("root-db-pending") \in S
  BY DEF CreationPhases, CleanupPhases, PublicationEntries
<1>2. first \in Seq(S) /\ Len(first) = 2 /\ first[1] = Placed(Authority(creating), "published")
      /\ last \in Seq(S) /\ Len(last) = 3 /\ last[3] = Journaled("reservation-consumed")
      /\ << >> \in Seq(S) /\ end \in Seq(S) /\ (creating = "intermediate" => begin \in Seq(S))
  BY <1>1
<1>3. RootEntries \in Seq(S)
  <2>1. Len(DatabaseKeys) \in Nat /\ \A j \in 1 .. Len(DatabaseKeys) : DatabaseKeys[j] \in Keys \ Kept
    BY DatabaseFacts
  <2> DEFINE m == Len(DatabaseKeys)
  <2> HIDE DEF S, m
  <2>2. m \in Nat /\ 3 * m \in Nat
    BY <2>1 DEF m
  <2>3. ASSUME NEW n \in 1 .. 3 * m
        PROVE  CASE n % 3 = 1 -> Journaled("root-entry-pending") \in S
                 [] n % 3 = 2 -> Placed(RootEntry(DatabaseKeys[n \div 3 + 1]), "after") \in S
                 [] OTHER -> Journaled("root-entry-done") \in S
    <3>1. CASE n % 3 = 2
      <4>1. n \div 3 + 1 \in 1 .. m
        BY <2>2, <3>1
      <4> QED BY <1>1, <2>1, <3>1, <4>1 DEF m
    <3> QED BY <1>1, <3>1
  <2>4. RootEntries \in [1 .. 3 * m -> S]
    BY <2>3 DEF RootEntries, m
  <2> QED BY <2>2, <2>4, Tabulated
<1> HIDE DEF first, last, begin, end, S
<1>4. PICK middle \in Seq(S) : AuthorityPublication = (first \o middle) \o last
  <2>1. CASE creating = "root"
    BY <1>2, <2>1 DEF AuthorityPublication, ForIntermediate, first, last
  <2>2. CASE creating = "intermediate"
    <3>1. begin \o RootEntries \in Seq(S)
      BY <1>2, <1>3, <2>2
    <3>2. (begin \o RootEntries) \o end \in Seq(S)
      BY <1>2, <3>1
    <3> QED BY <2>2, <3>2 DEF AuthorityPublication, ForIntermediate, first, last, begin, end
  <2> QED BY <2>1, <2>2 DEF Authorities
<1>5. Joins(first \o middle, S, first, middle) /\ first \o middle \in Seq(S)
  BY <1>2, Joined
<1>6. Joins(AuthorityPublication, S, first \o middle, last)
  BY <1>2, <1>4, <1>5, Joined
<1>7. Len(middle) \in Nat /\ Len(first \o middle) = 2 + Len(middle)
      /\ (first \o middle)[1] = first[1]
  BY <1>2, <1>5 DEF Joins
<1> DEFINE two == first \o middle
<1> HIDE DEF two
<1>8. Joins(AuthorityPublication, S, two, last) /\ Len(two) = 2 + Len(middle) /\ two[1] = first[1]
  BY <1>6, <1>7 DEF two
<1>9. /\ AuthorityPublication \in Seq(S) /\ Len(AuthorityPublication) = 5 + Len(middle)
      /\ AuthorityPublication[1] = first[1]
      /\ AuthorityPublication[5 + Len(middle)] = last[3]
  <2>1. 1 \in 1 .. Len(two) /\ 3 \in 1 .. Len(last) /\ Len(two) + 3 = 5 + Len(middle)
    BY <1>2, <1>7, <1>8
  <2> QED BY <1>2, <1>7, <1>8, <2>1 DEF Joins
<1> QED BY <1>2, <1>7, <1>9 DEF S

(* The journal that a place follows, and that follows a place.                 *)
OwnManifest == IF creating = "root" THEN RootManifest ELSE ActiveManifest
LEMMA CreationOrder ==
    ASSUME creating \in Authorities
    PROVE  /\ IsStaged \in Nat /\ IsPublished \in Nat /\ Len(CreationPlan) \in Nat
           /\ IsStaged = (IF creating = "root" THEN 5 ELSE 6)
           /\ IsStaged + 1 < IsPublished /\ IsPublished + 1 < Len(CreationPlan)
           /\ CreationPlan[1] = Journaled("prepared") /\ CreationPlan[3] = Journaled("reserved")
           /\ CreationPlan[5] = Journaled("staged")
           /\ CreationPlan[2] = Placed(Grant(creating), "reserved")
           /\ CreationPlan[4] = Placed(Room(creating), "published")
           /\ creating = "intermediate" => CreationPlan[6] = Placed(KeyCopy, "published")
           /\ CreationPlan[IsStaged + 1] = Placed(Authority(creating), "published")
           /\ CreationPlan[IsPublished] = Journaled("reservation-consumed")
           /\ CreationPlan[IsPublished + 1] = Placed(OwnManifest, "published")
           /\ creating = "intermediate" => /\ IsPublished + 3 < Len(CreationPlan)
                                           /\ CreationPlan[IsPublished + 3] = Placed(RootManifest, "absent")
           /\ \A i \in 1 .. Len(CreationPlan) : CreationPlan[i].kind = "journal" =>
                 /\ CreationPlan[i].phase = "root-db-pending" => creating = "intermediate" /\ i > 5
                 /\ CreationPlan[i].phase \in CleanupPhases =>
                       creating = "intermediate" /\ i > IsPublished + 3
<1>1. /\ CreationStaging \in Seq(CreationEntries)
      /\ Len(CreationStaging) = IF creating = "root" THEN 5 ELSE 6
      /\ CreationStaging[1] = Journaled("prepared") /\ CreationStaging[3] = Journaled("reserved")
      /\ CreationStaging[5] = Journaled("staged")
      /\ CreationStaging[2] = Placed(Grant(creating), "reserved")
      /\ CreationStaging[4] = Placed(Room(creating), "published")
      /\ creating = "intermediate" => CreationStaging[6] = Placed(KeyCopy, "published")
  BY CreationStagingIs
<1>2. /\ \A phase : Journaled(phase).kind = "journal" /\ Journaled(phase).phase = phase
      /\ \A o, to : Placed(o, to).kind = "place"
  BY DEF Journaled, Placed
<1> DEFINE M == ManifestPublication
           A == AuthorityPublication
           C == CreationStaging
           F == CreationEntries \cup PublicationEntries \cup Journals \cup Finals(ManifestObjects)
<1>3. M \in Seq(F) /\ C \in Seq(F) /\ A \in Seq(F)
  BY <1>1, PublicationOrder, ManifestIsPut DEF Consists
<1>4. Joins(C \o A, F, C, A) /\ C \o A \in Seq(F)
  BY <1>3, Joined
<1>5. Joins(CreationPlan, F, C \o A, M)
  <2>1. CreationPlan = (C \o A) \o M
    BY DEF CreationPlan
  <2> QED BY <1>3, <1>4, <2>1, Joined
<1>6. /\ Len(M) = IF creating = "root" THEN 2 ELSE 6
      /\ M[1] = Placed(OwnManifest, "published")
      /\ creating = "intermediate" => M[3] = Placed(RootManifest, "absent")
      /\ creating = "root" => M[2] = Journaled("bootstrap-published")
      /\ creating = "intermediate" => M[2] = Journaled("active-published")
  BY DEF ManifestPublication, OwnManifest, Authorities
<1>7. Len(A) \in Nat /\ Len(A) > 4 /\ A[1] = Placed(Authority(creating), "published")
      /\ A[Len(A)] = Journaled("reservation-consumed") /\ A \in Seq(PublicationEntries)
  BY PublicationOrder
<1>8. IsStaged = Len(C) /\ IsPublished = Len(C) + Len(A)
  BY DEF IsStaged, IsPublished
<1> DEFINE CA == C \o A
<1> HIDE DEF M, A, C, F, CA
<1>9. Joins(CA, F, C, A) /\ Joins(CreationPlan, F, CA, M) /\ Len(CA) = Len(C) + Len(A)
      /\ Len(C) \in Nat /\ Len(M) \in Nat /\ Len(CA) \in Nat
      /\ Len(CreationPlan) = Len(CA) + Len(M)
  <2>1. Joins(CA, F, C, A) /\ Joins(CreationPlan, F, CA, M)
    BY <1>4, <1>5 DEF CA
  <2>2. Len(C) \in Nat /\ Len(M) \in Nat
    BY <1>1, <1>6 DEF C
  <2> QED BY <1>7, <2>1, <2>2 DEF Joins
<1>10. /\ \A i \in 1 .. Len(C) : CreationPlan[i] = C[i]
       /\ \A i \in 1 .. Len(A) : CreationPlan[Len(C) + i] = A[i]
       /\ \A i \in 1 .. Len(M) : CreationPlan[Len(C) + Len(A) + i] = M[i]
  <2>1. ASSUME NEW i \in 1 .. Len(C) PROVE CreationPlan[i] = C[i]
    BY <1>7, <1>9 DEF Joins
  <2>2. ASSUME NEW i \in 1 .. Len(A) PROVE CreationPlan[Len(C) + i] = A[i]
    <3>1. Len(C) + i \in 1 .. Len(CA)
      BY <1>7, <1>9
    <3> QED BY <1>9, <3>1 DEF Joins
  <2>3. ASSUME NEW i \in 1 .. Len(M) PROVE CreationPlan[Len(C) + Len(A) + i] = M[i]
    BY <1>7, <1>9 DEF Joins
  <2> QED BY <2>1, <2>2, <2>3
<1>11. /\ IsStaged \in Nat /\ IsPublished \in Nat /\ Len(CreationPlan) \in Nat
       /\ IsStaged = (IF creating = "root" THEN 5 ELSE 6)
       /\ IsStaged + 1 < IsPublished
       /\ IsPublished + Len(M) = Len(CreationPlan)
  BY <1>1, <1>6, <1>7, <1>8, <1>9 DEF C
<1>12. /\ CreationPlan[1] = Journaled("prepared") /\ CreationPlan[3] = Journaled("reserved")
       /\ CreationPlan[5] = Journaled("staged")
       /\ CreationPlan[2] = Placed(Grant(creating), "reserved")
       /\ CreationPlan[4] = Placed(Room(creating), "published")
       /\ creating = "intermediate" => CreationPlan[6] = Placed(KeyCopy, "published")
  BY <1>1, <1>10 DEF C, Authorities
<1>13. /\ CreationPlan[IsStaged + 1] = Placed(Authority(creating), "published")
       /\ CreationPlan[IsPublished] = Journaled("reservation-consumed")
       /\ CreationPlan[IsPublished + 1] = Placed(OwnManifest, "published")
       /\ CreationPlan[IsPublished + 2].kind = "journal"
       /\ CreationPlan[IsPublished + 2].phase \notin CleanupPhases \cup {"root-db-pending"}
       /\ creating = "intermediate" => CreationPlan[IsPublished + 3] = Placed(RootManifest, "absent")
  <2>1. 1 \in 1 .. Len(A) /\ Len(A) \in 1 .. Len(A) /\ 1 \in 1 .. Len(M) /\ 2 \in 1 .. Len(M)
        /\ (creating = "intermediate" => 3 \in 1 .. Len(M))
    BY <1>6, <1>7
  <2>2. CreationPlan[IsPublished + 2] \in {Journaled("bootstrap-published"), Journaled("active-published")}
    BY <1>6, <1>8, <1>10, <2>1 DEF Authorities
  <2>3. CreationPlan[IsPublished + 2].kind = "journal"
        /\ CreationPlan[IsPublished + 2].phase \notin CleanupPhases \cup {"root-db-pending"}
    BY <1>2, <2>2 DEF CleanupPhases
  <2>4. /\ CreationPlan[IsStaged + 1] = A[1] /\ CreationPlan[IsPublished] = A[Len(A)]
        /\ CreationPlan[IsPublished + 1] = M[1]
        /\ creating = "intermediate" => CreationPlan[IsPublished + 3] = M[3]
    BY <1>8, <1>10, <2>1
  <2> QED BY <1>6, <1>7, <2>3, <2>4
<1>14. ASSUME NEW i \in 1 .. Len(CreationPlan), CreationPlan[i].kind = "journal"
       PROVE  /\ CreationPlan[i].phase = "root-db-pending" => creating = "intermediate" /\ i > 5
              /\ CreationPlan[i].phase \in CleanupPhases =>
                    creating = "intermediate" /\ i > IsPublished + 3
  <2>1. CASE i <= Len(C)
    <3>1. i \in 1 .. 6 /\ (i = 6 => creating = "intermediate")
      BY <1>1, <1>9, <2>1 DEF C, Authorities
    <3> QED BY <1>2, <1>12, <1>14, <3>1 DEF CleanupPhases
  <2>2. CASE i > Len(C) /\ i <= Len(C) + Len(A)
    <3>1. i - Len(C) \in 1 .. Len(A) /\ Len(C) + (i - Len(C)) = i
      BY <1>7, <1>9, <2>2
    <3>2. CreationPlan[i] = A[i - Len(C)] /\ A[i - Len(C)] \in PublicationEntries
      BY <1>7, <1>10, <3>1
    <3>3. CreationPlan[i] \notin {Placed(Authority(creating), "published"), Placed(Grant(creating), "consumed")}
                                  \cup {Placed(RootEntry(k), "after") : k \in Keys \ Kept}
      BY <1>2, <1>14
    <3>4. \/ \E phase \in CreationPhases \ (CleanupPhases \cup {"root-db-pending"}) :
                CreationPlan[i] = Journaled(phase)
          \/ creating = "intermediate" /\ CreationPlan[i] = Journaled("root-db-pending")
      BY <3>2, <3>3 DEF PublicationEntries
    <3>5. i > 5
      BY <1>1, <1>9, <2>2 DEF C
    <3> QED BY <1>2, <3>4, <3>5 DEF CleanupPhases
  <2>3. CASE i > Len(C) + Len(A)
    <3>1. i - (Len(C) + Len(A)) \in 1 .. Len(M) /\ (Len(C) + Len(A)) + (i - (Len(C) + Len(A))) = i
      BY <1>7, <1>9, <2>3
    <3> DEFINE j == i - (Len(C) + Len(A))
    <3>2. j \in 1 .. Len(M) /\ IsPublished + j = i
      BY <1>8, <3>1
    <3>3. CreationPlan[i] = M[j]
      BY <1>8, <1>10, <3>1
    <3> HIDE DEF j
    <3>4. (j # 1 /\ j # 2) \/ CreationPlan[i].phase \notin CleanupPhases \cup {"root-db-pending"}
      BY <1>2, <1>13, <1>14, <3>2
    <3>5. creating = "root" => j \in {1, 2}
      BY <1>6, <3>2
    <3>6. creating = "intermediate" => j # 3
      BY <1>2, <1>13, <1>14, <3>2
    <3>7. CreationPlan[i].phase # "root-db-pending"
      <4>1. CASE creating = "intermediate"
        <5>1. M = << Placed(ActiveManifest, "published"), Journaled("active-published"),
                     Placed(RootManifest, "absent"), Journaled("cleanup-pending"),
                     Placed(KeyCopy, "absent"), Journaled("cleanup-done") >>
          BY <4>1 DEF ManifestPublication, M
        <5>2. j \in 1 .. 6
          BY <1>6, <3>2, <4>1
        <5> QED BY <1>2, <1>14, <3>3, <5>1, <5>2
      <4> QED BY <3>4, <3>5, <4>1 DEF Authorities
    <3>8. j > 3 => i > IsPublished + 3
      BY <1>11, <3>2
    <3> QED BY <3>2, <3>4, <3>5, <3>6, <3>7, <3>8, <1>6 DEF Authorities
  <2> QED BY <1>7, <1>9, <2>1, <2>2, <2>3
<1> QED BY <1>6, <1>11, <1>12, <1>13, <1>14

------------------------------------------------------------------------------
(* A recovery stays open.  Of a creation: what its journal does not name yet is  *)
(* in one of the windows in which it is stranded.                             *)

(* What is published before the journal that names it is written.             *)
Window(o) ==
    \/ o \in {RootManifest, ActiveManifest} /\ journal.phase = "reservation-consumed"
    \/ o = Authority("intermediate") /\ journal.phase = "staged"
OwnObjects == Own(creating) \ {Room(creating), KeyCopy}
OwnNamed == \A o \in OwnObjects : made[o] = "published" => Named(o)
OwnKnown ==
    InCreation =>
        /\ \A o \in OwnObjects : made[o] = "published" => Named(o) \/ Window(o)
        /\ Mutated # {} =>
              /\ creating = "intermediate"
              /\ \/ Named(Room("intermediate"))
                 \/ journal.phase = "recovering" /\ made[Room("intermediate")] = "absent"
        /\ journal.phase \in CleanupPhases => creating = "intermediate" /\ PairFinal

(* What the command knows of its journal and of the hidden directory.          *)
CreatorKnows ==
    Creating =>
        /\ process.at <= 5 => Mutated = {}
        /\ process.at > 1 /\ process.at <= Len(CreationPlan) + 1 =>
              /\ process.at <= IsStaged => journal.phase \notin CleanupPhases
              /\ creating = "intermediate" /\ process.at \in {6, 7} => journal.phase = "staged"
              /\ creating = "root" /\ process.at = 6 => Named(Authority("root"))
              /\ process.at = IsPublished + 1 => journal.phase = "reservation-consumed"
              /\ creating = "root" /\ process.at = 5 => made[Room("root")] = "published"
              /\ creating = "intermediate" /\ process.at > 4 => made[Room("intermediate")] = "published"

(* What a withdrawal and a completion know of their journal.                   *)
WithdrawerKnows ==
    Withdrawing =>
        /\ process.mark # "none" => journal.phase = "recovering"
        /\ ~Aborting /\ ~journal.committed => OwnNamed
        /\ Aborting /\ ~InCreation => Mutated = {}
CompleterKnows ==
    Completing =>
        /\ ~journal.committed => OwnNamed
        /\ process.mark = "done" => journal.step = Step("resume", KeyCopy, "done")

(* How a creation's journal is closed.                                        *)
CompletedLate == journal.step = Step("resume", KeyCopy, "done")
CreationClosed ==
    journal.operation \in Bootstraps /\ journal.committed =>
        CompletedLate \/ (TerminalBootstrap /\ Mutated = {})
CreationKnown ==
    OwnKnown /\ CreatorKnows /\ WithdrawerKnows /\ CompleterKnows /\ CreationClosed

------------------------------------------------------------------------------
(* Nothing is known at first.                                                 *)
LEMMA CreationKnownAtFirst == ASSUME Init PROVE CreationKnown
<1>1. journal.operation = "none" /\ process.command = "none"
  BY NoJournalTyped, IdleTyped DEF Init
<1> QED BY <1>1 DEF CreationKnown, OwnKnown, CreatorKnows, WithdrawerKnows, CompleterKnows,
        CreationClosed, InCreation, Creating, Withdrawing, Completing, Bootstraps, Actions

(* What the journal alone says.                                               *)
LEMMA SameJournal ==
    ASSUME journal' = journal
    PROVE  /\ \A o : Named(o)' <=> Named(o)
           /\ Mutated' = Mutated /\ (InCreation' <=> InCreation)
           /\ \A o : Window(o)' <=> Window(o)
           /\ (CreationClosed' <=> CreationClosed) /\ (CompletedLate' <=> CompletedLate)
<1>1. /\ \A o : Named(o)' <=> Named(o)
      /\ Mutated' = Mutated /\ (InCreation' <=> InCreation)
      /\ \A o : Window(o)' <=> Window(o)
  BY DEF Named, Mutated, InCreation, Window
<1> QED BY <1>1 DEF CreationClosed, CompletedLate, TerminalBootstrap

(* The objects of an authority that are not its hidden directory or the copy.   *)
LEMMA OwnObjectsAre ==
    ASSUME creating \in Authorities
    PROVE  /\ OwnObjects = {Authority(creating), OwnManifest}
           /\ \A o \in OwnObjects : /\ o \in Creations /\ o[1] \notin {"room", "key copy", "entry", "grant"}
                                    /\ o \in Own(creating)
           /\ creating' = creating => OwnObjects' = OwnObjects
<1>1. OwnObjects = {Authority(creating), OwnManifest}
  BY MadeObjects DEF OwnObjects, Own, OwnManifest, Authorities
<1>2. \A o \in OwnObjects : o \in Creations /\ o[1] \notin {"room", "key copy", "entry", "grant"}
  BY <1>1, MadeObjects DEF OwnManifest
<1>3. \A o \in OwnObjects : o \in Own(creating)
  BY DEF OwnObjects
<1> QED BY <1>1, <1>2, <1>3 DEF OwnObjects

(* The hidden directory goes, or nothing changes, under the same journal.       *)
LEMMA OwnKept ==
    ASSUME OwnKnown, creating' = creating, journal' = journal, creating \in Authorities \cup {"none"},
           InCreation => creating \in Authorities,
           made' = made \/ (creating \in Authorities /\ Lay(Room(creating), "absent"))
                        \/ Lay(KeyCopy, "absent")
    PROVE  OwnKnown' /\ (creating \in Authorities /\ OwnNamed => OwnNamed')
<1>1. \A o \in Creations : o[1] \notin {"room", "key copy"} => made'[o] = made[o]
  <2>1. CASE made' = made
    BY <2>1
  <2>2. CASE creating \in Authorities /\ Lay(Room(creating), "absent")
    BY <2>2, LayIs, MadeObjects
  <2>3. CASE Lay(KeyCopy, "absent")
    BY <2>3, LayIs, MadeObjects
  <2> QED BY <2>1, <2>2, <2>3
<1>2. made[Room("intermediate")] = "absent" => made'[Room("intermediate")] = "absent"
  <2>1. CASE made' = made
    BY <2>1
  <2>2. CASE creating \in Authorities /\ Lay(Room(creating), "absent")
    BY <2>2, LayIs, MadeObjects DEF Authorities
  <2>3. CASE Lay(KeyCopy, "absent")
    BY <2>3, LayIs, MadeObjects
  <2> QED BY <2>1, <2>2, <2>3
<1>3. ASSUME creating \in Authorities
      PROVE  \A o \in OwnObjects' : o \in OwnObjects /\ made'[o] = made[o]
  BY <1>1, <1>3, OwnObjectsAre
<1>4. PairFinal' <=> PairFinal
  <2>1. /\ \A a \in Authorities : /\ made'[Grant(a)] = made[Grant(a)]
                                  /\ made'[Authority(a)] = made[Authority(a)]
        /\ \A k \in Keys : made'[RootEntry(k)] = made[RootEntry(k)]
        /\ made'[RootManifest] = made[RootManifest] /\ made'[ActiveManifest] = made[ActiveManifest]
    BY <1>1, MadeObjects
  <2> QED BY <2>1 DEF PairFinal, Whole, Manifests, EntriesAre, Authorities
<1>5. creating \in Authorities /\ OwnNamed => OwnNamed'
  BY <1>3, SameJournal DEF OwnNamed
<1>6. OwnKnown'
  BY <1>2, <1>3, <1>4, SameJournal DEF OwnKnown
<1> QED BY <1>5, <1>6

(* A creation at work.                                                        *)
LEMMA Creates1 ==
    ASSUME Typed, Creating
    PROVE  /\ creating \in Authorities /\ process.operation = Operation(creating)
           /\ process.at \in Nat /\ process.at >= 1 /\ Len(CreationPlan) \in Nat
           /\ process \in ProcessType /\ journal \in JournalType
<1>1. creating \in Authorities /\ process.operation = Operation(creating) /\ process.at >= 1
  BY DEF Typed, Control, Creating
<1> QED BY <1>1, Lengths DEF Typed, JournalTyped, ProcessType

(* It begins: no journal that counts names an entry of the root.               *)
LEMMA CreationKnownBegun ==
    ASSUME Typed, MigrationInv, CreationKnown, Layout = "empty", NEW a \in Authorities, BeginCreation(a)
    PROVE  CreationKnown'
<1>1. /\ creating' = a /\ journal' = journal /\ ~Outstanding /\ NoUnresolvedState
      /\ process'.command = "create" /\ process'.at = 1
  BY BegunIs, BeginsResolved DEF BeginCreation, Typed
<1>2. ~InCreation' /\ ~Withdrawing' /\ ~Completing'
  BY <1>1 DEF InCreation, Outstanding, Withdrawing, Completing, Bootstraps
<1>3. journal.operation # "legacy-migrate"
  <2> SUFFICES ASSUME journal.operation = "legacy-migrate" PROVE FALSE
    OBVIOUS
  <2>1. place[Tree("root")] # "none" /\ place[Tree("root")] \in Places(Tree("root"))
    <3>1. Tree("root") \in Objects
      BY DEF Objects, Authorities
    <3> QED BY <3>1 DEF MigrationInv, Grounded, Typed, MigrationTyped, Authorities
  <2>2. place[Tree("root")] \in {"original", "published"}
    BY <2>1, MigrationObjects DEF Places, Authorities
  <2> QED BY <2>2 DEF Layout, GenerationAny, LegacyAny, Authorities
<1>4. Mutated = {}
  <2>1. CASE journal = NoJournal
    BY <2>1 DEF Mutated, NoJournal, NoEvidence
  <2>2. CASE journal # NoJournal
    <3>1. TerminalBootstrap
      BY <1>1, <1>3, <2>2 DEF NoUnresolvedState, TerminalHistory, TerminalMigration
    <3>2. ~CompletedLate
      BY <3>1 DEF TerminalBootstrap, CompletedLate, NoStep, Step
    <3> QED BY <3>1, <3>2 DEF CreationKnown, CreationClosed, TerminalBootstrap
  <2> QED BY <2>1, <2>2
<1> QED BY <1>1, <1>2, <1>4, SameJournal
        DEF CreationKnown, OwnKnown, CreatorKnows, WithdrawerKnows, CompleterKnows

(* The next journal of the command names what is published of its own.         *)
LEMMA CreatorKnowsNoted ==
    ASSUME Typed, CreationInv, CreationKnown, CreatorJournals PROVE CreationKnown'
<1> DEFINE n == process.at
           phase == CreationPlan[process.at].phase
           entries == IF phase = "prepared" THEN {} ELSE Mutating(phase)
<1>1. /\ Creating /\ creating' = creating /\ made' = made /\ creating \in Authorities
      /\ n \in Nat /\ n >= 1 /\ n <= Len(CreationPlan) /\ CreationPlan[n].kind = "journal"
      /\ journal' = Bootstrap(phase, entries)
      /\ process'.at = n + 1 /\ process'.command = "create" /\ process \in ProcessType
  BY Creates1 DEF CreatorJournals, CreatorAt, Creating, ProcessType
<1>2. n \in 1 .. Len(CreationPlan) /\ phase \in CreationPhases
  <2>1. Len(CreationPlan) \in Nat /\ CreationPlan \in Seq(CreationEntries)
    BY <1>1, CreationPlanIs
  <2> QED BY <1>1, <2>1, CreationEntryKinds
<1>3. entries \in SUBSET Creations
  BY MutatedTyped DEF Typed
<1>4. /\ journal'.operation = Operation(creating) /\ journal'.phase = phase
      /\ journal'.committed = FALSE /\ journal'.evidence.known = Witnessed(entries)
  <2>1. phase \in Phases
    BY <1>2 DEF Phases
  <2> QED BY <1>1, <1>3, <2>1, BootstrapTyped DEF Typed
<1>5. /\ IsStaged \in Nat /\ IsPublished \in Nat
      /\ IsStaged = (IF creating = "root" THEN 5 ELSE 6)
      /\ IsStaged + 1 < IsPublished /\ IsPublished + 1 < Len(CreationPlan)
      /\ CreationPlan[1] = Journaled("prepared") /\ CreationPlan[3] = Journaled("reserved")
      /\ CreationPlan[5] = Journaled("staged")
      /\ CreationPlan[2].kind = "place" /\ CreationPlan[4].kind = "place"
      /\ creating = "intermediate" => CreationPlan[6].kind = "place"
      /\ CreationPlan[IsPublished].phase = "reservation-consumed"
      /\ phase = "root-db-pending" => creating = "intermediate" /\ n > 5
      /\ phase \in CleanupPhases => creating = "intermediate" /\ n > IsPublished + 3
  <2>1. /\ \A p : Journaled(p).kind = "journal" /\ Journaled(p).phase = p
        /\ \A o, to : Placed(o, to).kind = "place"
    BY DEF Placed, Journaled
  <2>2. phase = "root-db-pending" => creating = "intermediate" /\ n > 5
    BY <1>1, <1>2, CreationOrder
  <2>3. phase \in CleanupPhases => creating = "intermediate" /\ n > IsPublished + 3
    BY <1>1, <1>2, CreationOrder
  <2>4. CreationPlan[2].kind = "place" /\ CreationPlan[4].kind = "place"
        /\ (creating = "intermediate" => CreationPlan[6].kind = "place")
    BY <1>1, <2>1, CreationOrder
  <2>5. CreationPlan[IsPublished].phase = "reservation-consumed"
    BY <1>1, <2>1, CreationOrder
  <2> QED BY <1>1, <2>2, <2>3, <2>4, <2>5, CreationOrder
<1>6. n # 2 /\ n # 4 /\ (creating = "intermediate" => n # 6)
  BY <1>1, <1>5
<1>7. /\ n = 1 => phase = "prepared"
      /\ n = 3 => phase = "reserved"
      /\ n = 5 => phase = "staged"
  BY <1>5 DEF Journaled
<1> HIDE DEF n, phase, entries
<1>8. n > 1 => InCreation
  <2>1. n > 1 => process.at > 1 /\ process.at <= Len(CreationPlan) + 1
    BY <1>1, <1>5 DEF n
  <2> QED BY <1>1, <2>1 DEF CreationInv, CreatorInv
<1>9. /\ n <= 5 => Mutated = {}
      /\ n > 1 => /\ creating = "root" /\ n = 5 => made[Room("root")] = "published"
                  /\ creating = "intermediate" /\ n > 4 => made[Room("intermediate")] = "published"
  <2>1. n > 1 => process.at > 1 /\ process.at <= Len(CreationPlan) + 1
    BY <1>1, <1>5 DEF n
  <2> QED BY <1>1, <2>1 DEF CreationKnown, CreatorKnows, n
<1>10. \A o \in OwnObjects : made[o] = "published" => o \in Witnessed(entries)
  BY <1>1, OwnObjectsAre DEF Witnessed
<1>11. /\ entries = {} \/ (phase = "root-db-pending" /\ creating = "intermediate" /\ n > 5) \/ entries = Mutated
       /\ Mutated' = {o \in entries : o[1] = "entry"}
  <2>1. entries = {} \/ (phase = "root-db-pending" /\ creating = "intermediate" /\ n > 5) \/ entries = Mutated
    BY <1>5 DEF entries, Mutating
  <2>2. \A o \in Witnessed({}) : o[1] # "entry"
    BY <1>1, MadeObjects DEF Witnessed, Own
  <2>3. Witnessed(entries) = Witnessed({}) \cup entries
    BY DEF Witnessed
  <2> QED BY <1>4, <2>1, <2>2, <2>3 DEF Mutated
<1>12. Mutated' # {} => creating = "intermediate" /\ n > 5
  <2> SUFFICES ASSUME Mutated' # {}, entries = Mutated PROVE creating = "intermediate" /\ n > 5
    BY <1>11
  <2>1. Mutated # {}
    BY <1>11
  <2>2. n > 5
    BY <1>1, <1>9, <2>1
  <2> QED BY <1>1, <1>8, <2>1, <2>2 DEF CreationKnown, OwnKnown
<1>13. creating = "intermediate" /\ n > 5 => Room("intermediate") \in Witnessed(entries)
  <2> SUFFICES ASSUME creating = "intermediate", n > 5 PROVE Room("intermediate") \in Witnessed(entries)
    OBVIOUS
  <2>1. made[Room("intermediate")] = "published"
    BY <1>1, <1>9
  <2> QED BY <2>1 DEF Witnessed, Own
<1>14. phase \in CleanupPhases => creating = "intermediate" /\ PairFinal
  <2> SUFFICES ASSUME phase \in CleanupPhases PROVE creating = "intermediate" /\ PairFinal
    OBVIOUS
  <2>1. creating = "intermediate" /\ n > IsPublished + 3
    BY <1>5
  <2>2. \A i \in 1 .. Len(CreationPlan) : i > IsStaged /\ i < n => Lasts(CreationPlan[i])
    BY <1>1 DEF CreationInv, CreatorInv, n
  <2>3. Whole("intermediate") /\ EntriesAre("after")
    BY <1>1, <1>5, <2>1, <2>2, PlacedDone
  <2>4. /\ IsPublished + 1 \in 1 .. Len(CreationPlan) /\ IsPublished + 3 \in 1 .. Len(CreationPlan)
        /\ IsPublished + 1 > IsStaged /\ IsPublished + 3 > IsStaged
        /\ IsPublished + 1 < n /\ IsPublished + 3 < n
    BY <1>1, <1>5, <2>1, CreationOrder
  <2>5. /\ CreationPlan[IsPublished + 1] = Placed(ActiveManifest, "published")
        /\ CreationPlan[IsPublished + 3] = Placed(RootManifest, "absent")
    BY <1>1, <2>1, CreationOrder DEF OwnManifest
  <2>6. made[ActiveManifest] = "published" /\ made[RootManifest] = "absent"
    BY <2>2, <2>4, <2>5 DEF Lasts, Placed
  <2> QED BY <2>1, <2>3, <2>6 DEF PairFinal, Manifests, CreationInv, Beginning
<1>15. OwnKnown'
  <2>1. OwnObjects' = OwnObjects
    BY <1>1, OwnObjectsAre
  <2>2. \A o \in OwnObjects' : made'[o] = "published" => Named(o)'
    BY <1>1, <1>4, <1>10, <2>1 DEF Named
  <2>3. Mutated' # {} => creating' = "intermediate" /\ Named(Room("intermediate"))'
    BY <1>1, <1>4, <1>12, <1>13 DEF Named
  <2>4. journal'.phase \in CleanupPhases => creating' = "intermediate" /\ PairFinal'
    BY <1>1, <1>4, <1>14, SameObjects
  <2> QED BY <2>2, <2>3, <2>4 DEF OwnKnown
<1>16. CreatorKnows'
  <2>1. CreationPlan' = CreationPlan /\ IsStaged' = IsStaged /\ IsPublished' = IsPublished
    BY <1>1, SameAuthority
  <2>2. n + 1 <= 5 => Mutated' = {}
    BY <1>1, <1>12
  <2>3. n + 1 <= IsStaged => journal'.phase \notin CleanupPhases
    BY <1>1, <1>4, <1>5, <1>14
  <2>4. creating = "intermediate" /\ n + 1 \in {6, 7} => journal'.phase = "staged"
    BY <1>1, <1>4, <1>6, <1>7
  <2>5. creating = "root" /\ n + 1 = 6 => Authority("root") \in Witnessed(entries)
    <3> SUFFICES ASSUME creating = "root", n = 5 PROVE Authority("root") \in Witnessed(entries)
      BY <1>1
    <3>1. made[Room(creating)] = "published"
      BY <1>9
    <3> QED BY <3>1 DEF Witnessed
  <2>6. n + 1 = IsPublished + 1 => journal'.phase = "reservation-consumed"
    BY <1>1, <1>4, <1>5 DEF phase, n
  <2>7. n + 1 # 5
    BY <1>1, <1>6
  <2>8. creating = "intermediate" /\ n + 1 > 4 => made[Room("intermediate")] = "published"
    BY <1>1, <1>6, <1>9
  <2> QED BY <1>1, <1>4, <2>1, <2>2, <2>3, <2>4, <2>5, <2>6, <2>7, <2>8
      DEF CreatorKnows, Named, n
<1>17. ~Withdrawing' /\ ~Completing' /\ ~journal'.committed
  BY <1>1, <1>4 DEF Withdrawing, Completing
<1> QED BY <1>15, <1>16, <1>17
    DEF CreationKnown, WithdrawerKnows, CompleterKnows, CreationClosed

(* What it puts in its place is named already, or in a window.                 *)
LEMMA CreatorKnowsPut ==
    ASSUME Typed, CreationInv, CreationKnown, CreatorPlaces PROVE CreationKnown'
<1> DEFINE n == process.at
           o == CreationPlan[process.at].object
           to == CreationPlan[process.at].to
<1>1. /\ Creating /\ creating' = creating /\ creating \in Authorities /\ journal' = journal
      /\ n \in 1 .. Len(CreationPlan) /\ n \in Nat /\ Len(CreationPlan) \in Nat
      /\ CreationPlan[n].kind = "place" /\ Lay(o, to)
      /\ process'.at = n + 1 /\ process'.command = "create"
  BY Creates1 DEF CreatorPlaces, CreatorAt, Creating, ProcessType
<1>2. /\ o \in Creations /\ n > 1 /\ n # 3 /\ n # 5
      /\ \/ n = 2 /\ o = Grant(creating)
         \/ n = 4 /\ o = Room(creating) /\ to = "published"
         \/ n = 6 /\ IsStaged = 6 /\ creating = "intermediate" /\ o = KeyCopy /\ to = "published"
         \/ n > IsStaged /\ n <= IsPublished /\ o \in AuthorityObjects /\ to = FinalMade(o)
         \/ n > IsStaged /\ n > IsPublished /\ o \in ManifestObjects /\ to = FinalMade(o)
  BY <1>1, PlacedAt
<1>3. /\ IsStaged \in Nat /\ IsPublished \in Nat
      /\ IsStaged = (IF creating = "root" THEN 5 ELSE 6)
      /\ IsStaged + 1 < IsPublished /\ IsPublished + 1 < Len(CreationPlan)
      /\ CreationPlan[IsPublished].kind = "journal"
      /\ CreationPlan[IsStaged + 1] = Placed(Authority(creating), "published")
      /\ CreationPlan[IsPublished + 1] = Placed(OwnManifest, "published")
  BY <1>1, CreationOrder DEF Journaled
<1>4. /\ InCreation
      /\ \A i \in 1 .. Len(CreationPlan) : i > IsStaged /\ i < n => Lasts(CreationPlan[i])
  BY <1>1, <1>2 DEF CreationInv, CreatorInv
<1>5. /\ n <= 5 => Mutated = {}
      /\ n <= IsStaged => journal.phase \notin CleanupPhases
      /\ creating = "intermediate" /\ n \in {6, 7} => journal.phase = "staged"
      /\ creating = "root" /\ n = 6 => Named(Authority("root"))
      /\ n = IsPublished + 1 => journal.phase = "reservation-consumed"
      /\ creating = "intermediate" /\ n > 4 => made[Room("intermediate")] = "published"
  BY <1>1, <1>2 DEF CreationKnown, CreatorKnows
<1>6. OwnObjects' = OwnObjects /\ OwnObjects = {Authority(creating), OwnManifest}
      /\ \A p \in OwnObjects : p \in Creations /\ p[1] \notin {"room", "key copy", "entry", "grant"}
  BY <1>1, OwnObjectsAre
<1> HIDE DEF n, o, to
<1>7. \A p \in OwnObjects : made[p] = "published" => Named(p) \/ Window(p)
  BY <1>4 DEF CreationKnown, OwnKnown
<1>8. ASSUME NEW p \in OwnObjects, made'[p] = "published" PROVE Named(p) \/ Window(p)
  <2>1. CASE p # o
    BY <1>1, <1>2, <1>6, <1>7, <1>8, <2>1, LayIs
  <2>2. CASE p = o /\ p = Authority(creating)
    <3>1. n > IsStaged
      BY <1>1, <1>2, <2>2, MadeObjects
    <3>2. CASE n = IsStaged + 1
      BY <1>1, <1>3, <1>5, <2>2, <3>2 DEF Window, Authorities
    <3>3. CASE n > IsStaged + 1
      <4>1. IsStaged + 1 \in 1 .. Len(CreationPlan) /\ IsStaged + 1 > IsStaged /\ IsStaged + 1 < n
        BY <1>1, <1>3, <3>3
      <4>2. made[Authority(creating)] = "published"
        BY <1>3, <1>4, <4>1 DEF Lasts, Placed
      <4> QED BY <1>7, <1>8, <2>2, <4>2
    <3> QED BY <1>1, <1>3, <3>1, <3>2, <3>3
  <2>3. CASE p = o /\ p = OwnManifest
    <3>1. o \notin AuthorityObjects \cup {Grant(creating), Room(creating), KeyCopy}
      BY <1>1, <2>3, MadeObjects DEF AuthorityObjects, OwnManifest
    <3>2. n > IsPublished
      BY <1>1, <1>2, <3>1
    <3>3. CASE n = IsPublished + 1
      BY <1>5, <2>3, <3>3 DEF Window, OwnManifest
    <3>4. CASE n > IsPublished + 1
      <4>1. IsPublished + 1 \in 1 .. Len(CreationPlan) /\ IsPublished + 1 > IsStaged /\ IsPublished + 1 < n
        BY <1>1, <1>3, <3>4
      <4>2. made[OwnManifest] = "published"
        BY <1>3, <1>4, <4>1 DEF Lasts, Placed
      <4> QED BY <1>7, <1>8, <2>3, <4>2
    <3> QED BY <1>1, <1>3, <3>2, <3>3, <3>4
  <2> QED BY <1>6, <1>8, <2>1, <2>2, <2>3
<1>9. creating = "intermediate" /\ n + 1 > 4 => made'[Room("intermediate")] = "published"
  <2> SUFFICES ASSUME creating = "intermediate", n > 3 PROVE made'[Room("intermediate")] = "published"
    BY <1>1
  <2>1. CASE n = 4
    <3>1. o = Room("intermediate") /\ to = "published"
      BY <1>2, <1>3, <2>1
    <3> QED BY <1>1, <1>2, <3>1, LayIs
  <2>2. CASE n > 4
    <3>1. o = KeyCopy \/ o[1] \notin {"room", "key copy"}
      <4>1. o \in {KeyCopy} \cup AuthorityObjects \cup ManifestObjects
        BY <1>2, <2>2
      <4> QED BY <1>1, <4>1, MadeObjects DEF AuthorityObjects, ManifestObjects
    <3>2. made[Room("intermediate")] = "published"
      BY <1>5, <2>2
    <3> QED BY <1>1, <1>2, <3>1, <3>2, LayIs
  <2> QED BY <1>1, <2>1, <2>2
<1>10. Mutated # {} =>
          /\ creating = "intermediate"
          /\ \/ Named(Room("intermediate"))
             \/ journal.phase = "recovering" /\ made'[Room("intermediate")] = "absent"
  <2> SUFFICES ASSUME Mutated # {}
               PROVE  creating = "intermediate" /\ Named(Room("intermediate"))
    OBVIOUS
  <2>1. creating = "intermediate" /\ n > 5
    BY <1>1, <1>4, <1>5 DEF CreationKnown, OwnKnown
  <2>2. made[Room("intermediate")] = "published"
    BY <1>1, <1>5, <2>1
  <2> QED BY <1>4, <2>1, <2>2 DEF CreationKnown, OwnKnown
<1>11. journal.phase \in CleanupPhases => creating = "intermediate" /\ PairFinal'
  <2> SUFFICES ASSUME journal.phase \in CleanupPhases PROVE creating = "intermediate" /\ PairFinal'
    OBVIOUS
  <2>1. creating = "intermediate" /\ PairFinal
    BY <1>4 DEF CreationKnown, OwnKnown
  <2>2. n > IsStaged /\ o \in AuthorityObjects \cup ManifestObjects /\ to = FinalMade(o)
    BY <1>1, <1>2, <1>3, <1>5
  <2>3. /\ FinalMade(Authority("intermediate")) = "published"
        /\ FinalMade(Grant("intermediate")) = "consumed"
        /\ \A k \in Keys : FinalMade(RootEntry(k)) = "after"
        /\ FinalMade(KeyCopy) = "absent" /\ FinalMade(ActiveManifest) = "published"
        /\ FinalMade(RootManifest) = "absent"
    BY <1>1, <2>1, FinalStates
  <2>4. made'[o] = FinalMade(o) /\ \A p \in Creations : p # o /\ p[1] \notin {"room", "key copy"} => made'[p] = made[p]
    BY <1>1, <1>2, <2>2, LayIs
  <2>5. o \notin {Authority("root"), Grant("root")}
    BY <2>1, <2>2, MadeObjects DEF AuthorityObjects, ManifestObjects, Authorities
  <2>6. Whole("root")' /\ Whole("intermediate")'
    BY <2>1, <2>3, <2>4, <2>5, MadeObjects DEF PairFinal, Whole, Authorities
  <2>7. Manifests("absent", "published")' /\ EntriesAre("after")'
    BY <2>1, <2>3, <2>4, MadeObjects DEF PairFinal, Manifests, EntriesAre
  <2> QED BY <2>1, <2>6, <2>7 DEF PairFinal
<1>12. OwnKnown'
  <2>1. /\ \A p : (Named(p)' <=> Named(p)) /\ (Window(p)' <=> Window(p))
        /\ Mutated' = Mutated
    BY <1>1, SameJournal
  <2>2. \A p \in OwnObjects' : made'[p] = "published" => Named(p)' \/ Window(p)'
    BY <1>6, <1>8, <2>1
  <2> QED BY <1>1, <1>10, <1>11, <2>1, <2>2 DEF OwnKnown
<1>13. CreatorKnows'
  <2>1. CreationPlan' = CreationPlan /\ IsStaged' = IsStaged /\ IsPublished' = IsPublished
    BY <1>1, SameAuthority
  <2>2. Mutated' = Mutated /\ \A p : Named(p)' <=> Named(p)
    BY <1>1, SameJournal
  <2>3. n + 1 # IsPublished + 1 /\ n + 1 # 6
    <3>1. n # IsPublished
      BY <1>1, <1>3 DEF Placed
    <3> QED BY <1>1, <1>2, <1>3, <3>1
  <2>4. creating = "root" /\ n + 1 = 5 => made'[Room("root")] = "published"
    <3> SUFFICES ASSUME creating = "root", n = 4 PROVE made'[Room("root")] = "published"
      BY <1>1
    <3>1. o = Room("root") /\ to = "published"
      BY <1>2, <1>3
    <3> QED BY <1>1, <1>2, <3>1, LayIs
  <2>5. creating = "intermediate" /\ n + 1 \in {6, 7} => journal.phase = "staged"
    BY <1>1, <1>2, <1>5
  <2>6. n + 1 <= IsStaged => journal.phase \notin CleanupPhases
    BY <1>1, <1>3, <1>5
  <2>7. n + 1 <= 5 => Mutated = {}
    BY <1>1, <1>5
  <2> QED BY <1>1, <1>9, <2>1, <2>2, <2>3, <2>4, <2>5, <2>6, <2>7 DEF CreatorKnows, n
<1>14. ~Withdrawing' /\ ~Completing' /\ (CreationClosed' <=> CreationClosed)
  BY <1>1, SameJournal DEF Withdrawing, Completing
<1> QED BY <1>12, <1>13, <1>14 DEF CreationKnown, WithdrawerKnows, CompleterKnows

(* Its last journal is history.                                               *)
LEMMA CreatorKnowsClosed ==
    ASSUME Typed, CreationKnown, CreatorCommits PROVE CreationKnown'
<1>1. /\ Creating /\ creating' = creating /\ creating \in Authorities
      /\ process.at = Len(CreationPlan) + 1 /\ Len(CreationPlan) \in Nat
      /\ journal' = [Bootstrap("complete", {}) EXCEPT !.committed = TRUE]
      /\ process'.at = Len(CreationPlan) + 2 /\ process'.command = "create"
  BY Creates1 DEF CreatorCommits, creation_vars, Creating, ProcessType
<1>2. /\ journal'.committed /\ journal'.step = NoStep /\ journal'.phase = "complete"
      /\ journal'.action = "none" /\ journal'.evidence.known = Witnessed({})
      /\ journal'.operation = Operation(creating)
  BY <1>1 DEF Bootstrap, NoJournal, NoEvidence
<1>3. TerminalBootstrap' /\ ~InCreation'
  BY <1>2 DEF TerminalBootstrap, InCreation, Operation, Bootstraps
<1>4. Mutated' = {}
  <2>1. \A o \in Witnessed({}) : o[1] # "entry"
    BY <1>1, MadeObjects DEF Witnessed, Own
  <2> QED BY <1>2, <2>1 DEF Mutated
<1>5. CreatorKnows'
  <2>1. Len(CreationPlan)' = Len(CreationPlan)
    BY <1>1, SameAuthority
  <2> QED BY <1>1, <1>4, <2>1 DEF CreatorKnows
<1> QED BY <1>1, <1>3, <1>4, <1>5
        DEF CreationKnown, OwnKnown, WithdrawerKnows, CompleterKnows, CreationClosed,
          Withdrawing, Completing

(* A command that ends, with its hidden directory or not, leaves it.           *)
LEMMA CreationKnownIdle ==
    ASSUME Typed, CreationKnown, process' = Idle, journal' = journal, creating' = creating,
           made' = made \/ (creating \in Authorities /\ Lay(Room(creating), "absent"))
    PROVE  CreationKnown'
<1>1. creating \in Authorities \cup {"none"} /\ (InCreation => creating \in Authorities)
  BY DEF Typed, CreationTyped, Control, InCreation
<1>2. OwnKnown'
  BY <1>1, OwnKept DEF CreationKnown
<1>3. ~Creating' /\ ~Withdrawing' /\ ~Completing'
  BY IdleTyped DEF Creating, Withdrawing, Completing
<1> QED BY <1>2, <1>3, SameJournal
    DEF CreationKnown, CreatorKnows, WithdrawerKnows, CompleterKnows

(* It fails: what it has not journaled, its rollback knows.                    *)
LEMMA CreatorKnowsFailed ==
    ASSUME Typed, CreationInv, CreationKnown, CreationFails PROVE CreationKnown'
<1>1. /\ Creating /\ made' = made /\ creating' = creating /\ journal' = journal
      /\ process'.command = "abort" /\ process'.mark = "none"
      /\ process.at <= Len(CreationPlan) + 1 /\ creating \in Authorities /\ process.at \in Nat
      /\ process.at >= 1
  BY BegunIs, Creates1 DEF CreationFails, creation_vars
<1>2. ~InCreation => Mutated = {}
  BY <1>1 DEF CreationInv, CreatorInv, CreationKnown, CreatorKnows
<1>3. OwnKnown'
  BY <1>1, OwnKept DEF CreationKnown
<1> QED BY <1>1, <1>2, <1>3, SameJournal
        DEF CreationKnown, CreatorKnows, WithdrawerKnows, CompleterKnows, Creating, Completing,
          Aborting

(* A recovery begins over what is named.                                      *)
LEMMA CreationKnownRecovery ==
    ASSUME Typed, CreationKnown, NEW action \in Actions, BeginBootstrapRecovery(action)
    PROVE  CreationKnown'
<1>1. /\ made' = made /\ creating' = creating /\ journal' = journal /\ InCreation
      /\ process'.command = action /\ process'.mark = "none" /\ creating \in Authorities
      /\ BootstrapAccepted(action)
  BY BegunIs DEF BeginBootstrapRecovery, creation_vars, InCreation, Control, Typed
<1>2. OwnNamed
  BY <1>1 DEF BootstrapAccepted, CompletionAccepted, WithdrawalAccepted, OwnNamed, OwnObjects
<1>3. OwnKnown' /\ OwnNamed'
  BY <1>1, <1>2, OwnKept DEF CreationKnown
<1> QED BY <1>1, <1>3, SameJournal
        DEF CreationKnown, CreatorKnows, WithdrawerKnows, CompleterKnows, Creating, Aborting,
          Actions

(* The journal of a withdrawal names what is left of its own.                  *)
LEMMA WithdrawalKnowsWritten ==
    ASSUME Typed, CreationInv, CreationKnown, WithdrawalAnnounces \/ WithdrawalRecords
    PROVE  CreationKnown'
<1>0. /\ Withdrawing /\ made' = made /\ creating' = creating
      /\ process.at <= Len(Withdrawal)
  BY DEF WithdrawalAnnounces, WithdrawalRecords, WithdrawsOn
<1>1. /\ creating \in Authorities /\ process.at \in Nat /\ process.at >= 1 /\ Len(Withdrawal) \in Nat
      /\ process \in ProcessType /\ (~Aborting => journal.operation = Operation(creating))
      /\ JournalTyped /\ CreationTyped /\ process.command \in {"abort", "rollback"}
  BY <1>0, Withdraws DEF Typed
<1>2. process.at <= Len(Withdrawal) + 1
  BY <1>0, <1>1
<1>3. PICK step : Rewrite("recovering", "rollback", step) /\ step \in StepType
  <2>1. Withdrawn.object \in Creations
    <3>1. process.at \in 1 .. Len(Withdrawal)
      BY <1>0, <1>1
    <3> QED BY <1>1, <3>1, WithdrawnAt DEF Withdrawn
  <2>2. \A mark \in {"pending", "done"} : Step("rollback", Withdrawn.object, mark) \in StepType
    BY <2>1, StepTyped DEF Commands, Actions
  <2> QED BY <2>2 DEF WithdrawalAnnounces, WithdrawalRecords
<1>4. /\ journal'.operation = Operation(creating) /\ journal'.phase = "recovering"
      /\ ~Aborting => journal'.committed = journal.committed /\ journal'.evidence = journal.evidence
      /\ Aborting => journal'.committed = FALSE /\ journal'.evidence.known = Witnessed(Mutated)
  BY <1>1, <1>3, RewriteTyped DEF Actions, Phases
<1>5. ~Aborting => InCreation
  BY <1>0, <1>1, <1>2 DEF CreationInv, WithdrawerInv, InCreation, Operation, Bootstraps
<1>6. OwnObjects' = OwnObjects /\ \A o \in OwnObjects : o \in Own(creating)
  BY <1>0, <1>1, OwnObjectsAre
<1>7. OwnNamed'
  <2>1. CASE Aborting
    <3>1. \A o \in Own(creating) : made[o] = "published" => o \in Witnessed(Mutated)
      BY DEF Witnessed
    <3> QED BY <1>0, <1>4, <1>6, <2>1, <3>1 DEF OwnNamed, Named
  <2>2. CASE ~Aborting
    <3>1. OwnNamed
      BY <1>0, <1>5, <2>2 DEF CreationKnown, WithdrawerKnows, InCreation
    <3> QED BY <1>0, <1>4, <1>6, <2>2, <3>1 DEF OwnNamed, Named
  <2> QED BY <2>1, <2>2
<1>8. Mutated' = Mutated
  <2>1. CASE Aborting
    <3>1. \A o \in Witnessed({}) : o[1] # "entry"
      BY <1>1, MadeObjects DEF Witnessed, Own
    <3>2. Witnessed(Mutated) = Witnessed({}) \cup Mutated
      BY DEF Witnessed
    <3> QED BY <1>4, <2>1, <3>1, <3>2 DEF Mutated
  <2>2. CASE ~Aborting
    BY <1>4, <2>2 DEF Mutated
  <2> QED BY <2>1, <2>2
<1>9. Mutated' # {} => creating = "intermediate" /\ InCreation
  BY <1>0, <1>5, <1>8 DEF CreationKnown, WithdrawerKnows, OwnKnown
<1>10. Mutated' # {} => Named(Room("intermediate"))' \/ made'[Room("intermediate")] = "absent"
  <2> SUFFICES ASSUME Mutated' # {}
               PROVE  Named(Room("intermediate"))' \/ made'[Room("intermediate")] = "absent"
    OBVIOUS
  <2>1. made[Room("intermediate")] \in {"absent", "published"}
    <3>1. MadeStates(Room("intermediate")) = {"absent", "published"} /\ Room("intermediate") \in Creations
      BY MadeObjects DEF MadeStates, Authorities
    <3> QED BY <1>1, <3>1 DEF CreationTyped
  <2>2. CASE Aborting
    <3>1. made[Room("intermediate")] = "published" => Room("intermediate") \in Witnessed(Mutated)
      BY <1>9 DEF Witnessed, Own
    <3> QED BY <1>0, <1>4, <2>1, <2>2, <3>1 DEF Named
  <2>3. CASE ~Aborting
    <3>1. Named(Room("intermediate")) \/ made[Room("intermediate")] = "absent"
      BY <1>8, <1>9 DEF CreationKnown, OwnKnown
    <3> QED BY <1>0, <1>4, <2>3, <3>1 DEF Named
  <2> QED BY <2>2, <2>3
<1>11. OwnKnown'
  <2>1. journal'.phase \notin CleanupPhases
    BY <1>4 DEF CleanupPhases
  <2> QED BY <1>0, <1>4, <1>7, <1>9, <1>10, <2>1 DEF OwnKnown, OwnNamed
<1>12. InCreation'
  BY <1>4, <1>5 DEF InCreation, Operation, Bootstraps
<1>13. ~Creating' /\ ~Completing'
  BY <1>1 DEF WithdrawalAnnounces, WithdrawalRecords, Creating, Completing, ProcessType
<1>14. WithdrawerKnows' /\ CreationClosed'
  BY <1>4, <1>7, <1>12 DEF WithdrawerKnows, CreationClosed, InCreation
<1> QED BY <1>11, <1>13, <1>14 DEF CreationKnown, CreatorKnows, CompleterKnows

(* It passes over what is not there.                                          *)
LEMMA WithdrawalKnowsPassed ==
    ASSUME Typed, CreationKnown, WithdrawalPasses PROVE CreationKnown'
<1>1. /\ Withdrawing /\ made' = made /\ creating' = creating /\ journal' = journal
      /\ process.mark = "none" /\ creating \in Authorities
      /\ process'.command = process.command /\ process'.mark = "none" /\ process'.operation = process.operation
      /\ process.command \in {"abort", "rollback"}
  BY Withdraws DEF WithdrawalPasses, WithdrawsOn, ProcessType
<1>2. OwnKnown' /\ (OwnNamed => OwnNamed')
  BY <1>1, OwnKept DEF CreationKnown
<1>3. WithdrawerKnows'
  BY <1>1, <1>2, SameJournal DEF CreationKnown, WithdrawerKnows, Withdrawing, Aborting
<1> QED BY <1>1, <1>2, <1>3, SameJournal
        DEF CreationKnown, CreatorKnows, CompleterKnows, Creating, Completing

(* What it takes away needs no name any more.                                  *)
LEMMA WithdrawalKnowsTaken ==
    ASSUME Typed, CreationInv, CreationKnown, WithdrawalChanges PROVE CreationKnown'
<1> DEFINE o == Withdrawn.object
           to == Withdrawn.to
<1>1. /\ Withdrawing /\ creating' = creating /\ journal' = journal /\ process.at <= Len(Withdrawal)
      /\ process.mark = "pending" /\ creating \in Authorities /\ Lay(o, to)
      /\ process'.command = process.command /\ process'.operation = process.operation
      /\ process.command \in {"abort", "rollback"} /\ process.at \in 1 .. Len(Withdrawal)
  BY Withdraws DEF WithdrawalChanges, WithdrawsOn, ProcessType
<1>2. /\ o \in Creations
      /\ o = Authority(creating) => to = "absent"
      /\ o = OwnManifest => to = "absent"
      /\ o = Room(creating) => to = "absent"
      /\ o[1] # "key copy"
      /\ o[1] = "room" => o = Room(creating)
  BY <1>1, WithdrawnAt DEF Withdrawn, OwnManifest, Authorities
<1>3. journal.phase = "recovering" /\ InCreation
  BY <1>1 DEF CreationKnown, WithdrawerKnows, CreationInv, WithdrawerInv
<1>4. OwnObjects' = OwnObjects /\ OwnObjects = {Authority(creating), OwnManifest}
      /\ \A p \in OwnObjects : p \in Creations /\ p[1] \notin {"room", "key copy", "entry", "grant"}
  BY <1>1, OwnObjectsAre
<1> HIDE DEF o, to
<1>5. \A p \in OwnObjects : made'[p] = "published" => made[p] = "published"
  <2> SUFFICES ASSUME NEW p \in OwnObjects, made'[p] = "published" PROVE made[p] = "published"
    OBVIOUS
  <2>1. CASE p = o
    BY <1>1, <1>2, <1>4, <2>1, LayIs
  <2>2. CASE p # o
    BY <1>1, <1>2, <1>4, <2>2, LayIs
  <2> QED BY <2>1, <2>2
<1>6. OwnNamed => OwnNamed'
  BY <1>1, <1>4, <1>5, SameJournal DEF OwnNamed
<1>7. made[Room("intermediate")] = "absent" => made'[Room("intermediate")] = "absent"
  <2>1. CASE o = Room("intermediate")
    BY <1>1, <1>2, <2>1, LayIs, MadeObjects DEF Authorities
  <2>2. CASE o # Room("intermediate")
    <3>1. o[1] \notin {"room", "key copy"} \/ o = Room("root")
      BY <1>1, <1>2, <2>2 DEF Authorities
    <3> QED BY <1>1, <1>2, <3>1, LayIs
  <2> QED BY <2>1, <2>2
<1>8. OwnKnown'
  <2>1. \A p \in OwnObjects' : made'[p] = "published" => Named(p)' \/ Window(p)'
    BY <1>1, <1>3, <1>4, <1>5, SameJournal DEF CreationKnown, OwnKnown
  <2>2. journal'.phase \notin CleanupPhases
    BY <1>1, <1>3 DEF CleanupPhases
  <2>3. Mutated' # {} =>
          /\ creating' = "intermediate"
          /\ \/ Named(Room("intermediate"))'
             \/ journal'.phase = "recovering" /\ made'[Room("intermediate")] = "absent"
    BY <1>1, <1>3, <1>7, SameJournal DEF CreationKnown, OwnKnown
  <2> QED BY <2>1, <2>2, <2>3 DEF OwnKnown
<1>9. WithdrawerKnows'
  BY <1>1, <1>3, <1>6, SameJournal DEF CreationKnown, WithdrawerKnows, Withdrawing, Aborting
<1> QED BY <1>1, <1>8, <1>9, SameJournal
        DEF CreationKnown, CreatorKnows, CompleterKnows, Creating, Completing

(* Its last journal is history too.                                           *)
LEMMA WithdrawalKnowsClosed ==
    ASSUME Typed, CreationInv, CreationKnown, WithdrawalCommits PROVE CreationKnown'
<1>1. /\ Withdrawing /\ creating' = creating /\ process.at = Len(Withdrawal) + 1
      /\ creating \in Authorities /\ Len(Withdrawal) \in Nat
      /\ process'.command = process.command /\ process'.mark = process.mark
      /\ process.command \in {"abort", "rollback"}
      /\ journal' = [NoJournal EXCEPT !.operation = Operation(creating), !.phase = "rolled-back",
                                      !.committed = TRUE, !.action = "rollback"]
  BY Withdraws DEF WithdrawalCommits, creation_vars, ProcessType
<1>2. /\ journal'.committed /\ journal'.step = NoStep /\ journal'.phase = "rolled-back"
      /\ journal'.action = "rollback" /\ journal'.evidence.known = {}
      /\ journal'.operation = Operation(creating)
  BY <1>1 DEF NoJournal, NoEvidence
<1>3. TerminalBootstrap' /\ ~InCreation' /\ Mutated' = {}
  BY <1>2 DEF TerminalBootstrap, InCreation, Operation, Bootstraps, Mutated
<1>4. process.mark = "none"
  <2>1. ~(process.at <= Len(Withdrawal))
    BY <1>1
  <2> QED BY <1>1, <2>1 DEF CreationInv, WithdrawerInv
<1> QED BY <1>1, <1>2, <1>3, <1>4
        DEF CreationKnown, OwnKnown, CreatorKnows, WithdrawerKnows, CompleterKnows,
          CreationClosed,
            Creating, Completing

(* The completion of a cleanup.                                               *)
LEMMA CompletionKnows ==
    ASSUME Typed, CreationInv, CreationKnown,
           \/ CompletionAnnounces \/ CompletionChanges \/ CompletionRecords
           \/ CompletionCommits \/ CompletionUnmarks \/ CompletionReturns
    PROVE  CreationKnown'
<1>0. Completing /\ creating' = creating
  BY DEF CompletionAnnounces, CompletionChanges, CompletionRecords, CompletionCommits,
         CompletionUnmarks, CompletionReturns, CompletesAt
<1>1. /\ creating = "intermediate" /\ process \in ProcessType /\ journal \in JournalType
      /\ ~Aborting /\ creating \in Authorities /\ process.command = "resume"
      /\ journal.operation \in Bootstraps
  BY <1>0, Completes DEF Authorities
<1>2. ASSUME NEW mark, Completed(mark)
      PROVE  /\ process'.command = process.command /\ process'.operation = process.operation
             /\ process'.mark = mark /\ ~Creating' /\ ~Withdrawing'
  BY <1>1, <1>2 DEF Completed, ProcessType, Creating, Withdrawing
<1>3. ASSUME NEW step, Rewrite("recovering", "rollback", step)
      PROVE  /\ journal'.operation = journal.operation /\ journal'.phase = "recovering"
             /\ journal'.evidence = journal.evidence
             /\ journal'.committed = journal.committed /\ journal'.step = step
  BY <1>1, <1>3 DEF Rewrite, JournalType
<1>4. process.mark \in {"none", "pending", "made", "done"} => ~journal.committed /\ OwnNamed
  BY <1>0 DEF CreationInv, CompleterInv, CreationKnown, CompleterKnows
<1>5. ASSUME NEW step, Rewrite("recovering", "rollback", step), made' = made, ~journal.committed, OwnNamed
      PROVE  OwnKnown' /\ OwnNamed' /\ CreationClosed'
  <2>1. OwnObjects' = OwnObjects /\ \A o : Named(o)' <=> Named(o)
    BY <1>0, <1>1, <1>3, <1>5, OwnObjectsAre DEF Named
  <2>2. OwnNamed'
    BY <1>5, <2>1 DEF OwnNamed
  <2>3. Mutated' = Mutated /\ journal'.phase \notin CleanupPhases /\ InCreation
    BY <1>1, <1>3, <1>5 DEF Mutated, CleanupPhases, InCreation
  <2>4. Mutated # {} => Named(Room("intermediate")) \/ made[Room("intermediate")] = "absent"
    BY <2>3 DEF CreationKnown, OwnKnown
  <2>5. OwnKnown'
    BY <1>0, <1>1, <1>3, <1>5, <2>1, <2>2, <2>3, <2>4 DEF OwnKnown, OwnNamed
  <2>6. CreationClosed'
    BY <1>3, <1>5 DEF CreationClosed
  <2> QED BY <2>2, <2>5, <2>6
<1>6. CASE CompletionAnnounces
  <2>1. Completed("pending") /\ made' = made /\ process.mark = "none"
        /\ Rewrite("recovering", "rollback", Step("resume", KeyCopy, "pending"))
    BY <1>6 DEF CompletionAnnounces, CompletesAt
  <2>2. OwnKnown' /\ OwnNamed' /\ CreationClosed'
    BY <1>4, <1>5, <2>1
  <2>3. process'.mark # "done" /\ ~Creating' /\ ~Withdrawing'
    BY <1>2, <2>1
  <2> QED BY <2>2, <2>3 DEF CreationKnown, CreatorKnows, WithdrawerKnows, CompleterKnows
<1>7. CASE CompletionRecords
  <2>1. /\ Completed("done") /\ made' = made /\ process.mark \in {"none", "made"}
        /\ Rewrite("recovering", "rollback", Step("resume", KeyCopy, "done"))
    BY <1>7 DEF CompletionRecords, CompletesAt
  <2>2. OwnKnown' /\ OwnNamed' /\ CreationClosed'
    BY <1>4, <1>5, <2>1
  <2>3. ~Creating' /\ ~Withdrawing' /\ journal'.step = Step("resume", KeyCopy, "done")
    BY <1>2, <1>3, <2>1
  <2> QED BY <2>2, <2>3 DEF CreationKnown, CreatorKnows, WithdrawerKnows, CompleterKnows
<1>8. CASE CompletionChanges
  <2>1. Completed("made") /\ Lay(KeyCopy, "absent") /\ process.mark = "pending" /\ journal' = journal
    BY <1>8 DEF CompletionChanges, CompletesAt
  <2>2. OwnKnown' /\ OwnNamed'
    BY <1>0, <1>1, <1>4, <2>1, OwnKept DEF CreationKnown
  <2>3. process'.mark # "done" /\ ~Creating' /\ ~Withdrawing'
    BY <1>2, <2>1
  <2> QED BY <2>1, <2>2, <2>3, SameJournal
      DEF CreationKnown, CreatorKnows, WithdrawerKnows, CompleterKnows
<1>9. CASE CompletionCommits
  <2>1. /\ Completed("committed") /\ made' = made /\ process.mark = "done"
        /\ journal' = [journal EXCEPT !.phase = "complete", !.committed = TRUE]
    BY <1>9 DEF CompletionCommits, CompletesAt
  <2>2. journal'.committed /\ journal'.step = journal.step
    BY <1>1, <2>1 DEF JournalType
  <2>3. CompletedLate'
    BY <1>0, <2>1, <2>2 DEF CreationKnown, CompleterKnows, CompletedLate
  <2>4. process'.mark # "done" /\ ~Creating' /\ ~Withdrawing'
    BY <1>2, <2>1
  <2> QED BY <2>2, <2>3, <2>4
          DEF CreationKnown, OwnKnown, InCreation, CreatorKnows, WithdrawerKnows,
            CompleterKnows, CreationClosed
<1>10. CASE CompletionUnmarks
  <2>1. Completed("marked") /\ made' = made /\ process.mark = "committed" /\ journal' = journal
    BY <1>10 DEF CompletionUnmarks, CompletesAt
  <2>2. OwnKnown' /\ (OwnNamed => OwnNamed')
    BY <1>0, <1>1, <2>1, OwnKept DEF CreationKnown
  <2>3. process'.mark # "done" /\ ~Creating' /\ ~Withdrawing'
    BY <1>2, <2>1
  <2>4. ~journal.committed => OwnNamed
    BY <1>0 DEF CreationKnown, CompleterKnows
  <2> QED BY <2>1, <2>2, <2>3, <2>4, SameJournal
          DEF CreationKnown, CreatorKnows, WithdrawerKnows, CompleterKnows
<1>11. CASE CompletionReturns
  BY <1>0, <1>1, <1>11, CreationKnownIdle DEF CompletionReturns
<1> QED BY <1>6, <1>7, <1>8, <1>9, <1>10, <1>11

(* The other commands leave it, unfinished or not, as it is.                   *)
LEMMA CreationKnownSpared ==
    ASSUME Typed, Typed', Owned, CreationKnown, UNCHANGED creation_vars,
           NEW O, O \subseteq {"legacy-migrate", "rollover-prepare"}, Works(O)
    PROVE  CreationKnown'
<1>1. Control' /\ made' = made /\ creating' = creating
  BY DEF Typed, creation_vars
<1>2. ASSUME journal'.operation \in Bootstraps PROVE journal' = journal
  BY <1>2, NoJournalTyped DEF Works, Bootstraps
<1>3. ~Creating' /\ ~Withdrawing' /\ ~Completing'
  <2> SUFFICES ASSUME Creating' \/ Withdrawing' \/ Completing', process' # process \/ Running PROVE FALSE
    <3>1. ASSUME process' = process, ~Running PROVE ~Creating' /\ ~Withdrawing' /\ ~Completing'
      BY <3>1 DEF Running, Creating, Withdrawing, Completing
    <3> QED BY <3>1
  <2>1. process'.operation \in Bootstraps
    BY <1>1 DEF Control, Creating, Withdrawing, Completing
  <2> QED BY <2>1, IdleTyped DEF Works, Bootstraps
<1>4. creating \in Authorities \cup {"none"} /\ (InCreation => creating \in Authorities)
  BY DEF Typed, CreationTyped, Control, InCreation
<1>5. OwnKnown'
  <2>1. CASE journal' = journal
    BY <1>1, <1>4, <2>1, OwnKept DEF CreationKnown
  <2>2. CASE journal' # journal
    BY <1>2, <2>2 DEF OwnKnown, InCreation
  <2> QED BY <2>1, <2>2
<1>6. CreationClosed'
  <2>1. CASE journal' = journal
    BY <2>1, SameJournal DEF CreationKnown
  <2>2. CASE journal' # journal
    BY <1>2, <2>2 DEF CreationClosed
  <2> QED BY <2>1, <2>2
<1> QED BY <1>3, <1>5, <1>6 DEF CreationKnown, CreatorKnows, WithdrawerKnows, CompleterKnows

(* And so does a step that changes nothing of it.                             *)
LEMMA CreationKnownStutters ==
    ASSUME Typed, CreationKnown, process' = process, journal' = journal, UNCHANGED creation_vars
    PROVE  CreationKnown'
<1>1. made' = made /\ creating' = creating /\ creating \in Authorities \cup {"none"}
      /\ (InCreation => creating \in Authorities)
  BY DEF Typed, CreationTyped, Control, InCreation, creation_vars
<1>2. OwnKnown' /\ (creating \in Authorities /\ OwnNamed => OwnNamed')
  BY <1>1, OwnKept DEF CreationKnown
<1>3. CreatorKnows'
  BY <1>1, SameAuthority, SameJournal DEF CreationKnown, CreatorKnows, Creating
<1>4. WithdrawerKnows'
  <2>1. Withdrawing => creating \in Authorities
    BY DEF Typed, Control, Withdrawing
  <2> QED BY <1>1, <1>2, <2>1, SameJournal
      DEF CreationKnown, WithdrawerKnows, Withdrawing, Aborting
<1>5. CompleterKnows'
  <2>1. Completing => creating \in Authorities
    BY DEF Typed, Control, Completing
  <2> QED BY <1>1, <1>2, <2>1, SameJournal DEF CreationKnown, CompleterKnows, Completing
<1> QED BY <1>2, <1>3, <1>4, <1>5, SameJournal DEF CreationKnown

(* It is inductive.                                                           *)
LEMMA CreationKnownKept ==
    ASSUME CompositionInv, CreationKnown, [Next]_vars PROVE CreationKnown'
<1>0. Typed /\ Typed' /\ Owned /\ CreationInv /\ MigrationInv
  BY StepIsTyped DEF CompositionInv
<1>1. ASSUME Works({"legacy-migrate"}), UNCHANGED creation_vars PROVE CreationKnown'
  BY <1>0, <1>1, CreationKnownSpared
<1>2. ASSUME Works({"rollover-prepare"}), UNCHANGED creation_vars PROVE CreationKnown'
  BY <1>0, <1>2, CreationKnownSpared
<1>3. CASE Creates
  <2>1. ASSUME NEW a \in Authorities, Layout = "empty", BeginCreation(a) PROVE CreationKnown'
    BY <1>0, <2>1, CreationKnownBegun
  <2>2. CASE CreatorSteps
    <3>1. CASE CreatorReturns
      <4>1. creating \in Authorities
        BY <1>0, <3>1 DEF CreatorReturns, Creating, Typed, Control
      <4> QED BY <1>0, <3>1, <4>1, CreationKnownIdle DEF CreatorReturns
    <3> QED BY <1>0, <2>2, <3>1, CreatorKnowsNoted, CreatorKnowsPut, CreatorKnowsClosed
        DEF CreatorSteps
  <2>3. CASE \/ WithdrawalAnnounces \/ WithdrawalChanges \/ WithdrawalRecords \/ WithdrawalPasses
             \/ WithdrawalCommits \/ WithdrawalReturns
    <3>1. CASE WithdrawalReturns
      BY <1>0, <3>1, CreationKnownIdle DEF WithdrawalReturns, creation_vars
    <3> QED BY <1>0, <2>3, <3>1, WithdrawalKnowsWritten, WithdrawalKnowsTaken,
        WithdrawalKnowsPassed,
               WithdrawalKnowsClosed
  <2>4. CASE \/ CompletionAnnounces \/ CompletionChanges \/ CompletionRecords
             \/ CompletionCommits \/ CompletionUnmarks \/ CompletionReturns
    BY <1>0, <2>4, CompletionKnows
  <2>5. CASE CreationFails
    BY <1>0, <2>5, CreatorKnowsFailed
  <2>6. ASSUME NEW action \in Actions, BeginBootstrapRecovery(action) PROVE CreationKnown'
    BY <1>0, <2>6, CreationKnownRecovery
  <2> QED BY <1>3, <2>1, <2>2, <2>3, <2>4, <2>5, <2>6 DEF Creates, BootstrapSteps
<1>4. CASE /\ process' = Idle \/ process' = process
           /\ UNCHANGED << journal, creation_vars >>
  BY <1>0, <1>4, CreationKnownIdle, CreationKnownStutters DEF creation_vars
<1> QED BY <1>0, <1>1, <1>2, <1>3, <1>4, StepWorks

(* A creation that is neither ended nor stranded can be rolled back, and its    *)
(* announced cleanup completed.                                               *)
CreationOpen ==
    journal.operation \in Bootstraps =>
        /\ BootstrapAccepted("rollback")
        /\ journal.phase \in {"cleanup-pending", "cleanup-done"} => BootstrapAccepted("resume")
LEMMA CreationStays ==
    ASSUME CompositionInv, CreationKnown, ~NoUnresolvedState, ~StrandedCreation
    PROVE  CreationOpen
<1> SUFFICES ASSUME journal.operation \in Bootstraps
             PROVE  /\ BootstrapAccepted("rollback")
                    /\ journal.phase \in CleanupPhases => BootstrapAccepted("resume")
  BY DEF CreationOpen, CleanupPhases
<1>1. ~journal.committed
  <2> SUFFICES ASSUME journal.committed PROVE FALSE
    OBVIOUS
  <2>1. TerminalBootstrap
    BY DEF CreationKnown, CreationClosed, CompletedLate, StrandedCreation
  <2>2. marker /\ TerminalHistory
    BY <2>1 DEF NoUnresolvedState, TerminalHistory
  <2> QED BY <2>2 DEF StrandedCreation
<1>2. InCreation /\ creating \in Authorities /\ journal.operation = Operation(creating)
  BY <1>1 DEF CompositionInv, Typed, Control, InCreation
<1>3. OwnNamed
  <2> SUFFICES ASSUME NEW o \in OwnObjects, made[o] = "published", Window(o) PROVE Named(o)
    BY <1>2 DEF CreationKnown, OwnKnown, OwnNamed
  <2>1. o \in {Authority(creating), OwnManifest}
    BY <1>2, OwnObjectsAre
  <2>2. CASE creating = "root"
    <3>1. journal.operation = "root-bootstrap" /\ OwnManifest = RootManifest
      BY <1>2, <2>2 DEF Operation, OwnManifest
    <3>2. o # ActiveManifest /\ o # Authority("intermediate")
      BY <2>1, <2>2, <3>1, MadeObjects DEF Authorities
    <3> QED BY <3>1, <3>2 DEF Window, StrandedCreation
  <2>3. CASE creating = "intermediate"
    <3>1. journal.operation = "intermediate-bootstrap" /\ OwnManifest = ActiveManifest
      BY <1>2, <2>3 DEF Operation, OwnManifest
    <3>2. o # RootManifest
      BY <2>1, <2>3, <3>1, MadeObjects DEF Authorities
    <3> QED BY <3>1, <3>2 DEF Window, StrandedCreation
  <2> QED BY <1>2, <2>2, <2>3 DEF Authorities
<1>4. Mutated # {} => Named(Room(creating))
  <2> SUFFICES ASSUME Mutated # {} PROVE Named(Room(creating))
    OBVIOUS
  <2>1. creating = "intermediate" /\ journal.operation = "intermediate-bootstrap"
    BY <1>2 DEF CreationKnown, OwnKnown, Operation
  <2>2. \/ Named(Room("intermediate"))
        \/ journal.phase = "recovering" /\ made[Room("intermediate")] = "absent"
    BY <1>2 DEF CreationKnown, OwnKnown
  <2> QED BY <1>1, <2>1, <2>2 DEF StrandedCreation
<1>5. WithdrawalAccepted
  BY <1>3, <1>4 DEF WithdrawalAccepted, OwnNamed, OwnObjects
<1>6. ASSUME journal.phase \in CleanupPhases PROVE CompletionAccepted
  <2>1. creating = "intermediate" /\ PairFinal
    BY <1>2, <1>6 DEF CreationKnown, OwnKnown
  <2>2. Cleaning
    BY <1>6 DEF Cleaning, CleanupPhases
  <2>3. /\ made[Authority("intermediate")] = "published" /\ made[Grant("intermediate")] = "consumed"
        /\ made[ActiveManifest] = "published" /\ made[RootManifest] = "absent"
        /\ \A k \in Keys \ Kept : made[RootEntry(k)] = "after"
    BY <2>1 DEF PairFinal, Whole, Manifests, EntriesAre
  <2> QED BY <1>5, <2>1, <2>2, <2>3 DEF CompletionAccepted
<1> QED BY <1>5, <1>6 DEF BootstrapAccepted

------------------------------------------------------------------------------
(* Of a migration: the files that each action needs are staged until they are   *)
(* used, and the journal tells whose removal the provenance's was.            *)

AllUndone == \A i \in 1 .. Len(RollbackPlan) : place[RollbackPlan[i].object] \notin RollbackPlan[i].from
RollbackFiled ==
    InMigration \/ Writing =>
        \A a \in Authorities : \A o \in {Config(a), Reservation(a)} :
            << o, "rollback" >> \in staged \/ (place[o] = "rollback" /\ ~Writing)
ResumeFiled == Writing \/ (InMigration /\ journal.action = "none") => ResumeStaged
WriterFiled ==
    Writing /\ process.at <= 5 => \A a \in Authorities : << Reservation(a), "consumed" >> \in staged
ProvenanceTaken ==
    InMigration /\ place[Provenance] = "removed" /\ journal.action # "resume" =>
        /\ journal.action = "rollback" /\ journal.step.action = "rollback"
        /\ journal.step.object = Provenance /\ AllUndone
RecovererKnows ==
    Recovering =>
        /\ process.mark # "none" => /\ journal.action = process.command
                                    /\ journal.step.action = process.command
                                    /\ journal.step.object = Entry.object
        /\ process.command = "rollback" /\ InMigration /\ place[Provenance] = "removed" =>
              journal.action = "rollback"
MigrationKnown == RollbackFiled /\ ResumeFiled /\ WriterFiled /\ ProvenanceTaken /\ RecovererKnows

------------------------------------------------------------------------------
(* The reservations are among the first entries of the plan.                   *)
LEMMA ReservesFirst ==
    /\ 4 \in 1 .. Len(Plan) /\ 3 \in 1 .. Len(Plan)
    /\ Plan[3] = Reserve("root") /\ Plan[4] = Reserve("intermediate")
<1> DEFINE E == MigrationEntries \cup {Record("pre-mutation"), Record("active-published"),
                      Publish(Provenance, "original", "published"), Record("provenance-published")}
           a == Reserving
           b == Publishing
           c == << Publish(Active, "original", "published") >>
           r == << Record("pre-mutation") >>
           t == << Record("active-published"), Publish(Provenance, "original", "published"),
                   Record("provenance-published") >>
<1>1. Forward = (a \o b) \o c /\ Plan = (r \o Forward) \o t
  BY DEF Forward, Plan
<1>2. /\ a \in Seq(E) /\ Len(a) = 4 /\ a[2] = Reserve("root") /\ a[3] = Reserve("intermediate")
  <2>1. /\ Publish(Session, "original", "published") \in E /\ Record("reserved") \in E
        /\ Reserve("root") \in E /\ Reserve("intermediate") \in E
    <3>1. Publish(Session, "original", "published") = Publication(Session)
      BY MigrationObjects DEF Publication, FinalPlace
    <3>2. Publication(Session) \in Publications(Objects)
      BY MigrationObjects DEF Publications
    <3> QED BY <3>1, <3>2 DEF MigrationEntries, Records, Reserves, MigrationPhases, Authorities
  <2> QED BY <2>1 DEF Reserving
<1>3. b \in Seq(E)
  <2>1. b \in Seq(Records \cup Publications(PublishedObjects))
    BY PublishingIs DEF Consists
  <2>2. Records \cup Publications(PublishedObjects) \subseteq E
    BY MigrationObjects DEF MigrationEntries, Publications
  <2> QED BY <2>1, <2>2
<1>4. c \in Seq(E) /\ r \in Seq(E) /\ t \in Seq(E) /\ Len(r) = 1
  <2>1. Publish(Active, "original", "published") \in E
    <3>1. Publish(Active, "original", "published") = Publication(Active)
      BY MigrationObjects DEF Publication, FinalPlace
    <3> QED BY <3>1, MigrationObjects DEF Publications, MigrationEntries
  <2> QED BY <2>1
<1> HIDE DEF E, a, b, c, r, t
<1>5. Joins(a \o b, E, a, b) /\ a \o b \in Seq(E)
  BY <1>2, <1>3, Joined
<1>6. Joins(Forward, E, a \o b, c)
  BY <1>1, <1>4, <1>5, Joined
<1>7. Len(b) \in Nat /\ Len(c) \in Nat /\ Len(t) \in Nat
  BY <1>3, <1>4
<1>8. /\ Forward \in Seq(E) /\ Len(Forward) \in Nat /\ Len(Forward) >= 4
      /\ Forward[2] = Reserve("root") /\ Forward[3] = Reserve("intermediate")
  BY <1>2, <1>5, <1>6, <1>7 DEF Joins
<1>9. Joins(r \o Forward, E, r, Forward) /\ r \o Forward \in Seq(E)
  BY <1>4, <1>8, Joined
<1>10. Joins(Plan, E, r \o Forward, t)
  BY <1>1, <1>4, <1>9, Joined
<1>11. 2 \in 1 .. Len(Forward) /\ 3 \in 1 .. Len(Forward)
  BY <1>8
<1>12. /\ Len(r \o Forward) = 1 + Len(Forward)
       /\ (r \o Forward)[3] = Forward[2] /\ (r \o Forward)[4] = Forward[3]
  BY <1>4, <1>9, <1>11 DEF Joins
<1> QED BY <1>7, <1>8, <1>10, <1>12 DEF Joins

(* All that a recovery needs is staged at first.                               *)
LEMMA StagedHas ==
    /\ \A a \in Authorities : << Config(a), "rollback" >> \in Staged /\ << Reservation(a), "rollback" >> \in Staged
    /\ \A o \in {Session, Active} \cup {Issuer(s) : s \in Services} \cup {Config(a) : a \in Authorities} :
          << o, "published" >> \in Staged
    /\ \A a \in Authorities : /\ << Reservation(a), "reserved" >> \in Staged
                              /\ << Reservation(a), "consumed" >> \in Staged
<1>1. \A i \in 1 .. Len(Plan) : Plan[i].kind = "publish" /\ ~Moves(Plan[i].object) =>
          << Plan[i].object, Plan[i].to >> \in Staged
  BY DEF Staged
<1>2. ASSUME NEW o \in Objects \ {Provenance} PROVE \E i \in 1 .. Len(Plan) : Plan[i] = Publication(o)
  BY <1>2, PlanIs DEF Ordered
<1>3. ASSUME NEW o \in Objects \ {Provenance}, ~Moves(o) PROVE << o, FinalPlace(o) >> \in Staged
  <2>1. PICK i \in 1 .. Len(Plan) : Plan[i] = Publication(o)
    BY <1>2
  <2>2. Plan[i].kind = "publish" /\ Plan[i].object = o /\ Plan[i].to = FinalPlace(o)
    BY <2>1 DEF Publication, Publish
  <2> QED BY <1>1, <1>3, <2>2
<1>4. ASSUME NEW o \in {Session, Active} \cup {Issuer(s) : s \in Services} \cup {Config(a) : a \in Authorities}
      PROVE  << o, "published" >> \in Staged
  <2>1. o[1] \in {"session", "active", "issuer", "config"} /\ o \in Objects /\ o # Provenance
    BY MigrationObjects, StatesOfObjects
  <2>2. ~Moves(o) /\ FinalPlace(o) = "published"
    BY <2>1 DEF Moves, FinalPlace
  <2> QED BY <1>3, <2>1, <2>2
<1>5. ASSUME NEW a \in Authorities
      PROVE  << Reservation(a), "reserved" >> \in Staged /\ << Reservation(a), "consumed" >> \in Staged
  <2>1. Reservation(a)[1] = "reservation" /\ Reservation(a) \in Objects /\ Reservation(a) # Provenance
    BY MigrationObjects, StatesOfObjects
  <2>2. ~Moves(Reservation(a)) /\ FinalPlace(Reservation(a)) = "consumed"
    BY <2>1 DEF Moves, FinalPlace
  <2>3. \E i \in 1 .. Len(Plan) : Plan[i] = Reserve(a)
    BY ReservesFirst DEF Authorities
  <2>4. Reserve(a).kind = "publish" /\ Reserve(a).object = Reservation(a) /\ Reserve(a).to = "reserved"
    BY DEF Reserve, Publish
  <2> QED BY <1>1, <1>3, <2>1, <2>2, <2>3, <2>4
<1>6. ASSUME NEW a \in Authorities
      PROVE  << Config(a), "rollback" >> \in Staged /\ << Reservation(a), "rollback" >> \in Staged
  BY DEF Staged
<1> QED BY <1>4, <1>5, <1>6

------------------------------------------------------------------------------
(* Nothing is known at first.                                                 *)
LEMMA MigrationKnownAtFirst == ASSUME Init PROVE MigrationKnown
<1>1. journal.operation = "none" /\ process.command = "none"
  BY NoJournalTyped, IdleTyped DEF Init
<1> QED BY <1>1
    DEF MigrationKnown, RollbackFiled, ResumeFiled, WriterFiled, ProvenanceTaken,
      RecovererKnows,
        InMigration, Writing, Recovering, Actions

(* A command that ends or is killed leaves it.                                *)
LEMMA MigrationKnownIdle ==
    ASSUME MigrationKnown, process' = Idle, journal' = journal, UNCHANGED migration_vars
    PROVE  MigrationKnown'
<1>1. place' = place /\ staged' = staged /\ process'.command = "none" /\ (InMigration' <=> InMigration)
  BY IdleTyped DEF migration_vars, InMigration
<1>2. ~Writing' /\ ~Recovering' /\ (AllUndone' <=> AllUndone) /\ (ResumeStaged' <=> ResumeStaged)
  BY <1>1 DEF Writing, Recovering, Actions, AllUndone, ResumeStaged
<1> QED BY <1>1, <1>2
    DEF MigrationKnown, RollbackFiled, ResumeFiled, WriterFiled, ProvenanceTaken, RecovererKnows

(* And so does a step that changes nothing of it.                             *)
LEMMA MigrationKnownStutters ==
    ASSUME MigrationKnown, process' = process, journal' = journal, UNCHANGED migration_vars
    PROVE  MigrationKnown'
<1>1. place' = place /\ staged' = staged /\ (InMigration' <=> InMigration)
  BY DEF migration_vars, InMigration
<1>2. /\ (Writing' <=> Writing) /\ (Recovering' <=> Recovering) /\ (AllUndone' <=> AllUndone)
      /\ (ResumeStaged' <=> ResumeStaged) /\ Entry' = Entry
  BY <1>1 DEF Writing, Recovering, AllUndone, ResumeStaged, Entry, RecoveryPlan
<1> QED BY <1>1, <1>2
    DEF MigrationKnown, RollbackFiled, ResumeFiled, WriterFiled, ProvenanceTaken, RecovererKnows

(* The other commands leave it, unfinished or not, as it is.                   *)
LEMMA MigrationKnownSpared ==
    ASSUME Typed, Typed', Owned, MigrationKnown, UNCHANGED migration_vars,
           NEW O, O \subseteq Operations, "legacy-migrate" \notin O, Works(O)
    PROVE  MigrationKnown'
<1>1. Control' /\ place' = place /\ staged' = staged
  BY DEF Typed, migration_vars
<1>2. ASSUME InMigration' PROVE journal' = journal /\ InMigration
  BY <1>2, NoJournalTyped DEF Works, InMigration
<1>3. process' = Idle \/ (~Running /\ process' = process) \/ process'.operation \in O
  BY DEF Works
<1>4. ~Writing' /\ ~Recovering'
  <2> SUFFICES ASSUME Writing' \/ Recovering' PROVE FALSE
    OBVIOUS
  <2>1. process'.operation = "legacy-migrate" /\ process'.command # "none"
    BY <1>1 DEF Control, Writing, Recovering, Actions
  <2> QED BY <1>3, <2>1, IdleTyped DEF Running
<1>5. (AllUndone' <=> AllUndone) /\ (ResumeStaged' <=> ResumeStaged)
  BY <1>1 DEF AllUndone, ResumeStaged
<1> QED BY <1>1, <1>2, <1>4, <1>5
        DEF MigrationKnown, RollbackFiled, ResumeFiled, WriterFiled, ProvenanceTaken,
          RecovererKnows

(* A step that moves no file keeps what is staged.                             *)
LEMMA SameFiles ==
    ASSUME RollbackFiled, ResumeFiled, place' = place, staged' = staged,
           Writing' => Writing, InMigration' => InMigration \/ Writing,
           InMigration' /\ journal'.action = "none" =>
               Writing \/ (InMigration /\ journal.action = "none")
    PROVE  RollbackFiled' /\ ResumeFiled'
<1>1. ResumeStaged' <=> ResumeStaged
  BY DEF ResumeStaged
<1> QED BY <1>1 DEF RollbackFiled, ResumeFiled

(* It begins with everything staged.                                          *)
LEMMA MigrationKnownBegun == ASSUME Typed, BeginMigration PROVE MigrationKnown'
<1>1. /\ staged' = Staged /\ journal' = journal /\ ~Outstanding
      /\ process'.command = "migrate" /\ process'.at = 1
  BY BegunIs, BeginsResolved DEF BeginMigration, Typed
<1>2. ~InMigration' /\ ~Recovering'
  BY <1>1 DEF InMigration, Outstanding, Recovering, Actions
<1>3. ResumeStaged'
  <2>1. \A o \in {Session, Active} \cup {Issuer(s) : s \in Services} \cup {Config(a) : a \in Authorities} :
           << o, "published" >> \in staged'
    BY <1>1, StagedHas
  <2>2. \A a \in Authorities : /\ << Reservation(a), "reserved" >> \in staged'
                               /\ << Reservation(a), "consumed" >> \in staged'
    BY <1>1, StagedHas
  <2> QED BY <2>1, <2>2 DEF ResumeStaged
<1>4. RollbackFiled' /\ WriterFiled'
  BY <1>1, StagedHas DEF RollbackFiled, WriterFiled
<1> QED BY <1>2, <1>3, <1>4 DEF MigrationKnown, ResumeFiled, ProvenanceTaken, RecovererKnows

(* A recovery begins over what it finds staged, and not over a provenance that  *)
(* another action removed.                                                    *)
LEMMA MigrationKnownRecovery ==
    ASSUME Typed, MigrationKnown, NEW action \in Actions, BeginRecovery(action) PROVE MigrationKnown'
<1>1. /\ place' = place /\ staged' = staged /\ journal' = journal /\ (InMigration' <=> InMigration)
      /\ process'.command = action /\ process'.mark = "none" /\ Preflight(action)
  BY BegunIs DEF BeginRecovery, InMigration, migration_vars
<1>2. ~Writing' /\ (AllUndone' <=> AllUndone)
  BY <1>1 DEF Writing, Actions, AllUndone
<1>3. RollbackFiled' /\ ResumeFiled'
  BY <1>1, <1>2, SameFiles DEF MigrationKnown
<1>4. RecovererKnows'
  <2>1. place[Provenance] = "removed" => journal.action = "rollback"
    BY <1>1 DEF Preflight, ProvenanceAccepted
  <2> QED BY <1>1, <2>1 DEF RecovererKnows
<1>5. ProvenanceTaken'
  BY <1>1, <1>2 DEF MigrationKnown, ProvenanceTaken
<1> QED BY <1>2, <1>3, <1>4, <1>5 DEF MigrationKnown, WriterFiled

(* A migration at work.                                                       *)
LEMMA Writes ==
    ASSUME Typed, MigrationInv, Writing, process.at <= Len(Plan)
    PROVE  /\ process.at \in 1 .. Len(Plan) /\ Len(Plan) \in Nat /\ process.at \in Nat
           /\ process \in ProcessType /\ process.operation = "legacy-migrate"
           /\ MigrationTyped /\ place[Provenance] \in {"original", "published"}
           /\ process.action = "none"
BY PlanIs
  DEF Typed, Control, JournalTyped, ProcessType, Writing, Ordered, Actions, MigrationInv,
    WriterInv

(* It writes its next journal, which no recovery has touched.                   *)
LEMMA MigrationKnownNoted ==
    ASSUME Typed, MigrationInv, MigrationKnown, WriterRecords PROVE MigrationKnown'
<1>1. /\ Writing /\ place' = place /\ staged' = staged /\ process.at <= Len(Plan)
      /\ Write(Plan[process.at].phase, FALSE) /\ process' = [process EXCEPT !.at = @ + 1]
  BY DEF WriterRecords, Planned
<1>2. /\ process.at \in Nat /\ process \in ProcessType
      /\ place[Provenance] \in {"original", "published"}
  BY <1>1, Writes
<1>3. process'.at = process.at + 1 /\ process'.command = "migrate"
  BY <1>1, <1>2 DEF ProcessType, Writing
<1>4. Writing' /\ ~Recovering'
  BY <1>3 DEF Writing, Recovering, Actions
<1>5. RollbackFiled' /\ ResumeFiled'
  BY <1>1, <1>4, SameFiles DEF MigrationKnown
<1>6. WriterFiled'
  BY <1>1, <1>2, <1>3 DEF MigrationKnown, WriterFiled
<1> QED BY <1>1, <1>2, <1>4, <1>5, <1>6 DEF MigrationKnown, ProvenanceTaken, RecovererKnows

(* It publishes its next object from its file.                                 *)
LEMMA MigrationKnownPut ==
    ASSUME Typed, MigrationInv, MigrationKnown, WriterPublishes PROVE MigrationKnown'
<1> DEFINE n == process.at
           e == Plan[process.at]
<1>1. /\ Writing /\ n <= Len(Plan) /\ Put(e.object, e.to) /\ e.kind = "publish" /\ journal' = journal
      /\ process' = [process EXCEPT !.at = @ + 1]
  BY DEF WriterPublishes, Planned
<1>2. /\ n \in Nat /\ process \in ProcessType /\ n \in 1 .. Len(Plan) /\ Len(Plan) \in Nat
      /\ MigrationTyped /\ place[Provenance] \in {"original", "published"}
  BY <1>1, Writes
<1>3. process'.at = n + 1 /\ process'.command = "migrate"
  BY <1>1, <1>2 DEF ProcessType, Writing
<1>4. Writing' /\ ~Recovering' /\ (InMigration' <=> InMigration)
  BY <1>1, <1>3 DEF Writing, Recovering, Actions, InMigration
<1>5. e \notin Records
  BY <1>1, RecordsPass
<1>6. /\ e.object \in Objects
      /\ \/ n <= 5 /\ e.to = "reserved" /\ e.object[1] = "reservation"
         \/ e.to = FinalPlace(e.object) /\ (e.object[1] = "reservation" => n > 5)
  <2>1. /\ e.object \in Objects
        /\ \/ n <= 5 /\ (\E a \in Authorities : e = Reserve(a)) /\ e.to = "reserved"
           \/ e = Publication(e.object) /\ e.to = FinalPlace(e.object)
        /\ e = Publication(e.object) /\ e.object[1] = "reservation" => n > 5
    BY <1>2, <1>5, PlanIs, OrderedAt
  <2>2. \A a \in Authorities : Reserve(a).object[1] = "reservation"
    BY MigrationObjects DEF Reserve, Publish
  <2> QED BY <2>1, <2>2
<1> HIDE DEF e, n
<1>7. /\ e.to \in {"reserved", "published", "consumed"}
      /\ e.object[1] # "reservation" => e.to = "published"
  BY <1>6 DEF FinalPlace
<1>8. /\ \A o \in Objects : place'[o] = IF o = e.object THEN e.to ELSE place[o]
      /\ staged' = staged \ {<< e.object, e.to >>}
  BY <1>1, <1>2, <1>6 DEF Put, MigrationTyped
<1>9. \A a \in Authorities : \A o \in {Config(a), Reservation(a)} : << o, "rollback" >> \in staged'
  BY <1>1, <1>7, <1>8 DEF MigrationKnown, RollbackFiled
<1>10. ResumeStaged
  BY <1>1 DEF MigrationKnown, ResumeFiled
<1>11. ASSUME NEW o \in {Session, Active} \cup {Issuer(s) : s \in Services}
                            \cup {Config(a) : a \in Authorities}, place'[o] = "original"
       PROVE  << o, "published" >> \in staged'
  <2>1. o \in Objects
    BY StatesOfObjects
  <2>2. o # e.object /\ place[o] = "original"
    BY <1>7, <1>8, <1>11, <2>1
  <2> QED BY <1>8, <1>10, <2>2 DEF ResumeStaged
<1>12. ASSUME NEW a \in Authorities
       PROVE  /\ place'[Reservation(a)] = "original" => << Reservation(a), "reserved" >> \in staged'
              /\ place'[Reservation(a)] # "consumed" => << Reservation(a), "consumed" >> \in staged'
  <2>1. Reservation(a) \in Objects /\ Reservation(a)[1] = "reservation"
    BY StatesOfObjects, MigrationObjects
  <2>2. CASE Reservation(a) # e.object
    BY <1>8, <1>10, <2>1, <2>2 DEF ResumeStaged
  <2>3. CASE Reservation(a) = e.object /\ e.to = "reserved"
    <3>1. n <= 5
      BY <1>6, <2>1, <2>3 DEF FinalPlace
    <3>2. << Reservation(a), "consumed" >> \in staged
      BY <1>1, <3>1 DEF MigrationKnown, WriterFiled, n
    <3> QED BY <1>8, <2>1, <2>3, <3>2
  <2>4. CASE Reservation(a) = e.object /\ e.to # "reserved"
    <3>1. e.to = "consumed"
      BY <1>6, <2>1, <2>4 DEF FinalPlace
    <3> QED BY <1>8, <2>1, <2>4, <3>1
  <2> QED BY <2>2, <2>3, <2>4
<1>13. ResumeStaged'
  BY <1>11, <1>12 DEF ResumeStaged
<1>14. WriterFiled'
  <2> SUFFICES ASSUME n + 1 <= 5, NEW a \in Authorities PROVE << Reservation(a), "consumed" >> \in staged'
    BY <1>3 DEF WriterFiled
  <2>1. << Reservation(a), "consumed" >> \in staged
    BY <1>1, <1>2 DEF MigrationKnown, WriterFiled, n
  <2>2. Reservation(a)[1] = "reservation"
    BY MigrationObjects
  <2>3. e.object = Reservation(a) => e.to # "consumed"
    BY <1>2, <1>6, <2>2 DEF n
  <2> QED BY <1>8, <2>1, <2>3
<1>15. place'[Provenance] # "removed"
  <2>1. Provenance \in Objects
    BY StatesOfObjects
  <2> QED BY <1>2, <1>7, <1>8, <2>1
<1> QED BY <1>4, <1>9, <1>13, <1>14, <1>15
        DEF MigrationKnown, RollbackFiled, ResumeFiled, ProvenanceTaken, RecovererKnows

(* It closes its journal.                                                     *)
LEMMA MigrationKnownClosed ==
    ASSUME Typed, MigrationInv, MigrationKnown, WriterCommits PROVE MigrationKnown'
<1>1. /\ Writing /\ place' = place /\ staged' = staged /\ ~InMigration'
      /\ process' = [process EXCEPT !.at = @ + 1] /\ process.at = Len(Plan) + 1
  BY DEF WriterCommits, migration_vars, Write, NoJournal, InMigration
<1>2. process.at \in Nat /\ process \in ProcessType /\ Len(Plan) \in Nat
  BY PlanIs DEF Typed, JournalTyped, ProcessType, Ordered
<1>3. process'.at = process.at + 1 /\ process'.command = "migrate"
  BY <1>1, <1>2 DEF ProcessType, Writing
<1>4. Writing' /\ ~Recovering'
  BY <1>3 DEF Writing, Recovering, Actions
<1>5. RollbackFiled' /\ ResumeFiled'
  BY <1>1, <1>4, SameFiles DEF MigrationKnown
<1>6. WriterFiled'
  BY <1>1, <1>2, <1>3 DEF MigrationKnown, WriterFiled
<1> QED BY <1>1, <1>4, <1>5, <1>6 DEF MigrationKnown, ProvenanceTaken, RecovererKnows

(* A step of a recovery that changes no object.                                *)
LEMMA RecoveryKnowsKept ==
    ASSUME Typed, MigrationInv, MigrationKnown, Working, place' = place, staged' = staged, InMigration',
           process'.command = process.command, process'.operation = process.operation,
           \/ journal' = journal /\ process'.mark = "none"
           \/ process.command = "resume" /\ journal'.action = "resume" /\ process'.mark = "none"
           \/ /\ process'.at = process.at /\ journal'.action = process.command
              /\ journal'.step.action = process.command /\ journal'.step.object = Entry.object
              /\ process.mark = "none" => Due(Entry)
              /\ process.mark \in {"none", "made"}
    PROVE  MigrationKnown'
<1>1. /\ Recovering /\ process.command \in Actions /\ InMigration /\ process.operation = "legacy-migrate"
      /\ process.at \in 1 .. Len(RecoveryPlan)
  BY RecoveryWorks
<1>2. ~Writing' /\ ~Writing /\ Recovering' /\ RecoveryPlan' = RecoveryPlan
      /\ (AllUndone' <=> AllUndone)
  BY <1>1 DEF Writing, Recovering, Actions, RecoveryPlan, AllUndone
<1>3. journal' = journal \/ (journal'.action = process.command /\ journal'.action # "none")
  BY <1>1 DEF Actions
<1>4. RollbackFiled' /\ ResumeFiled'
  BY <1>1, <1>2, <1>3, SameFiles DEF MigrationKnown
<1>5. CASE journal' = journal /\ process'.mark = "none"
  <2>1. ProvenanceTaken'
    BY <1>1, <1>2, <1>5 DEF MigrationKnown, ProvenanceTaken
  <2>2. RecovererKnows'
    BY <1>1, <1>2, <1>5 DEF MigrationKnown, RecovererKnows
  <2> QED BY <1>2, <1>4, <2>1, <2>2 DEF MigrationKnown, WriterFiled
<1>6. CASE process.command = "resume" /\ journal'.action = "resume" /\ process'.mark = "none"
  <2>1. ProvenanceTaken'
    BY <1>6 DEF ProvenanceTaken
  <2>2. RecovererKnows'
    BY <1>2, <1>6 DEF RecovererKnows
  <2> QED BY <1>2, <1>4, <2>1, <2>2 DEF MigrationKnown, WriterFiled
<1>7. CASE /\ process'.at = process.at /\ journal'.action = process.command
           /\ journal'.step.action = process.command /\ journal'.step.object = Entry.object
           /\ process.mark = "none" => Due(Entry)
           /\ process.mark \in {"none", "made"}
  <2>1. Entry' = Entry
    BY <1>2, <1>7 DEF Entry
  <2>2. RecovererKnows'
    BY <1>2, <1>7, <2>1 DEF RecovererKnows
  <2>3. ProvenanceTaken'
    <3> SUFFICES ASSUME place[Provenance] = "removed", process.command = "rollback"
                 PROVE  Entry.object = Provenance /\ AllUndone
      BY <1>1, <1>2, <1>7 DEF ProvenanceTaken, Actions
    <3>1. journal.action = "rollback"
      BY <1>1 DEF MigrationKnown, RecovererKnows
    <3>2. journal.step.object = Provenance /\ AllUndone
      BY <1>1, <3>1 DEF MigrationKnown, ProvenanceTaken
    <3>3. ~Due(Entry)
      BY <1>1, <3>2 DEF AllUndone, Due, RecoveryPlan, Entry
    <3>4. process.mark = "made"
      BY <1>7, <3>3
    <3>5. journal.step.object = Entry.object
      BY <1>1, <3>4 DEF MigrationKnown, RecovererKnows
    <3> QED BY <3>2, <3>5
  <2> QED BY <1>2, <1>4, <2>2, <2>3 DEF MigrationKnown, WriterFiled
<1> QED BY <1>5, <1>6, <1>7

(* What it changes under announcement, and with which file.                    *)
LEMMA MakesChange ==
    ASSUME Typed, MigrationInv, MakeChange,
           NEW to, to = IF Entry.to = "removed" /\ place[Provenance] # "partial" THEN "partial" ELSE Entry.to
    PROVE  /\ Entry.object \in Objects /\ place[Entry.object] \in Entry.from
           /\ \A o \in Objects : place'[o] = IF o = Entry.object THEN to ELSE place[o]
           /\ staged' = staged \ {<< Entry.object, to >>}
           /\ to \in {"partial", "removed"} => Entry.object = Provenance
           /\ \A a \in Authorities : Entry.object \in {Config(a), Reservation(a)} =>
                 place[Entry.object] # "rollback"
           /\ process'.command = process.command /\ process'.operation = process.operation
           /\ process'.at = process.at
<1>1. /\ Recovering /\ process.at \in 1 .. Len(RecoveryPlan) /\ process \in ProcessType
      /\ MigrationTyped /\ Working /\ Due(Entry) /\ process.command \in Actions
      /\ process.mark = "pending"
  BY RecoveryWorks DEF MakeChange, Typed, MigrationInv, RecovererInv
<1>2. /\ Entry.kind = "publish" /\ Entry.object \in Objects /\ place[Entry.object] \in Entry.from
      /\ Entry.to = "removed" => Entry.object = Provenance
      /\ Entry.to \in Places(Entry.object)
  <2>1. Entry.kind = "publish" /\ place[Entry.object] \in Entry.from
    BY <1>1 DEF Due
  <2> QED BY <1>1, <2>1, RecoveryEntryKinds DEF Entry
<1>3. Put(Entry.object, to)
  BY <1>2 DEF MakeChange
<1>4. to \in {"partial", "removed"} => Entry.object = Provenance
  <2>1. Entry.to = "partial" => Entry.object = Provenance
    <3>1. Entry.object # Provenance => "partial" \notin Places(Entry.object)
      BY <1>2 DEF Places, Objects, Tree, Config, Reservation, Issuer, Quarantine, Session,
        Active, Provenance
    <3> QED BY <1>2, <3>1
  <2> QED BY <1>2, <2>1
<1>5. /\ \A o \in Objects : place'[o] = IF o = Entry.object THEN to ELSE place[o]
      /\ staged' = staged \ {<< Entry.object, to >>}
  BY <1>1, <1>2, <1>3 DEF Put, MigrationTyped
<1>6. ASSUME NEW a \in Authorities, Entry.object \in {Config(a), Reservation(a)}
      PROVE  "rollback" \notin Entry.from
  <2>1. CASE process.command = "rollback"
    <3>1. Entry = UndoOf(Entry.object)
      BY <1>1, <2>1, RollbackAt DEF Entry, RecoveryPlan
    <3> QED BY <1>6, <3>1, UndoIs DEF RestoreConfig, Abandon, Undo
  <2>2. CASE process.command = "resume"
    <3>1. Entry.from \subseteq {"original", "reserved"}
      BY <1>1, <1>2, <2>2, RemainingAt DEF Entry, RecoveryPlan
    <3> QED BY <3>1
  <2> QED BY <1>1, <2>1, <2>2 DEF Actions
<1>7. /\ process'.command = process.command /\ process'.operation = process.operation
      /\ process'.at = process.at
  BY <1>1 DEF MakeChange, ProcessType
<1> QED BY <1>2, <1>4, <1>5, <1>6, <1>7

(* It keeps what is staged, and removes the provenance when all else is undone.  *)
LEMMA MigrationKnownChanged ==
    ASSUME Typed, MigrationInv, MigrationKnown, MakeChange PROVE MigrationKnown'
<1> DEFINE to == IF Entry.to = "removed" /\ place[Provenance] # "partial" THEN "partial" ELSE Entry.to
<1>1. /\ Entry.object \in Objects /\ place[Entry.object] \in Entry.from
      /\ \A o \in Objects : place'[o] = IF o = Entry.object THEN to ELSE place[o]
      /\ staged' = staged \ {<< Entry.object, to >>}
      /\ to \in {"partial", "removed"} => Entry.object = Provenance
      /\ \A a \in Authorities : Entry.object \in {Config(a), Reservation(a)} =>
            place[Entry.object] # "rollback"
      /\ process'.command = process.command /\ process'.operation = process.operation
      /\ process'.at = process.at
  BY MakesChange
<1> HIDE DEF to
<1>2. /\ Recovering /\ process.mark = "pending" /\ journal' = journal /\ process.command \in Actions
      /\ Working /\ InMigration /\ process.at \in 1 .. Len(RecoveryPlan)
      /\ \A i \in 1 .. Len(RecoveryPlan) : i < process.at => Passed(RecoveryPlan[i])
      /\ Len(RecoveryPlan) \in Nat
  BY RecoveryWorks DEF MakeChange
<1>3. ~Writing' /\ ~Writing /\ Recovering' /\ RecoveryPlan' = RecoveryPlan /\ Entry' = Entry
      /\ InMigration'
  BY <1>1, <1>2 DEF Writing, Recovering, Actions, RecoveryPlan, InMigration, Entry
<1>4. /\ journal.action = process.command /\ journal.step.action = process.command
      /\ journal.step.object = Entry.object /\ journal.action # "none"
  BY <1>2 DEF MigrationKnown, RecovererKnows, Actions
<1>5. RollbackFiled'
  <2> SUFFICES ASSUME NEW a \in Authorities, NEW o \in {Config(a), Reservation(a)}
               PROVE  << o, "rollback" >> \in staged' \/ place'[o] = "rollback"
    BY <1>3 DEF RollbackFiled
  <2>1. o \in Objects
    BY StatesOfObjects
  <2>2. << o, "rollback" >> \in staged \/ place[o] = "rollback"
    BY <1>2 DEF MigrationKnown, RollbackFiled
  <2>3. CASE o = Entry.object
    BY <1>1, <2>1, <2>2, <2>3
  <2>4. CASE o # Entry.object
    BY <1>1, <2>1, <2>2, <2>4
  <2> QED BY <2>3, <2>4
<1>6. ResumeFiled' /\ WriterFiled'
  BY <1>2, <1>3, <1>4 DEF ResumeFiled, WriterFiled
<1>7. RecovererKnows'
  BY <1>1, <1>2, <1>3, <1>4 DEF RecovererKnows
<1>8. ProvenanceTaken'
  <2> SUFFICES ASSUME place'[Provenance] = "removed", process.command = "rollback"
               PROVE  Entry.object = Provenance /\ AllUndone'
    BY <1>2, <1>4 DEF ProvenanceTaken, Actions
  <2>1. RecoveryPlan = RollbackPlan /\ Provenance \in Objects
    BY StatesOfObjects DEF RecoveryPlan
  <2>2. Entry.object = Provenance
    <3> SUFFICES ASSUME Entry.object # Provenance PROVE FALSE
      OBVIOUS
    <3>1. place[Provenance] = "removed"
      BY <1>1, <2>1
    <3>2. AllUndone
      BY <1>2, <1>4, <3>1 DEF MigrationKnown, ProvenanceTaken
    <3> QED BY <1>1, <1>2, <2>1, <3>2 DEF AllUndone, Entry
  <2>3. process.at = Len(RollbackPlan)
    BY <1>2, <2>1, <2>2, RollbackAt DEF Entry
  <2>4. ASSUME NEW i \in 1 .. Len(RollbackPlan)
        PROVE  place'[RollbackPlan[i].object] \notin RollbackPlan[i].from
    <3>1. RollbackPlan[i].object \in Objects /\ RollbackPlan[i].kind = "publish"
      BY RollbackAt
    <3>2. CASE RollbackPlan[i].object = Provenance
      <4>1. RollbackPlan[i].from = {"original", "published", "partial"}
        BY <3>2, RollbackAt
      <4> QED BY <3>2, <4>1
    <3>3. CASE RollbackPlan[i].object # Provenance
      <4>1. i < process.at
        BY <1>2, <2>1, <2>2, <2>3, <3>3 DEF Entry
      <4>2. place[RollbackPlan[i].object] \notin RollbackPlan[i].from
        BY <1>2, <2>1, <3>1, <4>1 DEF Passed
      <4> QED BY <1>1, <2>2, <3>1, <3>3, <4>2
    <3> QED BY <3>2, <3>3
  <2> QED BY <2>2, <2>4 DEF AllUndone
<1> QED BY <1>5, <1>6, <1>7, <1>8 DEF MigrationKnown

(* It closes its journal.                                                     *)
LEMMA MigrationKnownEnded ==
    ASSUME Typed, MigrationInv, MigrationKnown, RecoveryCommits PROVE MigrationKnown'
<1>1. /\ Recovering /\ place' = place /\ staged' = staged /\ ~InMigration' /\ process \in ProcessType
      /\ process'.mark = "none" /\ process'.command = process.command /\ process.command \in Actions
      /\ process'.operation = process.operation
  BY DEF RecoveryCommits, migration_vars, Write, NoJournal, InMigration, Advance, Typed,
    JournalTyped,
         ProcessType, Recovering
<1>2. ~Writing' /\ Recovering'
  BY <1>1 DEF Writing, Recovering, Actions
<1> QED BY <1>1, <1>2
        DEF MigrationKnown, RollbackFiled, ResumeFiled, WriterFiled, ProvenanceTaken,
          RecovererKnows

(* Every step of a recovery keeps it.                                         *)
LEMMA MigrationKnownRecovers ==
    ASSUME Typed, MigrationInv, MigrationKnown, RecoverySteps PROVE MigrationKnown'
<1>0. process \in ProcessType /\ journal \in JournalType
  BY DEF Typed, JournalTyped
<1>1. Working => InMigration /\ process.command \in Actions /\ process.at \in 1 .. Len(RecoveryPlan)
  BY RecoveryWorks
<1>2. CASE RecoveryRecords
  <2>1. /\ Working /\ place' = place /\ staged' = staged /\ InMigration'
        /\ process'.command = process.command
        /\ process'.operation = process.operation /\ process'.mark = "none" /\ Entry.kind = "record"
        /\ journal'.action = process.action
    BY <1>0, <1>2 DEF RecoveryRecords, Write, NoJournal, Advance, InMigration, ProcessType,
                      migration_vars
  <2>2. process.command = "resume"
    <3> SUFFICES ASSUME process.command = "rollback" PROVE FALSE
      BY <1>1, <2>1 DEF Actions
    <3>1. RecoveryPlan = RollbackPlan
      BY DEF RecoveryPlan
    <3> QED BY <1>1, <2>1, <3>1, RollbackAt DEF Entry
  <2>3. process.action = "resume"
    BY <2>2 DEF Typed, Control, Actions
  <2> QED BY <2>1, <2>2, <2>3, RecoveryKnowsKept
<1>3. ASSUME NEW mark, Working, Checkpoint(mark)
      PROVE  /\ place' = place /\ staged' = staged /\ InMigration' /\ process'.command = process.command
             /\ process'.operation = process.operation /\ process'.at = process.at
             /\ journal'.action = process.command /\ journal'.step = Step(process.command, Entry.object, mark)
  BY <1>0, <1>1, <1>3 DEF Checkpoint, InMigration, JournalType, ProcessType, migration_vars
<1>4. ASSUME NEW mark
      PROVE  /\ Step(process.command, Entry.object, mark).action = process.command
             /\ Step(process.command, Entry.object, mark).object = Entry.object
  BY DEF Step
<1>5. CASE AnnounceChange
  <2>1. Working /\ Checkpoint("pending") /\ Due(Entry) /\ process.mark = "none"
    BY <1>5 DEF AnnounceChange
  <2> QED BY <1>3, <1>4, <2>1, RecoveryKnowsKept
<1>6. CASE RecordChange
  <2>1. Working /\ Checkpoint("done") /\ process.mark = "made"
    BY <1>6 DEF RecordChange
  <2> QED BY <1>3, <1>4, <2>1, RecoveryKnowsKept
<1>7. CASE PassChange \/ PassOver
  <2>1. /\ Working /\ place' = place /\ staged' = staged /\ InMigration' /\ process'.command = process.command
        /\ process'.operation = process.operation /\ process'.mark = "none" /\ journal' = journal
    BY <1>0, <1>1, <1>7
      DEF PassChange, PassOver, Advance, InMigration, ProcessType, migration_vars
  <2> QED BY <2>1, RecoveryKnowsKept
<1>8. CASE MakeChange
  BY <1>8, MigrationKnownChanged
<1>9. CASE RecoveryRefuses
  BY <1>9, MigrationKnownIdle DEF RecoveryRefuses
<1>10. CASE RecoveryCommits
  BY <1>10, MigrationKnownEnded
<1>11. CASE RecoveryReturns
  BY <1>11, MigrationKnownIdle DEF RecoveryReturns
<1> QED BY <1>2, <1>5, <1>6, <1>7, <1>8, <1>9, <1>10, <1>11 DEF RecoverySteps

(* It is inductive.                                                           *)
LEMMA MigrationKnownKept ==
    ASSUME CompositionInv, MigrationKnown, [Next]_vars PROVE MigrationKnown'
<1>0. Typed /\ Typed' /\ Owned /\ MigrationInv
  BY StepIsTyped DEF CompositionInv
<1>1. ASSUME Works(Bootstraps), UNCHANGED migration_vars PROVE MigrationKnown'
  BY <1>0, <1>1, MigrationKnownSpared DEF Operations, Bootstraps
<1>2. ASSUME Works({"rollover-prepare"}), UNCHANGED migration_vars PROVE MigrationKnown'
  BY <1>0, <1>2, MigrationKnownSpared DEF Operations
<1>3. CASE Migrates
  <2>1. CASE BeginMigration
    BY <1>0, <2>1, MigrationKnownBegun
  <2>2. CASE WriterSteps
    <3>1. CASE WriterReturns
      BY <3>1, MigrationKnownIdle DEF WriterReturns
    <3> QED BY <1>0, <2>2, <3>1, MigrationKnownNoted, MigrationKnownPut,
        MigrationKnownClosed DEF WriterSteps
  <2>3. CASE RecoverySteps
    BY <1>0, <2>3, MigrationKnownRecovers
  <2>4. CASE MigrationFails
    BY <2>4, MigrationKnownIdle DEF MigrationFails, Failing
  <2>5. ASSUME NEW action \in Actions, BeginRecovery(action) PROVE MigrationKnown'
    BY <1>0, <2>5, MigrationKnownRecovery
  <2> QED BY <1>3, <2>1, <2>2, <2>3, <2>4, <2>5 DEF Migrates, CommandSteps
<1>4. CASE /\ process' = Idle \/ process' = process
           /\ UNCHANGED << journal, migration_vars >>
  BY <1>4, MigrationKnownIdle, MigrationKnownStutters
<1> QED BY <1>0, <1>1, <1>2, <1>3, <1>4, StepWorks

(* A migration that is neither ended nor stranded can be rolled back, and       *)
(* resumed when no recovery touched it.                                       *)
MigrationOpen ==
    journal.operation = "legacy-migrate" =>
        Preflight("rollback") /\ (journal.action = "none" => Preflight("resume"))
LEMMA MigrationStays ==
    ASSUME CompositionInv, MigrationKnown, ~NoUnresolvedState, ~StrandedMigration PROVE MigrationOpen
<1> SUFFICES ASSUME journal.operation = "legacy-migrate"
             PROVE  Preflight("rollback") /\ (journal.action = "none" => Preflight("resume"))
  BY DEF MigrationOpen
<1>1. ~journal.committed
  BY DEF StrandedMigration, NoUnresolvedState
<1>2. InMigration /\ Actionable
  BY <1>1 DEF InMigration, Actionable
<1>3. ProvenanceAccepted
  <2>1. ProvenanceAccepted \/ (place[Provenance] = "removed" /\ journal.action # "resume")
    BY <1>2 DEF StrandedMigration
  <2> QED BY <1>2, <2>1 DEF MigrationKnown, ProvenanceTaken, ProvenanceAccepted
<1>4. RollbackStaged
  <2>1. \A a \in Authorities : \A o \in {Config(a), Reservation(a)} :
            << o, "rollback" >> \in staged \/ place[o] = "rollback"
    BY <1>2 DEF MigrationKnown, RollbackFiled
  <2> QED BY <2>1 DEF RollbackStaged
<1>5. journal.action = "none" => ResumeStaged
  BY <1>2 DEF MigrationKnown, ResumeFiled
<1> QED BY <1>3, <1>4, <1>5 DEF Preflight

------------------------------------------------------------------------------
(* Of a preparation: every recovery that was under way excuses what it took    *)
(* away, and finds staged what it has yet to put in place.                    *)

(* The journal of an unfinished preparation says what was last attempted.      *)
Labelled ==
    /\ journal.action = IF journal.step.action \in Actions THEN journal.step.action ELSE "none"
    /\ journal.action = "resume" => Evidence.staged
Evident == Evidence.staged => Evidence.directory /\ Evidence.filed
ReservationsFiled == Evidence.filed => ReservationsReady

(* A rollback took nothing away that its journal does not excuse, and it has    *)
(* undone all that comes before the step it announced.                        *)
Excusable == \A o \in Candidates \cup {State} : part[o] = "absent" => Excused("rollback", o)
RolledBackTo ==
    journal.action = "rollback" =>
        \E j \in 1 .. Len(StagedRollback) :
            /\ StagedRollback[j].object = journal.step.object
            /\ \A i \in 1 .. Len(StagedRollback) : i < j => Repaired(StagedRollback[i])

(* The files of the database's entries are staged until they are used, and      *)
(* what is restored is recorded, or announced.                                *)
EntriesFiled ==
    part[Stage] = "staged" =>
        /\ \A k \in Database \ Created : part[DbEntry(k)] # "restored" =>
              << DbEntry(k), "restored" >> \in workspace
        /\ \A k \in Database \ Kept : part[DbEntry(k)] = "before" =>
              \/ << DbEntry(k), "after" >> \in workspace
              \/ k \in Created /\ journal.action = "rollback"
RestoredKnown ==
    \A k \in Database : part[DbEntry(k)] = "restored" =>
        k \in Evidence.restored \/ Pending("rollback", DbEntry(k))

JournalKnows ==
    InPreparation =>
        /\ Labelled /\ Evident /\ ReservationsFiled
        /\ Evidence.staged => Excusable /\ RolledBackTo /\ EntriesFiled /\ RestoredKnown

(* The command itself makes all that, before it says so.                       *)
StageMade ==
    (\A o \in StageParts \cup {Stage} : part[o] = "staged") /\ StageFiles \subseteq workspace
PreparerKnows ==
    Preparing /\ Changing =>
        /\ process.at > 1 =>
              journal.action = "none" /\ \A k \in Database : part[DbEntry(k)] # "restored"
        /\ process.at > 2 => Evidence.directory
        /\ process.at > 3 => part[State] \in {"staged", "published"}
        /\ process.at = 5 => ReservationsReady
        /\ process.at = Len(PreparationStaging) => StageMade
        /\ process.at = Len(PreparationStaging) - 1 /\ process.mark = "made" => StageMade

(* A rollback that repeats one finds the entry that was announced before it      *)
(* announces another; a resume finds nothing of that kind.                    *)
Revisited(k) ==
    /\ process.step = Step("rollback", DbEntry(k), "pending")
    /\ \A i \in 1 .. Len(Repairs) : i < process.at => Repairs[i].object # DbEntry(k)
RollbackKnows ==
    \A k \in Database :
        /\ Revisited(k) => IF process.mark = "none" THEN journal.step = process.step
                           ELSE RepairEntry.object = DbEntry(k)
        /\ process.mark = "none" /\ part[DbEntry(k)] = "restored" /\ k \notin Evidence.restored =>
              Revisited(k)
ResumeKnows ==
    /\ \A k \in Database \ Kept : part[DbEntry(k)] = "before" => << DbEntry(k), "after" >> \in workspace
    /\ \A k \in Database : part[DbEntry(k)] = "restored" => k \in Evidence.restored
RepairerKnows ==
    Repairing /\ InPreparation =>
        /\ process.mark # "none" => /\ journal.action = process.command
                                    /\ journal.step = Step(process.command, RepairEntry.object, "pending")
        /\ process.command = "rollback" /\ Evidence.staged => RollbackKnows
        /\ process.command = "resume" => ResumeKnows

Closed ==
    journal.operation = "rollover-prepare" /\ journal.committed => journal.action \in Actions
PreparationKnown == JournalKnows /\ PreparerKnows /\ RepairerKnows /\ Closed

------------------------------------------------------------------------------
(* The order of a rollback: where a part stands in it.                         *)
Rank(o) ==
    CASE o[1] = "pointer" -> 0
      [] o[1] = "database" -> 1
      [] o[1] = "candidate" -> IF o[2] = "root" THEN 3 ELSE 2
      [] o[1] = "state" -> 4
      [] o[1] = "stage" -> 5
      [] o[1] = "reservation" -> IF o[2] = "root" THEN 7 ELSE 6
      [] OTHER -> 8
Fixes == Repairings(RolledBack \cup EndingParts)
Ascends(s, low, high) ==
    /\ s \in Seq(Fixes)
    /\ \A i \in 1 .. Len(s) : low <= Rank(s[i].object) /\ Rank(s[i].object) <= high
    /\ \A i, j \in 1 .. Len(s) : i < j =>
          Rank(s[i].object) <= Rank(s[j].object) /\ s[i].object # s[j].object

LEMMA RankIs ==
    /\ \A o : Rank(o) \in 0 .. 8
    /\ \A k \in Keys : Rank(DbEntry(k)) = 1
    /\ Rank(Pointer) = 0 /\ Rank(State) = 4 /\ Rank(Stage) = 5 /\ Rank(BackupSession) = 8
    /\ Rank(Candidate("root")) = 3 /\ Rank(Candidate("intermediate")) = 2
    /\ Rank(Reserved("root")) = 7 /\ Rank(Reserved("intermediate")) = 6
BY DEF Rank, Pointer, State, Stage, BackupSession, Candidate, Reserved, DbEntry

(* One rollback after another that starts where the first ended.               *)
LEMMA AscendsJoined ==
    ASSUME NEW s, NEW t, NEW low \in Nat, NEW mid \in Nat, NEW next \in Nat, NEW high \in Nat,
           low <= mid, mid < next, next <= high, Ascends(s, low, mid), Ascends(t, next, high)
    PROVE  Ascends(s \o t, low, high)
<1> DEFINE r == s \o t
<1>1. s \in Seq(Fixes) /\ t \in Seq(Fixes) /\ Len(s) \in Nat /\ Len(t) \in Nat
  BY DEF Ascends
<1>2. Joins(r, Fixes, s, t)
  BY <1>1, Joined
<1> HIDE DEF r
<1>3. r \in Seq(Fixes) /\ Len(r) = Len(s) + Len(t)
  BY <1>2 DEF Joins
<1>4. ASSUME NEW i \in 1 .. Len(r)
      PROVE  IF i <= Len(s) THEN i \in 1 .. Len(s) /\ r[i] = s[i]
             ELSE i - Len(s) \in 1 .. Len(t) /\ r[i] = t[i - Len(s)]
  <2>1. CASE i <= Len(s)
    BY <1>1, <1>2, <2>1 DEF Joins
  <2>2. CASE ~(i <= Len(s))
    <3>1. i - Len(s) \in 1 .. Len(t) /\ Len(s) + (i - Len(s)) = i
      BY <1>1, <1>3, <2>2
    <3> QED BY <1>2, <2>2, <3>1 DEF Joins
  <2> QED BY <2>1, <2>2
<1>5. ASSUME NEW i \in 1 .. Len(r)
      PROVE  IF i <= Len(s) THEN low <= Rank(r[i].object) /\ Rank(r[i].object) <= mid
             ELSE next <= Rank(r[i].object) /\ Rank(r[i].object) <= high
  BY <1>4 DEF Ascends
<1>6. \A o : Rank(o) \in Nat
  BY RankIs
<1>7. \A i \in 1 .. Len(r) : low <= Rank(r[i].object) /\ Rank(r[i].object) <= high
  BY <1>5, <1>6
<1>8. ASSUME NEW i \in 1 .. Len(r), NEW j \in 1 .. Len(r), i < j
      PROVE  Rank(r[i].object) <= Rank(r[j].object) /\ r[i].object # r[j].object
  <2>1. CASE j <= Len(s)
    <3>1. i <= Len(s)
      BY <1>1, <1>8, <2>1
    <3> QED BY <1>4, <1>8, <2>1, <3>1 DEF Ascends
  <2>2. CASE i <= Len(s) /\ ~(j <= Len(s))
    <3>1. Rank(r[i].object) <= mid /\ next <= Rank(r[j].object)
      BY <1>5, <2>2
    <3>2. Rank(r[i].object) < Rank(r[j].object)
      BY <1>6, <3>1
    <3> QED BY <1>6, <3>2
  <2>3. CASE ~(i <= Len(s)) /\ ~(j <= Len(s))
    <3>1. /\ i - Len(s) \in 1 .. Len(t) /\ r[i] = t[i - Len(s)]
          /\ j - Len(s) \in 1 .. Len(t) /\ r[j] = t[j - Len(s)]
      BY <1>4, <2>3
    <3>2. i - Len(s) < j - Len(s)
      BY <1>1, <1>8
    <3> QED BY <3>1, <3>2 DEF Ascends
  <2> QED BY <2>1, <2>2, <2>3
<1> QED BY <1>3, <1>7, <1>8 DEF Ascends, r

LEMMA AscendsOne ==
    ASSUME NEW o \in RolledBack \cup EndingParts
    PROVE  Ascends(<< RepairOf(o) >>, Rank(o), Rank(o))
<1>1. RepairOf(o) \in Fixes
  BY DEF Fixes, Repairings
<1>2. RepairOf(o).object = o
  BY DEF RepairOf, Fix
<1>3. Rank(o) \in Nat
  BY RankIs
<1> DEFINE s == << RepairOf(o) >>
<1>4. s \in Seq(Fixes) /\ Len(s) = 1 /\ s[1] = RepairOf(o)
  BY <1>1
<1> HIDE DEF s
<1>5. \A i \in 1 .. Len(s) : s[i].object = o
  BY <1>2, <1>4
<1>6. \A i, j \in 1 .. Len(s) : ~(i < j)
  BY <1>4
<1> QED BY <1>3, <1>4, <1>5, <1>6 DEF Ascends, s

LEMMA AscendsForRoot ==
    ASSUME NEW o, type = "root" => o \in RolledBack \cup EndingParts
    PROVE  Ascends(ForRoot(<< RepairOf(o) >>), Rank(o), Rank(o))
<1>1. CASE type = "root"
  BY <1>1, AscendsOne DEF ForRoot
<1>2. CASE type # "root"
  BY <1>2 DEF ForRoot, Ascends
<1> QED BY <1>1, <1>2

(* A rollback takes its parts back in the order of their ranks, each once.      *)
LEMMA RollbackAscends ==
    ASSUME type \in Types PROVE Ascends(StagedRollback, 0, 8)
<1> DEFINE b == [i \in 1 .. Len(Issued) |-> Restore(Issued[i])]
           a1 == << RepairOf(Pointer) >>
           a2 == a1 \o b
           a3 == a2 \o << RepairOf(Candidate("intermediate")) >>
           a4 == a3 \o ForRoot(<< RepairOf(Candidate("root")) >>)
           e1 == << RepairOf(State) >>
           e2 == << RepairOf(Stage) >>
           r1 == << RepairOf(Reserved("intermediate")) >>
           r2 == ForRoot(<< RepairOf(Reserved("root")) >>)
<1>1. /\ {Pointer, State, Stage, BackupSession, Candidate("intermediate"), Reserved("intermediate")}
            \subseteq RolledBack \cup EndingParts
      /\ type = "root" => {Candidate("root"), Reserved("root")} \subseteq RolledBack \cup EndingParts
  BY DEF RolledBack, EndingParts, Candidates, Reservations, TypeAuthorities, Authorities
<1>2. /\ StagedRollback = (a4 \o << RepairOf(State), RepairOf(Stage) >>) \o (r1 \o r2) \o << RepairOf(BackupSession) >>
      /\ << RepairOf(State), RepairOf(Stage) >> = e1 \o e2
  <2>1. /\ RepairOf(Pointer) = Fix(Pointer, {"published"}, "absent")
        /\ RepairOf(State) = Fix(State, {"staged", "published"}, "absent")
        /\ RepairOf(Stage) = Fix(Stage, {"staged", "partial"}, "absent")
        /\ RepairOf(BackupSession) = Fix(BackupSession, {"published"}, "absent")
        /\ \A a \in Authorities : /\ RepairOf(Reserved(a)) = Release(a)
                                 /\ RepairOf(Candidate(a)) = Fix(Candidate(a), {"published"}, "absent")
    BY RepairIs
  <2>2. "root" \in Authorities /\ "intermediate" \in Authorities
    BY DEF Authorities
  <2>3. << RepairOf(State), RepairOf(Stage) >> = e1 \o e2
    OBVIOUS
  <2> HIDE
      DEF RepairOf, Fix, Pointer, State, Stage, BackupSession, Release, Reserved, Candidate,
        Restore
  <2>4. CandidateRollback = a4 \o << RepairOf(State), RepairOf(Stage) >>
    BY <2>1, <2>2 DEF CandidateRollback
  <2>5. Releases = r1 \o r2 /\ EndSession = << RepairOf(BackupSession) >>
    BY <2>1, <2>2 DEF Releases, EndSession
  <2> QED BY <2>3, <2>4, <2>5 DEF StagedRollback
<1>3. Ascends(b, 1, 1)
  <2>1. /\ Issued \in Seq(Database \ Kept) /\ Len(Issued) \in Nat /\ Database \subseteq Keys
        /\ \A i \in 1 .. Len(Issued) : Issued[i] \in Database \ Kept
    BY IssuedIs
  <2>2. \A i \in 1 .. Len(Issued) :
            /\ Restore(Issued[i]) \in Fixes /\ Restore(Issued[i]).object = DbEntry(Issued[i])
            /\ Rank(DbEntry(Issued[i])) = 1
    <3> SUFFICES ASSUME NEW k \in Database \ Kept
                 PROVE  /\ Restore(k) \in Fixes /\ Restore(k).object = DbEntry(k) /\ Rank(DbEntry(k)) = 1
      BY <2>1
    <3>1. DbEntry(k) \in RolledBack /\ RepairOf(DbEntry(k)) = Restore(k)
      BY <2>1, RepairIs DEF RolledBack, DatabaseParts
    <3>2. Restore(k) \in Fixes
      BY <3>1 DEF Fixes, Repairings
    <3>3. Restore(k).object = DbEntry(k)
      BY DEF Restore, Fix
    <3> QED BY <2>1, <3>2, <3>3, RankIs
  <2>3. \A i, j \in 1 .. Len(Issued) : i < j => Issued[i] # Issued[j]
    <3>1. \A i, j \in 1 .. Len(DatabaseKeys) : i # j => DatabaseKeys[i] # DatabaseKeys[j]
      <4>1. DOMAIN DatabaseKeys = 1 .. Len(DatabaseKeys)
        BY DatabaseFacts
      <4>2. \A i, j \in DOMAIN DatabaseKeys : DatabaseKeys[i] = DatabaseKeys[j] => i = j
        BY DatabaseAssumption DEF IsInjective
      <4> QED BY <4>1, <4>2
    <3>2. Issued = DatabaseKeys \/ Issued = << >>
      BY DEF Issued
    <3> QED BY <3>1, <3>2
  <2>4. \A k, l : DbEntry(k) = DbEntry(l) => k = l
    BY DEF DbEntry
  <2>5. b \in [1 .. Len(Issued) -> Fixes]
    BY <2>2
  <2>6. b \in Seq(Fixes) /\ Len(b) = Len(Issued)
    BY <2>1, <2>5, Tabulated
  <2>7. \A i \in 1 .. Len(b) : b[i].object = DbEntry(Issued[i]) /\ Rank(b[i].object) = 1
    BY <2>2, <2>6
  <2> HIDE DEF b
  <2>8. \A i, j \in 1 .. Len(b) : i < j => b[i].object # b[j].object
    BY <2>3, <2>4, <2>6, <2>7
  <2> QED BY <2>6, <2>7, <2>8 DEF Ascends
<1> HIDE DEF b
<1>4. Ascends(a1, 0, 0) /\ Ascends(e1, 4, 4) /\ Ascends(e2, 5, 5) /\ Ascends(r1, 6, 6)
      /\ Ascends(<< RepairOf(BackupSession) >>, 8, 8)
      /\ Ascends(<< RepairOf(Candidate("intermediate")) >>, 2, 2)
  BY <1>1, RankIs, AscendsOne
<1>5. Ascends(ForRoot(<< RepairOf(Candidate("root")) >>), 3, 3) /\ Ascends(r2, 7, 7)
  BY <1>1, RankIs, AscendsForRoot
<1> HIDE DEF a1, e1, e2, r1, r2
<1>6. Ascends(a2, 0, 1)
  BY <1>3, <1>4, AscendsJoined
<1> HIDE DEF a2
<1>7. Ascends(a3, 0, 2)
  BY <1>4, <1>6, AscendsJoined
<1> HIDE DEF a3
<1>8. Ascends(a4, 0, 3)
  BY <1>5, <1>7, AscendsJoined
<1> HIDE DEF a4
<1>9. Ascends(e1 \o e2, 4, 5) /\ Ascends(r1 \o r2, 6, 7)
  BY <1>4, <1>5, AscendsJoined
<1>10. Ascends(a4 \o (e1 \o e2), 0, 5)
  BY <1>8, <1>9, AscendsJoined
<1>11. Ascends((a4 \o (e1 \o e2)) \o (r1 \o r2), 0, 7)
  BY <1>9, <1>10, AscendsJoined
<1>12. Ascends(((a4 \o (e1 \o e2)) \o (r1 \o r2)) \o << RepairOf(BackupSession) >>, 0, 8)
  BY <1>4, <1>11, AscendsJoined
<1> QED BY <1>2, <1>12

(* What excuses the absence of a part: a rollback that has come to it.          *)
Excusing(o) ==
    LET late == {State, Stage, BackupSession, Reserved("root"), Reserved("intermediate")}
    IN  CASE o = State -> late
          [] o = Candidate("root") -> late \cup {o}
          [] OTHER -> late \cup {o, Candidate("root")}

LEMMA ExcusingParts ==
    ASSUME type \in Types, NEW o \in Candidates \cup {State}, NEW p \in RolledBack \cup EndingParts
    PROVE  p \in Excusing(o) <=> Rank(o) <= Rank(p)
<1> DEFINE late == {State, Stage, BackupSession, Reserved("root"), Reserved("intermediate")}
<1>1. \/ p \in {Pointer, State, Stage, BackupSession}
      \/ \E a \in Authorities : p \in {Candidate(a), Reserved(a)}
      \/ \E k \in Keys : p = DbEntry(k)
  <2>1. Database \subseteq Keys /\ TypeAuthorities \subseteq Authorities
    BY IssuedIs DEF TypeAuthorities, Authorities
  <2> QED BY <2>1 DEF RolledBack, EndingParts, Candidates, Reservations, DatabaseParts
<1>2. o = State \/ o = Candidate("root") \/ o = Candidate("intermediate")
  BY DEF Candidates, TypeAuthorities, Authorities
<1>3. Candidate("root") # State /\ Candidate("intermediate") # State
      /\ Candidate("root") # Candidate("intermediate")
  BY DEF Candidate, State
<1>4. p \in Excusing(o) <=>
             \/ o = State /\ p \in late
             \/ o = Candidate("root") /\ p \in late \cup {o}
             \/ o = Candidate("intermediate") /\ p \in late \cup {o, Candidate("root")}
  BY <1>2, <1>3 DEF Excusing
<1>5. CASE \E k \in Keys : p = DbEntry(k)
  <2>1. PICK k \in Keys : p = DbEntry(k)
    BY <1>5
  <2>2. Rank(p) = 1 /\ p[1] = "database"
    BY <2>1, RankIs, PartObjects
  <2>3. p \notin late \cup {Candidate("root"), Candidate("intermediate")}
    BY <2>2, PartObjects DEF Authorities
  <2> QED BY <1>2, <1>4, <2>2, <2>3, RankIs
<1>6. CASE ~\E k \in Keys : p = DbEntry(k)
  <2>1. p \in {Pointer, State, Stage, BackupSession, Candidate("root"), Candidate("intermediate"),
               Reserved("root"), Reserved("intermediate")}
    BY <1>1, <1>6 DEF Authorities
  <2>2. /\ Rank(p) >= 4 <=> p \in late
        /\ Rank(p) >= 3 <=> p \in late \cup {Candidate("root")}
        /\ Rank(p) >= 2 <=> p \in late \cup {Candidate("root"), Candidate("intermediate")}
    BY <2>1, RankIs
  <2>3. Rank(State) = 4 /\ Rank(Candidate("root")) = 3 /\ Rank(Candidate("intermediate")) = 2
        /\ Rank(p) \in Nat
    BY RankIs
  <2>4. CASE o = State
    BY <1>3, <1>4, <2>2, <2>3, <2>4
  <2>5. CASE o = Candidate("root")
    BY <1>3, <1>4, <2>2, <2>3, <2>5
  <2>6. CASE o = Candidate("intermediate")
    BY <1>3, <1>4, <2>2, <2>3, <2>6
  <2> QED BY <1>2, <2>4, <2>5, <2>6
<1> QED BY <1>5, <1>6

LEMMA ExcusedIs ==
    ASSUME type \in Types, NEW o \in Candidates \cup {State},
           journal.step.object \in RolledBack \cup EndingParts
    PROVE  Excused("rollback", o) <=>
              journal.action = "rollback" /\ Rank(o) <= Rank(journal.step.object)
BY ExcusingParts DEF Excused, Excusing

------------------------------------------------------------------------------
(* What of this depends on the parts and their files only.                     *)
LEMMA SameWorkspace ==
    ASSUME part' = part, type' = type, workspace' = workspace
    PROVE  /\ Candidates' = Candidates /\ Database' = Database /\ StagedRollback' = StagedRollback
           /\ ReservationsReady' <=> ReservationsReady
           /\ StageMade' <=> StageMade
           /\ \A k \in Database : /\ part'[DbEntry(k)] = part[DbEntry(k)]
<1>1. TypeAuthorities' = TypeAuthorities /\ Database' = Database
  BY DEF TypeAuthorities, Database
<1>2. Candidates' = Candidates /\ StageParts' = StageParts /\ StageFiles' = StageFiles
  BY <1>1 DEF Candidates, StageParts, CopyParts, StageFiles
<1>3. StagedRollback' = StagedRollback
  BY DEF StagedRollback, CandidateRollback, Releases, EndSession, ForRoot, Issued
<1>4. ReservationsReady' <=> ReservationsReady
  BY <1>1 DEF ReservationsReady
<1>5. StageMade' <=> StageMade
  BY <1>2 DEF StageMade
<1> QED BY <1>1, <1>2, <1>3, <1>4, <1>5

(* What a journal knows stays as it is while nothing is written.               *)
LEMMA SameRecord ==
    ASSUME journal' = journal, part' = part, type' = type, workspace' = workspace,
           JournalKnows, Closed
    PROVE  JournalKnows' /\ Closed'
<1>1. /\ Candidates' = Candidates /\ Database' = Database /\ StagedRollback' = StagedRollback
      /\ ReservationsReady' <=> ReservationsReady
  BY SameWorkspace
<1>2. (InPreparation' <=> InPreparation) /\ Evidence' = Evidence
  BY DEF InPreparation, Evidence
<1>3. Closed'
  BY DEF Closed
<1> SUFFICES ASSUME InPreparation' PROVE JournalKnows'
  BY <1>3 DEF JournalKnows
<1>4. /\ Labelled /\ Evident /\ ReservationsFiled
      /\ Evidence.staged => Excusable /\ RolledBackTo /\ EntriesFiled /\ RestoredKnown
  BY <1>2 DEF JournalKnows
<1>5. Labelled' /\ Evident' /\ ReservationsFiled'
  BY <1>1, <1>2, <1>4 DEF Labelled, Evident, ReservationsFiled
<1>6. ASSUME Evidence.staged PROVE Excusable' /\ RolledBackTo' /\ EntriesFiled' /\ RestoredKnown'
  <2>1. Excusable'
    <3>1. \A o : Excused("rollback", o)' <=> Excused("rollback", o)
      BY DEF Excused
    <3> QED BY <1>1, <1>4, <1>6, <3>1 DEF Excusable
  <2>2. RolledBackTo'
    BY <1>1, <1>4, <1>6 DEF RolledBackTo, Repaired
  <2>3. EntriesFiled'
    BY <1>1, <1>4, <1>6 DEF EntriesFiled
  <2>4. RestoredKnown'
    BY <1>1, <1>2, <1>4, <1>6 DEF RestoredKnown, Pending
  <2> QED BY <2>1, <2>2, <2>3, <2>4
<1> QED BY <1>2, <1>5, <1>6 DEF JournalKnows

(* Nothing is known at first.                                                 *)
LEMMA PreparationKnownAtFirst == ASSUME Init PROVE PreparationKnown
<1>1. journal.operation = "none" /\ process.command = "none"
  BY NoJournalTyped, IdleTyped DEF Init
<1> QED BY <1>1
    DEF PreparationKnown, JournalKnows, PreparerKnows, RepairerKnows, Closed, InPreparation,
                    Preparing, Repairing, Actions

(* A command that ends or is killed leaves it.                                *)
LEMMA PreparationKnownIdle ==
    ASSUME PreparationKnown, process' = Idle, journal' = journal,
           part' = part, type' = type, workspace' = workspace
    PROVE  PreparationKnown'
<1>1. JournalKnows' /\ Closed'
  BY SameRecord DEF PreparationKnown
<1>2. process'.command = "none"
  BY IdleTyped
<1> QED BY <1>1, <1>2
    DEF PreparationKnown, PreparerKnows, RepairerKnows, Preparing, Repairing, Actions

(* And so does a step that changes nothing of it.                             *)
LEMMA PreparationKnownStutters ==
    ASSUME PreparationKnown, process' = process, journal' = journal,
           part' = part, type' = type, workspace' = workspace
    PROVE  PreparationKnown'
<1>1. JournalKnows' /\ Closed'
  BY SameRecord DEF PreparationKnown
<1>2. /\ (ReservationsReady' <=> ReservationsReady) /\ (StageMade' <=> StageMade) /\ Database' = Database
  BY SameWorkspace
<1>3. (InPreparation' <=> InPreparation) /\ Evidence' = Evidence
  BY DEF InPreparation, Evidence
<1>4. Repairs' = Repairs /\ RepairEntry' = RepairEntry
  <2>1. \A action : RepairPlan(action)' = RepairPlan(action)
    BY <1>3, SamePreparation
  <2> QED BY <2>1 DEF Repairs, RepairEntry
<1>5. PreparationStaging' = PreparationStaging
  BY DEF PreparationStaging, ForRoot
<1>6. PreparerKnows'
  BY <1>2, <1>3, <1>5 DEF PreparationKnown, PreparerKnows, Preparing, Changing
<1>7. RepairerKnows'
  <2>1. RollbackKnows => RollbackKnows'
    BY <1>2, <1>3, <1>4 DEF RollbackKnows, Revisited
  <2>2. ResumeKnows => ResumeKnows'
    BY <1>2, <1>3 DEF ResumeKnows
  <2> QED BY <1>3, <1>4, <2>1, <2>2 DEF PreparationKnown, RepairerKnows, Repairing
<1> QED BY <1>1, <1>6, <1>7 DEF PreparationKnown

(* The other commands leave it, unfinished or not, as it is.                   *)
LEMMA PreparationKnownSpared ==
    ASSUME Typed, Typed', Owned, PreparationKnown, UNCHANGED preparation_vars,
           NEW O, O \subseteq Operations, "rollover-prepare" \notin O, Works(O)
    PROVE  PreparationKnown'
<1>1. Control' /\ part' = part /\ type' = type /\ workspace' = workspace
  BY DEF Typed, preparation_vars
<1>2. ASSUME journal'.operation = "rollover-prepare" PROVE journal' = journal
  BY <1>2 DEF Works
<1>3. JournalKnows' /\ Closed'
  <2>1. CASE journal'.operation = "rollover-prepare"
    BY <1>1, <1>2, <2>1, SameRecord DEF PreparationKnown
  <2>2. CASE journal'.operation # "rollover-prepare"
    BY <2>2 DEF JournalKnows, Closed, InPreparation
  <2> QED BY <2>1, <2>2
<1>4. process' = Idle \/ (~Running /\ process' = process) \/ process'.operation \in O
  BY DEF Works
<1>5. ~Preparing' /\ ~Repairing'
  <2> SUFFICES ASSUME Preparing' \/ Repairing' PROVE FALSE
    OBVIOUS
  <2>1. process'.operation = "rollover-prepare" /\ process'.command # "none"
    BY <1>1 DEF Control, Preparing, Repairing, Actions
  <2> QED BY <1>4, <2>1, IdleTyped DEF Running
<1> QED BY <1>3, <1>5 DEF PreparationKnown, PreparerKnows, RepairerKnows

(* A preparation begins with nothing known.                                    *)
LEMMA PreparationKnownBegun ==
    ASSUME Typed, PreparationKnown, NEW kind \in Types, BeginPreparation(kind)
    PROVE  PreparationKnown'
<1>1. /\ NoUnresolvedState /\ journal' = journal /\ type' = kind
      /\ process' = Begun("prepare", "rollover-prepare", 1)
  BY DEF BeginPreparation
<1>2. process'.command = "prepare" /\ process'.at = 1
  BY <1>1, BegunIs
<1>3. ~InPreparation' /\ Closed'
  <2>1. ~Outstanding
    BY <1>1, BeginsResolved DEF Typed
  <2> QED BY <1>1, <2>1 DEF InPreparation, Outstanding, Closed, PreparationKnown
<1>4. Len(PreparationStaging)' \in {10, 11}
  BY <1>1, StagingIs DEF PreparationStaging, ForRoot, Types
<1>5. Len(PreparationStaging)' # 1 /\ Len(PreparationStaging)' - 1 # 1
  BY <1>4
<1>6. PreparerKnows'
  BY <1>2, <1>5 DEF PreparerKnows
<1>7. ~Repairing'
  BY <1>2 DEF Repairing, Actions
<1> QED BY <1>3, <1>6, <1>7 DEF PreparationKnown, JournalKnows, RepairerKnows

(* A recovery begins over what its preflight found.                            *)
LEMMA PreparationKnownRepair ==
    ASSUME Typed, PreparationKnown, NEW action \in Actions, BeginRepair(action)
    PROVE  PreparationKnown'
<1>1. /\ journal' = journal /\ part' = part /\ type' = type /\ workspace' = workspace
      /\ RepairAccepted(action)
      /\ process' = Begun(action, "rollover-prepare",
                          IF journal.committed THEN Len(RepairPlan(action)) + 1 ELSE 1)
  BY DEF BeginRepair, preparation_vars
<1>2. /\ process'.command = action /\ process'.mark = "none" /\ process'.step = journal.step
      /\ ~journal.committed => process'.at = 1
  BY <1>1, BegunIs DEF Begun, Idle
<1>3. JournalKnows' /\ Closed' /\ Database' = Database
  BY <1>1, SameRecord, SameWorkspace DEF PreparationKnown
<1>4. (InPreparation' <=> InPreparation) /\ Evidence' = Evidence
  BY <1>1 DEF InPreparation, Evidence
<1>5. ~Preparing'
  BY <1>2 DEF Preparing, Actions
<1>6. ASSUME InPreparation, Evidence.staged PROVE RollbackKnows'
  <2>1. RestoredKnown /\ process'.at = 1
    BY <1>2, <1>6 DEF PreparationKnown, JournalKnows, InPreparation
  <2>2. ASSUME NEW k \in Database, part[DbEntry(k)] = "restored", k \notin Evidence.restored
        PROVE  Revisited(k)'
    BY <1>2, <2>1, <2>2 DEF RestoredKnown, Pending, Revisited
  <2> QED BY <1>1, <1>2, <1>3, <1>4, <2>2 DEF RollbackKnows
<1>7. ASSUME InPreparation, action = "resume" PROVE ResumeKnows'
  <2>1. Evidence.directory /\ Evidence.staged
    BY <1>1, <1>7 DEF RepairAccepted, InPreparation
  <2>2. \A k \in Database : EntryKnown("resume", k)
    BY <1>1, <1>7, <2>1 DEF RepairAccepted, InPreparation
  <2>3. \A k \in Database \ Kept : part[DbEntry(k)] = "before" => << DbEntry(k), "after" >> \in workspace
    BY <2>2 DEF EntryKnown
  <2>4. \A k \in Database : part[DbEntry(k)] = "restored" => k \in Evidence.restored
    BY <2>2 DEF EntryKnown
  <2> QED BY <1>1, <1>3, <1>4, <2>3, <2>4 DEF ResumeKnows
<1>8. RepairerKnows'
  BY <1>2, <1>4, <1>6, <1>7 DEF RepairerKnows
<1> QED BY <1>3, <1>5, <1>8 DEF PreparationKnown, PreparerKnows

(* How it ends.                                                               *)
LEMMA PreparationKnownEnds ==
    ASSUME Typed, PreparationInv, PreparationKnown, EndSteps PROVE PreparationKnown'
<1>1. CASE EndCommits
  <2>1. /\ Ending("none") /\ Ended("committed") /\ journal \in JournalType
        /\ journal' = [journal EXCEPT !.phase = "terminal-cleanup", !.committed = TRUE,
                                      !.action = Outcome, !.step = NoStep,
                                      !.evidence.directory = journal.evidence.directory \/ part[Directory] # "absent"]
    BY <1>1 DEF EndCommits, Typed, JournalTyped
  <2>2. process'.mark = "committed" /\ (Preparing \/ Repairing)
    BY <2>1, EndsOf
  <2>3. Outcome \in Actions
    BY <2>2 DEF Outcome, Preparing, Repairing, Actions
  <2>4. journal'.committed /\ journal'.action \in Actions
    BY <2>1, <2>3 DEF JournalType
  <2> QED BY <2>2, <2>4
          DEF PreparationKnown, JournalKnows, PreparerKnows, RepairerKnows, InPreparation,
            Changing, Closed
<1>2. ASSUME NEW mark \in {"committed", "marked", "receipted"}, Ending(mark)
      PROVE  journal.operation = "rollover-prepare" /\ journal.committed /\ ~Changing
             /\ \A m \in {"marked", "receipted", "dropped"} : Ended(m) => ~Changing'
  <2>1. process.operation = "rollover-prepare" /\ process.mark = mark
    BY <1>2, EndsOf
  <2>2. \A m : Ended(m) => process'.mark = m
    BY <1>2, EndsOf
  <2> QED BY <1>2, <2>1, <2>2 DEF PreparationInv, Closing, Changing
<1>3. CASE EndMarks \/ EndReceipts
  <2>1. /\ journal' = journal /\ journal.committed /\ ~Changing'
        /\ journal.operation = "rollover-prepare"
    BY <1>2, <1>3 DEF EndMarks, EndReceipts
  <2> QED BY <2>1
          DEF PreparationKnown, JournalKnows, PreparerKnows, RepairerKnows, InPreparation,
            Closed
<1>4. CASE EndClears
  <2>1. /\ journal' = journal /\ process' = process /\ journal.committed /\ ~Changing
    BY <1>2, <1>4 DEF EndClears
  <2> QED BY <2>1
          DEF PreparationKnown, JournalKnows, PreparerKnows, RepairerKnows, InPreparation,
            Closed, Changing
<1>5. CASE EndRefuses
  BY <1>5, PreparationKnownIdle DEF EndRefuses, Ending
<1>6. CASE EndDropsJournal
  <2>1. journal' = NoJournal /\ ~Changing'
    BY <1>2, <1>6 DEF EndDropsJournal
  <2>2. journal'.operation = "none"
    BY <2>1, NoJournalTyped
  <2> QED BY <2>1, <2>2
          DEF PreparationKnown, JournalKnows, PreparerKnows, RepairerKnows, InPreparation,
            Closed
<1>7. CASE EndDropsMarker
  BY <1>7, PreparationKnownIdle DEF EndDropsMarker, Ending
<1> QED BY <1>1, <1>3, <1>4, <1>5, <1>6, <1>7 DEF EndSteps

(* The files that a change leaves where they were.                             *)
LEMMA FilesChange ==
    ASSUME NEW o, NEW to, ChangePart(o, to), NEW p, NEW s, << p, s >> \in workspace,
           ~(p = o /\ s = to), to = "absent" => o # Directory /\ ~(o = Stage /\ p[1] = "database")
    PROVE  << p, s >> \in workspace'
<1>1. CASE to = "staged"
  <2>1. workspace' = workspace \cup (IF o = Stage THEN StageFiles ELSE {})
    BY <1>1 DEF ChangePart, Make
  <2> QED BY <2>1
<1>2. CASE to = "absent" /\ IsTree(o)
  <2>1. workspace' = CASE o = Stage -> {f \in workspace : f[1][1] # "database"}
                       [] o = Directory -> {}
                       [] OTHER -> workspace
    BY <1>2 DEF ChangePart, Take
  <2>2. o # Directory
    BY <1>2
  <2>3. CASE o = Stage
    <3>1. Stage # Directory
      BY PartObjects
    <3>2. workspace' = {f \in workspace : f[1][1] # "database"}
      BY <2>1, <2>3, <3>1
    <3> QED BY <1>2, <2>3, <3>2
  <2> QED BY <2>1, <2>2, <2>3
<1>3. CASE to # "staged" /\ ~(to = "absent" /\ IsTree(o))
  <2>1. workspace' = workspace \ {<< o, to >>}
    BY <1>3 DEF ChangePart, PutPart
  <2> QED BY <2>1
<1> QED BY <1>1, <1>2, <1>3

(* The stage is made just before staging is complete.                          *)
LEMMA StageIsLast ==
    ASSUME type \in Types
    PROVE  /\ Len(PreparationStaging) \in Nat /\ Len(PreparationStaging) >= 10
           /\ PreparationPlan[Len(PreparationStaging) - 1] = Change(Stage, "staged")
           /\ PreparationPlan[Len(PreparationStaging)].kind = "note"
           /\ PreparationPlan[4].kind = "fill" /\ PreparationPlan[5].kind = "note"
<1>1. \A i \in 1 .. Len(PreparationStaging) : PreparationPlan[i] = PreparationStaging[i]
  BY PreparationPlanIs
<1>2. Note("staged").kind = "note" /\ Note("transaction-staged").kind = "note" /\ Fill.kind = "fill"
  BY DEF Note, Fill
<1> HIDE DEF Note, Fill, Change, Stage, Directory, State, BackupSession, Reserved
<1>3. CASE type = "root"
  <2>1. Len(PreparationStaging) = 11
    BY <1>3, StagingIs
  <2>2. /\ PreparationPlan[4] = PreparationStaging[4] /\ PreparationPlan[5] = PreparationStaging[5]
        /\ PreparationPlan[10] = PreparationStaging[10] /\ PreparationPlan[11] = PreparationStaging[11]
    BY <1>1, <2>1
  <2>3. /\ PreparationStaging[4] = Fill /\ PreparationStaging[5] = Note("transaction-staged")
        /\ PreparationStaging[10] = Change(Stage, "staged") /\ PreparationStaging[11] = Note("staged")
    BY <1>3, StagingIs
  <2> QED BY <1>2, <2>1, <2>2, <2>3
<1>4. CASE type # "root"
  <2>1. Len(PreparationStaging) = 10
    BY <1>4, StagingIs
  <2>2. /\ PreparationPlan[4] = PreparationStaging[4] /\ PreparationPlan[5] = PreparationStaging[5]
        /\ PreparationPlan[9] = PreparationStaging[9] /\ PreparationPlan[10] = PreparationStaging[10]
    BY <1>1, <2>1
  <2>3. /\ PreparationStaging[4] = Fill /\ PreparationStaging[5] = Note("transaction-staged")
        /\ PreparationStaging[9] = Change(Stage, "staged") /\ PreparationStaging[10] = Note("staged")
    BY <1>4, StagingIs
  <2> QED BY <1>2, <2>1, <2>2, <2>3
<1> QED BY <1>3, <1>4

(* What a preparation that stages is about to say of its directory.            *)
LEMMA StagedIs ==
    ASSUME type \in Types, PreparationTyped, StageMade, part[State] \in {"staged", "published"},
           \A k \in Keys : part[DbEntry(k)] = "before"
    PROVE  /\ \A o \in Candidates \cup {State} : part[o] # "absent"
           /\ \A k \in Database \ Created : << DbEntry(k), "restored" >> \in workspace
           /\ \A k \in Database \ Kept : << DbEntry(k), "after" >> \in workspace
           /\ \A k \in Database : part[DbEntry(k)] = "before"
<1>1. Database \subseteq Keys
  BY IssuedIs
<1>2. \A o \in Candidates : part[o] = "staged"
  BY DEF StageMade, StageParts
<1>3. \A k \in Database \ Created : << DbEntry(k), "restored" >> \in StageFiles
  BY DEF StageFiles
<1>4. \A k \in Database \ Kept : << DbEntry(k), "after" >> \in StageFiles
  BY DEF StageFiles
<1> QED BY <1>1, <1>2, <1>3, <1>4 DEF StageMade

(* The command writes its next journal.                                       *)
LEMMA PreparerNotesKnow ==
    ASSUME Typed, PreparationInv, PreparationKnown, PreparerNotes PROVE PreparationKnown'
<1> DEFINE n == process.at
           phase == PreparationPlan[process.at].phase
<1>1. /\ PreparerAt("note") /\ Done /\ part' = part /\ workspace' = workspace
      /\ journal' = IF phase = "planned"
                    THEN [NoJournal EXCEPT !.operation = "rollover-prepare", !.phase = phase]
                    ELSE [journal EXCEPT !.phase = phase, !.evidence.filed = TRUE,
                                         !.evidence.staged = (phase = "staged")]
  BY DEF PreparerNotes
<1>2. /\ Preparing /\ Changing /\ type \in Types /\ n \in 1 .. Len(PreparationPlan) /\ n \in Nat
      /\ Len(PreparationPlan) \in Nat /\ PreparationPlan[n].kind = "note"
      /\ process \in ProcessType /\ journal \in JournalType /\ (n > 1 => InPreparation)
      /\ type' = type /\ PreparationStaging' = PreparationStaging
  BY <1>1, PreparerWorks
<1>3. /\ Len(PreparationStaging) \in Nat /\ Len(PreparationStaging) >= 10
      /\ n # Len(PreparationStaging) - 1 /\ n # 4
  <2>1. Change(Stage, "staged").kind = "change"
    BY DEF Change
  <2> QED BY <1>2, <2>1, StageIsLast
<1>4. /\ n = 1 \/ (n >= 5 /\ n <= Len(PreparationStaging))
      /\ phase = "planned" <=> n = 1
      /\ phase = "staged" <=> n = Len(PreparationStaging)
  BY <1>2, PreparationAt
<1>5. /\ process'.at = n + 1 /\ process'.mark = "none" /\ process'.command = "prepare"
  BY <1>1, <1>2 DEF Done, ProcessType, Preparing
<1>6. Preparing' /\ ~Repairing'
  BY <1>5 DEF Preparing, Repairing, Actions
<1>7. /\ Candidates' = Candidates /\ Database' = Database
      /\ (ReservationsReady' <=> ReservationsReady) /\ (StageMade' <=> StageMade)
  BY <1>1, <1>2, SameWorkspace
<1>10. \A k \in Database' : part'[DbEntry(k)] # "restored"
  <2>1. CASE n = 1
    <3>1. part = Unprepared
      BY <1>2, <2>1 DEF PreparationInv, PreparerInv
    <3>2. \A k \in Database : DbEntry(k) \in Parts /\ DbEntry(k)[1] = "database"
      <4>1. Database \subseteq Keys
        BY <1>2, IssuedIs
      <4>2. \A k \in Keys : DbEntry(k) \in Parts /\ DbEntry(k)[1] = "database"
        BY PartObjects
      <4> QED BY <4>1, <4>2
    <3> QED BY <1>1, <1>7, <3>1, <3>2 DEF Unprepared
  <2>2. CASE n > 1
    BY <1>1, <1>2, <1>7, <2>2 DEF PreparationKnown, PreparerKnows
  <2> QED BY <1>2, <2>1, <2>2
<1>8. CASE n = 1
  <2>1. journal' = [NoJournal EXCEPT !.operation = "rollover-prepare", !.phase = phase]
    BY <1>1, <1>4, <1>8
  <2>2. /\ journal'.action = "none" /\ journal'.step.action = "none" /\ ~journal'.evidence.staged
        /\ ~journal'.evidence.filed /\ ~journal'.committed
    BY <2>1 DEF NoJournal, NoStep, NoEvidence
  <2>3. JournalKnows'
    BY <2>2 DEF JournalKnows, Labelled, Evident, ReservationsFiled, Evidence, Actions
  <2>4. PreparerKnows'
    BY <1>2, <1>3, <1>5, <1>8, <1>10, <2>2 DEF PreparerKnows
  <2> QED BY <1>6, <2>2, <2>3, <2>4 DEF PreparationKnown, RepairerKnows, Closed
<1>9. CASE n # 1
  <2>0. n >= 5 /\ n <= Len(PreparationStaging) /\ InPreparation
    BY <1>2, <1>4, <1>9
  <2>1. /\ journal' = [journal EXCEPT !.phase = phase, !.evidence.filed = TRUE,
                                      !.evidence.staged = (phase = "staged")]
    BY <1>1, <1>4, <1>9
  <2>2. /\ journal.action = "none" /\ Evidence.directory /\ part[State] \in {"staged", "published"}
        /\ (n = 5 => ReservationsReady) /\ (n = Len(PreparationStaging) => StageMade)
    BY <1>2, <1>3, <2>0 DEF PreparationKnown, PreparerKnows
  <2>3. /\ journal'.action = "none" /\ journal'.step = journal.step /\ journal'.evidence.filed
        /\ journal'.evidence.directory = Evidence.directory /\ journal'.committed = journal.committed
        /\ journal'.evidence.staged <=> n = Len(PreparationStaging)
    BY <1>2, <1>4, <2>1, <2>2 DEF JournalType, EvidenceType, Evidence
  <2>4. /\ ~Evidence.staged /\ (n > 5 => Evidence.filed)
    BY <1>2, <1>3, <2>0 DEF PreparationInv, PreparerInv
  <2>5. Labelled' /\ Evident' /\ ReservationsFiled'
    <3>1. Labelled /\ ReservationsFiled
      BY <2>0 DEF PreparationKnown, JournalKnows
    <3>2. ReservationsReady
      BY <1>2, <2>0, <2>2, <2>4, <3>1 DEF ReservationsFiled
    <3> QED BY <1>7, <2>2, <2>3, <3>1, <3>2 DEF Labelled, Evident, ReservationsFiled, Evidence
  <2>6. ASSUME n = Len(PreparationStaging)
        PROVE  Excusable' /\ RolledBackTo' /\ EntriesFiled' /\ RestoredKnown'
    <3>1. \A k \in Keys : part[DbEntry(k)] = "before"
      BY <2>0, <2>4 DEF PreparationInv, BeforeStaging
    <3>2. PreparationTyped
      BY DEF Typed
    <3>3. /\ \A o \in Candidates \cup {State} : part[o] # "absent"
          /\ \A k \in Database \ Created : << DbEntry(k), "restored" >> \in workspace
          /\ \A k \in Database \ Kept : << DbEntry(k), "after" >> \in workspace
          /\ \A k \in Database : part[DbEntry(k)] = "before"
      BY <1>2, <2>2, <2>6, <3>1, <3>2, StagedIs
    <3>4. Excusable'
      BY <1>1, <1>7, <3>3 DEF Excusable
    <3>5. EntriesFiled' /\ RestoredKnown'
      BY <1>1, <1>7, <3>3 DEF EntriesFiled, RestoredKnown
    <3> QED BY <2>3, <3>4, <3>5 DEF RolledBackTo
  <2>7. JournalKnows'
    BY <2>3, <2>5, <2>6 DEF JournalKnows, Evidence
  <2>8. PreparerKnows'
    <3>1. process'.at # 5 /\ process'.at # Len(PreparationStaging')
      BY <1>2, <1>3, <1>5, <2>0
    <3>2. process'.mark # "made" /\ journal'.action = "none" /\ Evidence'.directory
      BY <1>5, <2>2, <2>3 DEF Evidence
    <3>3. part'[State] \in {"staged", "published"}
      BY <1>1, <2>2
    <3> QED BY <1>10, <3>1, <3>2, <3>3 DEF PreparerKnows
  <2> QED BY <1>6, <2>0, <2>3, <2>7, <2>8
      DEF PreparationKnown, RepairerKnows, Closed, InPreparation
<1> QED BY <1>8, <1>9

(* It fills the directory.                                                    *)
LEMMA PreparerFillsKnow ==
    ASSUME Typed, PreparationInv, PreparationKnown, PreparerFills PROVE PreparationKnown'
<1>1. PreparerAt("fill") /\ Done /\ workspace' = Filed /\ journal' = journal /\ part' = part
  BY DEF PreparerFills
<1>2. /\ Preparing /\ Changing /\ type \in Types /\ process.at \in 1 .. Len(PreparationPlan)
      /\ process.at \in Nat /\ Len(PreparationPlan) \in Nat /\ PreparationPlan[process.at].kind = "fill"
      /\ process \in ProcessType /\ (process.at > 1 => InPreparation)
      /\ type' = type /\ PreparationStaging' = PreparationStaging
      /\ Len(PreparationStaging) \in Nat /\ Len(PreparationStaging) >= 10
  BY <1>1, PreparerWorks
<1>3. process.at = 4
  BY <1>2, PreparationAt
<1>4. process'.at = 5 /\ process'.mark = "none" /\ process'.command = "prepare"
  BY <1>1, <1>2, <1>3 DEF Done, ProcessType, Preparing
<1>5. ~Evidence.staged /\ ~Evidence.filed /\ InPreparation
  BY <1>2, <1>3 DEF PreparationInv, PreparerInv
<1>6. /\ journal.action = "none" /\ Evidence.directory /\ part[State] \in {"staged", "published"} /\ Labelled
      /\ \A k \in Database : part[DbEntry(k)] # "restored"
  BY <1>2, <1>3, <1>5 DEF PreparationKnown, PreparerKnows, JournalKnows
<1>7. ReservationsReady'
  <2>1. TypeAuthorities' = TypeAuthorities
    BY <1>2 DEF TypeAuthorities
  <2>2. \A a \in TypeAuthorities : << Reserved(a), "abandoned" >> \in Filed
    BY DEF Filed
  <2> QED BY <1>1, <2>1, <2>2 DEF ReservationsReady
<1>8. JournalKnows'
  BY <1>1, <1>5, <1>6 DEF JournalKnows, Labelled, Evident, ReservationsFiled, Evidence
<1>9. PreparerKnows'
  <2>0. PreparationStaging' = PreparationStaging /\ Len(PreparationStaging) >= 10
        /\ Len(PreparationStaging) \in Nat
    BY <1>2
  <2>1. process'.at # Len(PreparationStaging')
    <3>1. \A l \in Nat : l >= 10 => l # 5
      OBVIOUS
    <3>2. Len(PreparationStaging) # 5
      BY <2>0, <3>1
    <3> QED BY <1>4, <2>0, <3>2
  <2>2. process'.mark # "made" /\ journal'.action = "none" /\ Evidence'.directory
    BY <1>1, <1>4, <1>6 DEF Evidence
  <2>3. part'[State] \in {"staged", "published"}
    BY <1>1, <1>6
  <2>4. \A k \in Database' : part'[DbEntry(k)] # "restored"
    BY <1>1, <1>2, <1>6 DEF Database
  <2> QED BY <1>4, <1>7, <2>1, <2>2, <2>3, <2>4 DEF PreparerKnows
<1>10. ~Repairing'
  BY <1>4 DEF Repairing, Actions
<1> QED BY <1>1, <1>5, <1>8, <1>9, <1>10
    DEF PreparationKnown, RepairerKnows, Closed, InPreparation

(* The command's own checkpoints leave what the journal knows.                 *)
LEMMA PreparerChecks ==
    ASSUME Typed, PreparationInv, PreparationKnown, PreparerAt("change"),
           NEW o, NEW mark, NEW evidence, PartCheckpoint(o, mark, evidence),
           part' = part, workspace' = workspace,
           evidence.staged = journal.evidence.staged, evidence.filed = journal.evidence.filed,
           journal.evidence.directory => evidence.directory,
           journal.evidence.restored \subseteq evidence.restored
    PROVE  /\ JournalKnows' /\ Closed' /\ journal'.action = "none" /\ journal'.evidence = evidence
           /\ InPreparation /\ process.at > 1
<1>1. /\ Preparing /\ Changing /\ type \in Types /\ process.at \in 1 .. Len(PreparationPlan)
      /\ process.at \in Nat /\ Len(PreparationPlan) \in Nat /\ PreparationPlan[process.at].kind = "change"
      /\ process \in ProcessType /\ journal \in JournalType
      /\ (process.at > 1 => InPreparation) /\ type' = type
  BY PreparerWorks
<1>2. process.at > 1
  <2>0. Len(PreparationStaging) \in Nat /\ Len(PreparationStaging) >= 10
    BY PreparerWorks
  <2>1. process.at # 1
    BY <1>1, <2>0, PreparationAt
  <2> QED BY <1>1, <2>1
<1>3. process.command = "prepare" /\ process.action = "none"
  BY <1>1 DEF Preparing, Typed, Control, Actions
<1>4. InPreparation /\ journal.action = "none"
  BY <1>1, <1>2 DEF PreparationKnown, PreparerKnows
<1>5. /\ journal' = [journal EXCEPT !.phase = "recovering", !.action = "none",
                                    !.step = Step("prepare", o, mark), !.evidence = evidence]
  BY <1>3 DEF PartCheckpoint
<1>6. /\ journal'.action = "none" /\ journal'.step = Step("prepare", o, mark)
      /\ journal'.evidence = evidence /\ journal'.committed = journal.committed
      /\ journal'.operation = journal.operation
  BY <1>1, <1>5 DEF JournalType
<1>7. journal'.step.action = "prepare"
  BY <1>6 DEF Step
<1>8. /\ Candidates' = Candidates /\ Database' = Database
      /\ (ReservationsReady' <=> ReservationsReady)
  BY <1>1, SameWorkspace
<1>9. /\ Labelled /\ Evident /\ ReservationsFiled
      /\ Evidence.staged => Excusable /\ RolledBackTo /\ EntriesFiled /\ RestoredKnown
  BY <1>4 DEF PreparationKnown, JournalKnows
<1>10. Labelled' /\ Evident' /\ ReservationsFiled'
  BY <1>6, <1>7, <1>8, <1>9 DEF Labelled, Evident, ReservationsFiled, Evidence, Actions
<1>11. ASSUME Evidence.staged PROVE Excusable' /\ RolledBackTo' /\ EntriesFiled' /\ RestoredKnown'
  <2>1. \A p \in Candidates \cup {State} : part[p] # "absent"
    BY <1>4, <1>9, <1>11 DEF Excusable, Excused
  <2>2. Excusable'
    BY <1>8, <2>1 DEF Excusable
  <2>3. EntriesFiled'
    BY <1>4, <1>8, <1>9, <1>11 DEF EntriesFiled
  <2>4. \A k : ~Pending("rollback", DbEntry(k))
    BY <1>4, <1>9 DEF Labelled, Pending, Step, Actions
  <2>5. RestoredKnown'
    BY <1>6, <1>8, <1>9, <1>11, <2>4 DEF RestoredKnown, Evidence
  <2> QED BY <1>6, <2>2, <2>3, <2>5 DEF RolledBackTo
<1>12. JournalKnows'
  BY <1>6, <1>10, <1>11 DEF JournalKnows, Evidence
<1>13. Closed'
  BY <1>4, <1>6 DEF Closed, InPreparation
<1> QED BY <1>2, <1>4, <1>6, <1>12, <1>13

(* It announces a change.                                                     *)
LEMMA PreparerAnnouncesKnow ==
    ASSUME Typed, PreparationInv, PreparationKnown, PreparerAnnounces PROVE PreparationKnown'
<1> DEFINE e == PreparationPlan[process.at]
<1>1. /\ PreparerAt("change") /\ PartCheckpoint(e.object, "pending", journal.evidence)
      /\ part' = part /\ workspace' = workspace
      /\ process.mark = "none" /\ process' = [process EXCEPT !.mark = "pending"]
  BY DEF PreparerAnnounces, Evidence
<1> HIDE DEF e
<1>2. /\ JournalKnows' /\ Closed' /\ journal'.action = "none" /\ journal'.evidence = journal.evidence
      /\ InPreparation /\ process.at > 1
  BY <1>1, PreparerChecks
<1>3. /\ Preparing /\ Changing /\ type' = type /\ PreparationStaging' = PreparationStaging
      /\ process \in ProcessType
  BY <1>1, PreparerWorks
<1>4. process'.at = process.at /\ process'.mark = "pending" /\ process'.command = "prepare"
  BY <1>1, <1>3 DEF ProcessType, Preparing
<1>5. (ReservationsReady' <=> ReservationsReady) /\ (StageMade' <=> StageMade)
  BY <1>1, <1>3, SameWorkspace
<1>6. PreparerKnows'
  <2>1. \A k \in Database' : part'[DbEntry(k)] # "restored"
    <3>1. process.at > 1 => \A k \in Database : part[DbEntry(k)] # "restored"
      BY <1>3 DEF PreparationKnown, PreparerKnows
    <3>2. process.at > 1 /\ Database' = Database
      BY <1>1, <1>2, <1>3, SameWorkspace
    <3> QED BY <1>1, <3>1, <3>2
  <2> QED BY <1>1, <1>2, <1>3, <1>4, <1>5, <2>1 DEF PreparationKnown, PreparerKnows, Evidence
<1>7. ~Repairing'
  BY <1>4 DEF Repairing, Actions
<1> QED BY <1>2, <1>6, <1>7 DEF PreparationKnown, RepairerKnows

(* It records a change.                                                       *)
LEMMA PreparerRecordsKnow ==
    ASSUME Typed, PreparationInv, PreparationKnown, PreparerRecords PROVE PreparationKnown'
<1> DEFINE e == PreparationPlan[process.at]
           evidence == Recorded(e.object, e.to)
           n == process.at
<1>1. /\ PreparerAt("change") /\ PartCheckpoint(e.object, "done", evidence)
      /\ part' = part /\ workspace' = workspace /\ process.mark = "made" /\ Done
  BY DEF PreparerRecords
<1>2. /\ Preparing /\ Changing /\ type \in Types /\ n \in 1 .. Len(PreparationPlan) /\ n \in Nat
      /\ Len(PreparationPlan) \in Nat /\ e.kind = "change" /\ type' = type
      /\ process \in ProcessType /\ journal \in JournalType /\ PreparationStaging' = PreparationStaging
  BY <1>1, PreparerWorks
<1>3. /\ evidence.staged = journal.evidence.staged /\ evidence.filed = journal.evidence.filed
      /\ journal.evidence.directory => evidence.directory
      /\ e.object = Directory => evidence.directory
      /\ journal.evidence.restored \subseteq evidence.restored
  BY <1>2 DEF Recorded, JournalType, EvidenceType
<1> HIDE DEF evidence, e
<1>4. /\ JournalKnows' /\ Closed' /\ journal'.action = "none" /\ journal'.evidence = evidence
      /\ InPreparation /\ n > 1
  BY <1>1, <1>3, PreparerChecks
<1>5. process'.at = n + 1 /\ process'.mark = "none" /\ process'.command = "prepare"
  BY <1>1, <1>2 DEF Done, ProcessType, Preparing
<1>6. /\ Len(PreparationStaging) \in Nat /\ Len(PreparationStaging) >= 10 /\ n # 4
      /\ (n = 2 => e = Change(Directory, "staged")) /\ (n = 3 => e = Change(State, "staged"))
  BY <1>2, StageIsLast, PreparationAt DEF e
<1>7. (StageMade' <=> StageMade)
  BY <1>1, <1>2, SameWorkspace
<1>8. Evidence'.directory
  <2>1. n = 2 => e.object = Directory
    BY <1>6 DEF Change
  <2>2. n > 2 => journal.evidence.directory
    BY <1>2 DEF PreparationKnown, PreparerKnows, Evidence
  <2>3. n = 2 \/ n > 2
    BY <1>2, <1>4
  <2> QED BY <1>3, <1>4, <2>1, <2>2, <2>3 DEF Evidence
<1>9. n + 1 > 3 => part'[State] \in {"staged", "published"}
  <2>1. n = 3 => part[State] = "staged"
    <3>1. part[e.object] = e.to
      BY <1>1, <1>2 DEF PreparationInv, PreparerInv, e
    <3>2. Change(State, "staged").object = State /\ Change(State, "staged").to = "staged"
      BY DEF Change
    <3> QED BY <1>6, <3>1, <3>2
  <2>2. n > 3 => part[State] \in {"staged", "published"}
    BY <1>2 DEF PreparationKnown, PreparerKnows
  <2>3. n + 1 > 3 => n = 3 \/ n > 3
    BY <1>2
  <2> QED BY <1>1, <2>1, <2>2, <2>3
<1>10. n + 1 = Len(PreparationStaging) => StageMade'
  <2>1. n + 1 = Len(PreparationStaging) => n = Len(PreparationStaging) - 1
    BY <1>2, <1>6
  <2> QED BY <1>1, <1>2, <1>7, <2>1 DEF PreparationKnown, PreparerKnows
<1>11. n + 1 # 5
  BY <1>2, <1>6
<1>12. PreparerKnows'
  <2>1. \A k \in Database : part[DbEntry(k)] # "restored"
    BY <1>2, <1>4 DEF PreparationKnown, PreparerKnows
  <2>2. \A k \in Database' : part'[DbEntry(k)] # "restored"
    BY <1>1, <1>2, <2>1, SameWorkspace
  <2> QED BY <1>2, <1>4, <1>5, <1>8, <1>9, <1>10, <1>11, <2>2 DEF PreparerKnows
<1>13. ~Repairing'
  BY <1>5 DEF Repairing, Actions
<1> QED BY <1>4, <1>12, <1>13 DEF PreparationKnown, RepairerKnows

(* What a change by the command may be.                                       *)
LEMMA PreparerTurns ==
    ASSUME Typed, PreparationInv, PreparerChanges
    PROVE  \E o, to :
             /\ PreparationPlan[process.at] = Change(o, to) /\ ChangePart(o, to)
             /\ process.at > 1 /\ process.at # 5
             /\ to \notin {"abandoned", "restored", "before"}
             /\ to = "absent" <=> o = RootCopy
             /\ o[1] = "database" => to = "after"
             /\ process.at > Len(PreparationStaging) => o # Stage
             /\ o = State => to \in {"staged", "published"}
             /\ process.at = Len(PreparationStaging) - 1 => o = Stage /\ to = "staged"
<1> DEFINE n == process.at
           Good(o, to) ==
             /\ n > 1 /\ n # 5 /\ to \notin {"abandoned", "restored", "before"}
             /\ to = "absent" <=> o = RootCopy
             /\ o[1] = "database" => to = "after"
             /\ n > Len(PreparationStaging) => o # Stage
             /\ o = State => to \in {"staged", "published"}
<1>1. /\ PreparerAt("change")
      /\ ChangePart(PreparationPlan[n].object, PreparationPlan[n].to)
  BY DEF PreparerChanges
<1>2. /\ type \in Types /\ n \in 1 .. Len(PreparationPlan) /\ n \in Nat
      /\ Len(PreparationStaging) \in Nat /\ Len(PreparationStaging) >= 10
      /\ PreparationPlan[n].kind = "change"
  BY <1>1, PreparerWorks
<1>3. \/ n = 2 /\ PreparationPlan[n] = Change(Directory, "staged")
      \/ n = 3 /\ PreparationPlan[n] = Change(State, "staged")
      \/ n = 6 /\ PreparationPlan[n] = Change(BackupSession, "published")
      \/ /\ n > 6 /\ n < Len(PreparationStaging)
         /\ \E a \in TypeAuthorities : PreparationPlan[n] = Change(Reserved(a), "reserved")
      \/ n > 6 /\ n < Len(PreparationStaging) /\ PreparationPlan[n] = Change(Stage, "staged")
      \/ /\ n > Len(PreparationStaging)
         /\ \E p \in CandidateParts : PreparationPlan[n] = Change(p, FinalPart(p))
      \/ n > Len(PreparationStaging) /\ PreparationPlan[n] = Change(Pointer, "published")
  BY <1>2, PreparationAt
<1> HIDE DEF Change, n
<1>4. \E o, to : PreparationPlan[n] = Change(o, to) /\ Good(o, to)
  <2>1. ASSUME NEW o \in {Directory, State, Stage, BackupSession, Pointer}, NEW to \in {"staged", "published"},
               n > 1, n # 5, n > Len(PreparationStaging) => o # Stage
        PROVE  Good(o, to)
    BY <2>1, PartObjects
  <2>2. CASE n \in {2, 3, 6}
    <3>1. Stage # Directory /\ Stage # State /\ Stage # BackupSession
      BY PartObjects
    <3>2. n > 1 /\ n # 5
      BY <2>2
    <3> HIDE DEF Good
    <3>3. Good(Directory, "staged") /\ Good(State, "staged") /\ Good(BackupSession, "published")
      BY <2>1, <3>1, <3>2
    <3> QED BY <1>2, <1>3, <2>2, <3>3
  <2>3. CASE n > 6 /\ n < Len(PreparationStaging)
    <3>1. n > 1 /\ n # 5 /\ ~(n > Len(PreparationStaging))
      BY <1>2, <2>3
    <3>2. Good(Stage, "staged")
      BY <2>1, <3>1
    <3>3. ASSUME NEW a \in TypeAuthorities PROVE Good(Reserved(a), "reserved")
      <4>1. Reserved(a)[1] = "reservation"
        BY PartObjects DEF TypeAuthorities, Authorities
      <4> QED BY <3>1, <4>1, PartObjects
    <3> HIDE DEF Good
    <3>4. (\E a \in TypeAuthorities : PreparationPlan[n] = Change(Reserved(a), "reserved"))
             \/ PreparationPlan[n] = Change(Stage, "staged")
      BY <1>2, <1>3, <2>3
    <3> QED BY <3>2, <3>3, <3>4
  <2>4. CASE n > Len(PreparationStaging)
    <3>1. n > 1 /\ n # 5
      BY <1>2, <2>4
    <3>2. Good(Pointer, "published")
      <4>1. Pointer # Stage
        BY PartObjects
      <4> QED BY <2>1, <3>1, <4>1
    <3>3. ASSUME NEW p \in CandidateParts PROVE Good(p, FinalPart(p))
      <4>1. /\ FinalPart(p) \in {"published", "consumed", "after", "absent"}
            /\ FinalPart(p) = "absent" <=> p[1] = "root copy"
            /\ p[1] = "root copy" <=> p = RootCopy
            /\ p[1] = "database" => FinalPart(p) = "after"
            /\ p[1] \in {"candidate", "reservation", "database", "root copy", "state"}
        BY <1>2, FinalParts
      <4>2. FinalPart(State) = "published" /\ p # Stage
        BY <4>1, PartObjects DEF FinalPart
      <4> QED BY <3>1, <4>1, <4>2
    <3> HIDE DEF Good
    <3>4. (\E p \in CandidateParts : PreparationPlan[n] = Change(p, FinalPart(p)))
             \/ PreparationPlan[n] = Change(Pointer, "published")
      BY <1>2, <1>3, <2>4
    <3> QED BY <3>2, <3>3, <3>4
  <2> QED BY <1>2, <1>3, <2>2, <2>3, <2>4
<1>5. PICK o, to : PreparationPlan[n] = Change(o, to) /\ Good(o, to)
  BY <1>4
<1>6. PreparationPlan[n].object = o /\ PreparationPlan[n].to = to
  BY <1>5 DEF Change
<1>7. n = Len(PreparationStaging) - 1 => o = Stage /\ to = "staged"
  <2>1. PreparationPlan[Len(PreparationStaging) - 1] = Change(Stage, "staged")
    BY <1>2, StageIsLast
  <2> QED BY <1>5, <2>1 DEF Change
<1>8. ChangePart(o, to)
  BY <1>1, <1>6
<1> QED BY <1>5, <1>7, <1>8 DEF n

(* The change itself.                                                         *)
LEMMA PreparerChangesKnow ==
    ASSUME Typed, PreparationInv, PreparationKnown, PreparerChanges PROVE PreparationKnown'
<1> DEFINE n == process.at
<1>1. /\ PreparerAt("change") /\ process.mark = "pending" /\ journal' = journal
  BY DEF PreparerChanges
<1>2. /\ Preparing /\ Changing /\ type \in Types /\ n \in 1 .. Len(PreparationPlan) /\ n \in Nat
      /\ Len(PreparationPlan) \in Nat /\ Len(PreparationStaging) \in Nat /\ Len(PreparationStaging) >= 10
      /\ PreparationPlan[n].kind = "change" /\ type' = type
      /\ PreparationStaging' = PreparationStaging
  BY <1>1, PreparerWorks
<1>3. PICK o, to :
        /\ PreparationPlan[n] = Change(o, to) /\ ChangePart(o, to) /\ n > 1 /\ n # 5
        /\ to \notin {"abandoned", "restored", "before"}
        /\ to = "absent" <=> o = RootCopy
        /\ o[1] = "database" => to = "after"
        /\ n > Len(PreparationStaging) => o # Stage
        /\ o = State => to \in {"staged", "published"}
        /\ n = Len(PreparationStaging) - 1 => o = Stage /\ to = "staged"
  BY PreparerTurns
<1>4. /\ o \in Parts /\ o \in Involved
      /\ part'[o] = to \/ (o = RootCopy /\ part'[o] \in {"absent", "partial"})
      /\ \A p \in Parts : p # o =>
            part'[p] = part[p] \/ (o = Stage /\ p \in StageParts /\ part'[p] = "staged")
      /\ process'.at = n /\ process'.mark \in {"pending", "made"} /\ process'.command = process.command
      /\ Evidence' = Evidence /\ InPreparation /\ InPreparation'
  BY <1>3, PreparerMakes
<1>5. /\ Candidates' = Candidates /\ Database' = Database /\ TypeAuthorities' = TypeAuthorities
      /\ StageParts' = StageParts /\ StageFiles' = StageFiles
  <2>1. TypeAuthorities' = TypeAuthorities /\ Database' = Database
    BY <1>2 DEF TypeAuthorities, Database
  <2> QED BY <1>2, <2>1 DEF Candidates, StageParts, CopyParts, StageFiles
<1>6. /\ Database \subseteq Keys /\ Candidates \cup {State} \subseteq Parts
      /\ \A p \in Candidates : p[1] = "candidate"
      /\ \A p \in StageParts : p[1] \in {"candidate", "root copy"}
      /\ \A k \in Keys : DbEntry(k) \in Parts /\ DbEntry(k)[1] = "database"
      /\ RootCopy[1] = "root copy" /\ State[1] = "state" /\ Stage[1] = "stage"
      /\ Stage \in Parts /\ StageParts \subseteq Parts
      /\ Directory[1] = "transaction"
  <2>1. \A p \in Candidates : p \in Parts /\ p[1] = "candidate"
    BY AuthorityParts
  <2>2. StageParts \subseteq Involved /\ Involved \subseteq Parts
        /\ \A p \in StageParts : p[1] \in {"candidate", "root copy"}
    BY <1>2, InvolvedParts
  <2> QED BY <1>2, <2>1, <2>2, PartObjects, IssuedIs
<1> HIDE DEF n
<1>7. ASSUME NEW p, NEW s, << p, s >> \in workspace, ~(p = o /\ s = to)
      PROVE  << p, s >> \in workspace'
  <2>1. to = "absent" => o # Directory /\ ~(o = Stage /\ p[1] = "database")
    BY <1>3, <1>6
  <2> QED BY <1>3, <1>7, <2>1, FilesChange
<1>8. /\ journal.action = "none" /\ \A k \in Database : part[DbEntry(k)] # "restored"
      /\ n > 2 => Evidence.directory
      /\ n > 3 => part[State] \in {"staged", "published"}
  BY <1>2, <1>3 DEF PreparationKnown, PreparerKnows, n
<1>9. \A k \in Database : part'[DbEntry(k)] = part[DbEntry(k)] \/ (o = DbEntry(k) /\ part'[DbEntry(k)] = "after")
  BY <1>3, <1>4, <1>6
<1>10. part'[State] = part[State] \/ part'[State] \in {"staged", "published"}
  BY <1>3, <1>4, <1>6
<1>11. /\ Labelled /\ Evident /\ ReservationsFiled
       /\ Evidence.staged => Excusable /\ RolledBackTo /\ EntriesFiled /\ RestoredKnown
  BY <1>4 DEF PreparationKnown, JournalKnows
<1>12. Labelled' /\ Evident'
  BY <1>1, <1>4, <1>11 DEF Labelled, Evident
<1>13. ReservationsFiled'
  <2> SUFFICES ASSUME Evidence.filed, NEW a \in TypeAuthorities
               PROVE  << Reserved(a), "abandoned" >> \in workspace'
    BY <1>4, <1>5 DEF ReservationsFiled, ReservationsReady
  <2>1. part[Reserved(a)] # "abandoned"
    BY <1>2 DEF PreparationInv, PreparerInv, TypeAuthorities, Authorities
  <2>2. << Reserved(a), "abandoned" >> \in workspace
    BY <1>11, <2>1 DEF ReservationsFiled, ReservationsReady
  <2> QED BY <1>3, <1>7, <2>2
<1>14. ASSUME Evidence.staged PROVE Excusable' /\ RolledBackTo' /\ EntriesFiled' /\ RestoredKnown'
  <2>1. n > Len(PreparationStaging)
    BY <1>2, <1>3, <1>14 DEF PreparationInv, PreparerInv, n
  <2>2. o # Stage
    BY <1>3, <2>1
  <2>3. Excusable'
    <3>1. \A p \in Candidates \cup {State} : part[p] # "absent"
      BY <1>8, <1>11, <1>14 DEF Excusable, Excused
    <3>2. ASSUME NEW p \in Candidates \cup {State} PROVE part'[p] # "absent"
      <4>1. p \in Parts /\ p # RootCopy
        BY <1>6
      <4> QED BY <1>3, <1>4, <3>1, <4>1
    <3> QED BY <1>5, <3>2 DEF Excusable
  <2>4. RolledBackTo'
    BY <1>1, <1>8 DEF RolledBackTo
  <2>5. EntriesFiled'
    <3>1. part'[Stage] = part[Stage]
      BY <1>4, <1>6, <2>2
    <3>2. ASSUME part[Stage] = "staged", NEW k \in Database \ Created
          PROVE  << DbEntry(k), "restored" >> \in workspace'
      <4>1. << DbEntry(k), "restored" >> \in workspace
        BY <1>8, <1>11, <1>14, <3>2 DEF EntriesFiled
      <4> QED BY <1>3, <1>7, <4>1
    <3>3. ASSUME part[Stage] = "staged", NEW k \in Database \ Kept, part'[DbEntry(k)] = "before"
          PROVE  << DbEntry(k), "after" >> \in workspace'
      <4>1. o # DbEntry(k) /\ part[DbEntry(k)] = "before"
        BY <1>3, <1>4, <1>6, <1>9, <3>3
      <4>2. << DbEntry(k), "after" >> \in workspace
        BY <1>8, <1>11, <1>14, <3>3, <4>1 DEF EntriesFiled
      <4> QED BY <1>7, <4>1, <4>2
    <3> QED BY <1>5, <3>1, <3>2, <3>3 DEF EntriesFiled
  <2>6. RestoredKnown'
    BY <1>5, <1>8, <1>9 DEF RestoredKnown
  <2> QED BY <2>3, <2>4, <2>5, <2>6
<1>15. JournalKnows'
  BY <1>4, <1>12, <1>13, <1>14 DEF JournalKnows
<1>16. n # Len(PreparationStaging)
  <2>1. PreparationPlan[Len(PreparationStaging)].kind = "note"
    BY <1>2, StageIsLast
  <2> QED BY <1>2, <2>1
<1>17. n = Len(PreparationStaging) - 1 => StageMade'
  <2> SUFFICES ASSUME n = Len(PreparationStaging) - 1 PROVE StageMade'
    OBVIOUS
  <2>1. Make(Stage)
    BY <1>3 DEF ChangePart
  <2>2. Contents(Stage) = StageParts
    BY <1>2, InvolvedParts
  <2>3. /\ part' = [p \in Parts |-> IF p = Stage \/ p \in StageParts THEN "staged" ELSE part[p]]
        /\ workspace' = workspace \cup StageFiles
    BY <2>1, <2>2 DEF Make
  <2>4. \A p \in StageParts \cup {Stage} : part'[p] = "staged"
    BY <1>6, <2>3
  <2> QED BY <1>5, <2>3, <2>4 DEF StageMade
<1>18. PreparerKnows'
  <2>1. process'.at = n /\ journal'.action = "none"
    BY <1>1, <1>4, <1>8
  <2>2. \A k \in Database' : part'[DbEntry(k)] # "restored"
    BY <1>5, <1>8, <1>9
  <2>3. (n > 2 => Evidence'.directory) /\ (n > 3 => part'[State] \in {"staged", "published"})
    BY <1>4, <1>8, <1>10
  <2>4. process'.at # 5 /\ process'.at # Len(PreparationStaging')
    BY <1>2, <1>3, <1>16, <2>1
  <2>5. process'.at = Len(PreparationStaging') - 1 => StageMade'
    BY <1>2, <1>17, <2>1
  <2> QED BY <2>1, <2>2, <2>3, <2>4, <2>5 DEF PreparerKnows
<1>19. Closed' /\ ~Repairing'
  BY <1>1, <1>2, <1>4 DEF PreparationKnown, Closed, Repairing, Preparing, Actions
<1> QED BY <1>15, <1>18, <1>19 DEF PreparationKnown, RepairerKnows

(* The command keeps what is known.                                           *)
LEMMA PreparerKnow ==
    ASSUME Typed, PreparationInv, PreparationKnown, PreparerSteps PROVE PreparationKnown'
<1>1. CASE PreparerUnlinks
  BY <1>1, Unlinked, PreparationKnownStutters
<1> QED BY <1>1, PreparerNotesKnow, PreparerFillsKnow, PreparerAnnouncesKnow,
    PreparerChangesKnow,
           PreparerRecordsKnow DEF PreparerSteps

(* Where a rollback that was announced before stands in this one.              *)
LEMMA AnnouncedBefore ==
    ASSUME Typed, PreparationInv, RepairsOn, process.mark \in {"none", "pending", "made"},
           process.command = "rollback", Evidence.staged, RolledBackTo, FixDue,
           journal.action = "rollback"
    PROVE  /\ Rank(journal.step.object) <= Rank(RepairEntry.object)
           /\ journal.step.object = RepairEntry.object
                \/ \E i \in 1 .. Len(Repairs) : i < process.at /\ Repairs[i].object = journal.step.object
<1>1. /\ process.at \in 1 .. Len(Repairs) /\ Len(Repairs) \in Nat /\ type \in Types
      /\ RepairEntry = Repairs[process.at]
  BY RepairerWorks
<1>2. Repairs = StagedRollback
  BY DEF Repairs, RepairPlan
<1>3. PICK j \in 1 .. Len(Repairs) :
            /\ Repairs[j].object = journal.step.object
            /\ \A i \in 1 .. Len(Repairs) : i < j => Repaired(Repairs[i])
  BY <1>2 DEF RolledBackTo
<1>4. ~Repaired(Repairs[process.at])
  BY <1>1 DEF FixDue, Repaired
<1>5. ~(process.at < j)
  BY <1>1, <1>3, <1>4
<1>6. j = process.at \/ j < process.at
  BY <1>1, <1>5
<1>7. Ascends(Repairs, 0, 8)
  BY <1>1, <1>2, RollbackAscends
<1>8. Rank(Repairs[j].object) <= Rank(Repairs[process.at].object)
  <2>1. Rank(Repairs[process.at].object) \in 0 .. 8
    BY RankIs
  <2>2. \A i, m \in 1 .. Len(Repairs) : i < m =>
            Rank(Repairs[i].object) <= Rank(Repairs[m].object)
    BY <1>7 DEF Ascends
  <2>3. CASE j = process.at
    BY <2>1, <2>3
  <2>4. CASE j < process.at
    BY <1>1, <2>2, <2>4
  <2> QED BY <1>6, <2>3, <2>4
<1> QED BY <1>1, <1>3, <1>6, <1>8

(* A recovery's own checkpoints leave what the journal knows.                  *)
LEMMA RepairerChecks ==
    ASSUME Typed, PreparationInv, PreparationKnown, RepairsOn,
           process.mark \in {"none", "pending", "made"}, part' = part, workspace' = workspace,
           NEW mark, NEW evidence, PartCheckpoint(RepairEntry.object, mark, evidence),
           evidence.staged = journal.evidence.staged, evidence.filed = journal.evidence.filed,
           journal.evidence.directory => evidence.directory,
           journal.evidence.restored \subseteq evidence.restored,
           process.command = "rollback" /\ Evidence.staged =>
              /\ journal.action = "rollback" => journal.step.object = RepairEntry.object \/ FixDue
              /\ \A k \in Database : part[DbEntry(k)] = "restored" =>
                    \/ k \in evidence.restored
                    \/ mark = "pending" /\ RepairEntry.object = DbEntry(k)
    PROVE  /\ JournalKnows' /\ Closed' /\ InPreparation' /\ journal'.action = process.command
           /\ journal'.step = Step(process.command, RepairEntry.object, mark)
           /\ journal'.evidence = evidence
<1> DEFINE o == RepairEntry.object
<1>1. /\ Repairing /\ Changing /\ type \in Types /\ process.at \in 1 .. Len(Repairs)
      /\ Len(Repairs) \in Nat /\ journal \in JournalType /\ type' = type
      /\ process.command \in Actions /\ InPreparation /\ ~journal.committed
      /\ process.action = process.command /\ RepairEntry = Repairs[process.at]
      /\ \A i \in 1 .. Len(Repairs) : i < process.at => Repaired(Repairs[i])
      /\ process.command = "resume" => Continued
  BY RepairerWorks
<1>2. journal' = [journal EXCEPT !.phase = "recovering", !.action = process.action,
                                 !.step = Step(process.command, o, mark), !.evidence = evidence]
  BY DEF PartCheckpoint
<1>3. /\ journal'.action = process.command /\ journal'.step = Step(process.command, o, mark)
      /\ journal'.evidence = evidence /\ journal'.committed = journal.committed
      /\ journal'.operation = journal.operation
  BY <1>1, <1>2 DEF JournalType
<1>4. journal'.step.action = process.command /\ journal'.step.object = o
  BY <1>3 DEF Step
<1>5. /\ Candidates' = Candidates /\ Database' = Database /\ StagedRollback' = StagedRollback
      /\ (ReservationsReady' <=> ReservationsReady)
  BY <1>1, SameWorkspace
<1> HIDE DEF o
<1>6. /\ Labelled /\ Evident /\ ReservationsFiled
      /\ Evidence.staged => Excusable /\ RolledBackTo /\ EntriesFiled /\ RestoredKnown
  BY <1>1 DEF PreparationKnown, JournalKnows
<1>7. Labelled' /\ Evident' /\ ReservationsFiled'
  <2>1. process.command = "resume" => evidence.staged
    BY <1>1 DEF Continued, Evidence
  <2> QED BY <1>1, <1>3, <1>4, <1>5, <1>6, <2>1
      DEF Labelled, Evident, ReservationsFiled, Evidence
<1>8. CASE process.command = "resume"
  <2>1. ResumeKnows /\ Continued
    BY <1>1, <1>8 DEF PreparationKnown, RepairerKnows
  <2>2. Excusable'
    BY <1>5, <2>1 DEF Excusable, Continued
  <2>3. EntriesFiled'
    <3>1. EntriesFiled
      BY <1>6, <2>1 DEF Continued
    <3> QED BY <1>5, <2>1, <3>1 DEF EntriesFiled, ResumeKnows
  <2>4. RestoredKnown'
    BY <1>3, <1>5, <2>1 DEF RestoredKnown, ResumeKnows, Evidence
  <2>5. RolledBackTo'
    BY <1>3, <1>8 DEF RolledBackTo
  <2>6. JournalKnows'
    BY <1>7, <2>2, <2>3, <2>4, <2>5 DEF JournalKnows
  <2> QED BY <1>1, <1>3, <2>6 DEF Closed, InPreparation, o
<1>9. CASE process.command # "resume"
  <2>1. process.command = "rollback"
    BY <1>1, <1>9 DEF Actions
  <2>2. ASSUME Evidence.staged PROVE Excusable' /\ RolledBackTo' /\ EntriesFiled' /\ RestoredKnown'
    <3>1. o \in RolledBack \cup EndingParts /\ Repairs = StagedRollback
      BY <1>1, <2>1, <2>2, RollbackEntries DEF Repairs, RepairPlan, o
    <3>2. Excusable'
      <4> SUFFICES ASSUME NEW p \in Candidates \cup {State}, part[p] = "absent"
                   PROVE  Excused("rollback", p)'
        BY <1>5 DEF Excusable
      <4>1. Excused("rollback", p)
        BY <1>6, <2>2 DEF Excusable
      <4>2. journal.action = "rollback" /\ RolledBackTo
        BY <1>6, <2>2, <4>1 DEF Excused
      <4>3. journal.step.object \in RolledBack \cup EndingParts
        <5>1. PICK j \in 1 .. Len(Repairs) : Repairs[j].object = journal.step.object
          BY <3>1, <4>2 DEF RolledBackTo
        <5>2. Repairs[j].object \in RolledBack \cup EndingParts
          BY <1>1, <2>1, RollbackEntries
        <5> QED BY <5>1, <5>2
      <4>4. Rank(p) <= Rank(journal.step.object)
        BY <1>1, <4>1, <4>3, ExcusedIs
      <4>5. Rank(journal.step.object) <= Rank(o)
        <5>1. CASE journal.step.object = o
          BY <5>1, RankIs
        <5>2. CASE FixDue
          BY <2>1, <2>2, <4>2, <5>2, AnnouncedBefore DEF o
        <5> QED BY <2>1, <2>2, <4>2, <5>1, <5>2 DEF o
      <4>6. Rank(p) <= Rank(o)
        BY <4>4, <4>5, RankIs
      <4>7. o \in Excusing(p)
        BY <1>1, <3>1, <4>6, ExcusingParts
      <4> QED BY <1>3, <1>4, <2>1, <4>7 DEF Excused, Excusing
    <3>3. RolledBackTo'
      <4>1. StagedRollback[process.at].object = journal'.step.object
        BY <1>1, <1>4, <3>1 DEF o
      <4>2. \A i \in 1 .. Len(StagedRollback') : i < process.at => Repaired(StagedRollback[i])'
        <5>1. \A i \in 1 .. Len(StagedRollback) : i < process.at => Repaired(StagedRollback[i])
          BY <1>1, <3>1
        <5> QED BY <1>5, <5>1 DEF Repaired
      <4>3. process.at \in 1 .. Len(StagedRollback')
        BY <1>1, <1>5, <3>1
      <4> QED BY <1>5, <4>1, <4>2, <4>3 DEF RolledBackTo
    <3>4. EntriesFiled'
      BY <1>3, <1>5, <1>6, <2>1, <2>2 DEF EntriesFiled
    <3>5. RestoredKnown'
      <4> SUFFICES ASSUME NEW k \in Database, part[DbEntry(k)] = "restored"
                   PROVE  k \in evidence.restored \/ Pending("rollback", DbEntry(k))'
        BY <1>3, <1>5 DEF RestoredKnown, Evidence
      <4>1. k \in evidence.restored \/ (mark = "pending" /\ o = DbEntry(k))
        BY <2>1, <2>2 DEF o
      <4> QED BY <1>3, <2>1, <4>1 DEF Pending
    <3> QED BY <3>2, <3>3, <3>4, <3>5
  <2>3. JournalKnows'
    BY <1>3, <1>7, <2>2 DEF JournalKnows, Evidence
  <2> QED BY <1>1, <1>3, <2>3 DEF Closed, InPreparation, o
<1> QED BY <1>8, <1>9

(* Where a rollback comes again to the entry announced before it, it is there.  *)
LEMMA RevisitedHere ==
    ASSUME Typed, PreparationInv, PreparationKnown, RepairsOn,
           process.mark = "none", process.command = "rollback", Evidence.staged, FixDue,
           NEW k \in Database, Revisited(k)
    PROVE  RepairEntry.object = DbEntry(k)
<1>1. /\ process.at \in 1 .. Len(Repairs) /\ Repairing /\ InPreparation
  BY RepairerWorks
<1>2. journal.step = process.step /\ journal.step = Step("rollback", DbEntry(k), "pending")
  BY <1>1 DEF PreparationKnown, RepairerKnows, RollbackKnows, Revisited
<1>3. journal.step.action = "rollback" /\ journal.step.object = DbEntry(k)
  BY <1>2 DEF Step
<1>4. Labelled /\ RolledBackTo
  BY <1>1 DEF PreparationKnown, JournalKnows
<1>5. journal.action = "rollback"
  BY <1>3, <1>4 DEF Labelled, Actions
<1>6. \/ journal.step.object = RepairEntry.object
      \/ \E i \in 1 .. Len(Repairs) : i < process.at /\ Repairs[i].object = journal.step.object
  BY <1>4, <1>5, AnnouncedBefore
<1> QED BY <1>3, <1>6 DEF Revisited

(* What is found restored is recorded, or was announced and is next.           *)
LEMMA RestoredWhere ==
    ASSUME Typed, PreparationInv, PreparationKnown, RepairsOn,
           process.mark \in {"none", "pending", "made"}, process.command = "rollback", Evidence.staged,
           NEW k \in Database, part[DbEntry(k)] = "restored", k \notin Evidence.restored
    PROVE  /\ process.mark = "none" => Revisited(k)
           /\ process.mark # "none" => RepairEntry.object = DbEntry(k)
<1>1. Repairing /\ InPreparation
  BY RepairerWorks
<1>2. RestoredKnown /\ RollbackKnows
  BY <1>1 DEF PreparationKnown, JournalKnows, RepairerKnows
<1>3. Pending("rollback", DbEntry(k))
  BY <1>2 DEF RestoredKnown
<1>4. process.mark # "none" => journal.step = Step(process.command, RepairEntry.object, "pending")
  BY <1>1 DEF PreparationKnown, RepairerKnows
<1> QED BY <1>2, <1>3, <1>4 DEF RollbackKnows, Pending, Step

(* A recovery announces its next step.                                        *)
LEMMA RepairAnnouncesKnow ==
    ASSUME Typed, PreparationInv, PreparationKnown, RepairAnnounces PROVE PreparationKnown'
<1>1. /\ RepairsOn /\ process.mark = "none" /\ FixDue /\ part' = part /\ workspace' = workspace
      /\ PartCheckpoint(RepairEntry.object, "pending", Evidence)
      /\ process' = [process EXCEPT !.mark = "pending"]
  BY DEF RepairAnnounces
<1>2. /\ Repairing /\ ~Preparing /\ InPreparation /\ type \in Types /\ process \in ProcessType
      /\ type' = type
  BY <1>1, RepairerWorks
<1>3. ASSUME process.command = "rollback", Evidence.staged,
             NEW k \in Database, part[DbEntry(k)] = "restored", k \notin Evidence.restored
      PROVE  RepairEntry.object = DbEntry(k)
  <2>1. Revisited(k)
    BY <1>1, <1>3, RestoredWhere
  <2> QED BY <1>1, <1>3, <2>1, RevisitedHere
<1>4. /\ JournalKnows' /\ Closed' /\ InPreparation' /\ journal'.action = process.command
      /\ journal'.step = Step(process.command, RepairEntry.object, "pending")
      /\ Evidence' = Evidence
  BY <1>1, <1>3, RepairerChecks DEF Evidence
<1>5. /\ process'.command = process.command /\ process'.at = process.at /\ process'.mark = "pending"
      /\ process'.step = process.step
  BY <1>1, <1>2 DEF ProcessType
<1>6. Repairs' = Repairs /\ RepairEntry' = RepairEntry
  <2>1. \A action : RepairPlan(action)' = RepairPlan(action)
    BY <1>2, <1>4, SamePreparation
  <2> QED BY <1>5, <2>1 DEF Repairs, RepairEntry
<1>7. Database' = Database
  BY <1>1, <1>2, SameWorkspace
<1>8. ASSUME process.command = "rollback", Evidence.staged PROVE RollbackKnows'
  <2>1. \A k \in Database : Revisited(k) => RepairEntry.object = DbEntry(k)
    BY <1>1, <1>8, RevisitedHere
  <2>2. \A k \in Database : Revisited(k)' => Revisited(k)
    BY <1>5, <1>6 DEF Revisited
  <2> QED BY <1>5, <1>6, <1>7, <2>1, <2>2 DEF RollbackKnows
<1>9. process.command = "resume" => ResumeKnows'
  <2>1. process.command = "resume" => ResumeKnows
    BY <1>2 DEF PreparationKnown, RepairerKnows
  <2> QED BY <1>1, <1>4, <1>7, <2>1 DEF ResumeKnows
<1>10. RepairerKnows'
  BY <1>4, <1>5, <1>6, <1>8, <1>9 DEF RepairerKnows
<1>11. ~Preparing'
  BY <1>2, <1>5 DEF Preparing
<1> QED BY <1>4, <1>10, <1>11 DEF PreparationKnown, PreparerKnows

(* An entry of the database is repaired to one of these states.                *)
LEMMA RestoresTo ==
    ASSUME Typed, PreparationInv, RepairsOn, process.mark \in {"none", "pending", "made"},
           process.command = "rollback", NEW k \in Database, RepairEntry.object = DbEntry(k)
    PROVE  /\ k \in Keys /\ RepairEntry.to = IF k \in Created THEN "before" ELSE "restored"
           /\ RepairEntry.from = {"after"}
<1>1. /\ process.at \in 1 .. Len(Repairs) /\ type \in Types /\ RepairEntry = Repairs[process.at]
  BY RepairerWorks
<1>2. RepairEntry = RepairOf(DbEntry(k))
  BY <1>1, RollbackEntries
<1>3. k \in Keys
  BY <1>1, IssuedIs
<1>4. RepairOf(DbEntry(k)) = Restore(k)
  BY <1>3, RepairIs
<1> QED BY <1>2, <1>3, <1>4 DEF Restore, Fix

(* It records a step.                                                         *)
LEMMA RepairRecordsKnow ==
    ASSUME Typed, PreparationInv, PreparationKnown, RepairRecords PROVE PreparationKnown'
<1> DEFINE evidence == Recorded(RepairEntry.object, RepairEntry.to)
<1>1. /\ RepairsOn /\ (process.mark = "made" \/ (process.mark = "none" /\ Unrecorded(RepairEntry)))
      /\ PartCheckpoint(RepairEntry.object, "done", evidence) /\ Done
      /\ part' = part /\ workspace' = workspace
  BY DEF RepairRecords
<1>2. /\ Repairing /\ ~Preparing /\ InPreparation /\ type \in Types /\ process \in ProcessType
      /\ type' = type /\ process.at \in 1 .. Len(Repairs) /\ Len(Repairs) \in Nat /\ process.at \in Nat
      /\ journal \in JournalType /\ RepairEntry = Repairs[process.at]
  BY <1>1, RepairerWorks
<1>3. /\ evidence.staged = journal.evidence.staged /\ evidence.filed = journal.evidence.filed
      /\ journal.evidence.directory => evidence.directory
      /\ journal.evidence.restored \subseteq evidence.restored
      /\ \A k \in Keys : RepairEntry.object = DbEntry(k) /\ RepairEntry.to = "restored" =>
            k \in evidence.restored
  BY <1>2 DEF Recorded, JournalType, EvidenceType
<1> HIDE DEF evidence
<1>4. process.mark = "none" => /\ RepairEntry.object[1] = "database"
                               /\ process.step = Step(process.command, RepairEntry.object, "pending")
                               /\ process.step.object = RepairEntry.object
  BY <1>1 DEF Unrecorded, Step
<1>5. ASSUME process.command = "rollback", Evidence.staged,
             NEW k \in Database, part[DbEntry(k)] = "restored"
      PROVE  k \in evidence.restored
  <2> SUFFICES ASSUME k \notin Evidence.restored PROVE k \in evidence.restored
    BY <1>3 DEF Evidence
  <2>1. RepairEntry.object = DbEntry(k)
    <3>1. process.mark = "none" => Revisited(k)
      BY <1>1, <1>5, RestoredWhere
    <3>2. CASE process.mark = "none"
      <4>1. process.step.object = DbEntry(k)
        BY <3>1, <3>2 DEF Revisited, Step
      <4> QED BY <1>4, <3>2, <4>1
    <3>3. CASE process.mark # "none"
      BY <1>1, <1>5, <3>3, RestoredWhere
    <3> QED BY <3>2, <3>3
  <2>2. k \in Keys /\ RepairEntry.to = IF k \in Created THEN "before" ELSE "restored"
    BY <1>1, <1>5, <2>1, RestoresTo
  <2>3. k \notin Created
    BY <1>5 DEF PreparationInv, Sorted
  <2> QED BY <1>3, <2>1, <2>2, <2>3
<1>6. ASSUME process.command = "rollback", Evidence.staged
      PROVE  journal.step.object = RepairEntry.object
  <2>1. CASE process.mark = "made"
    BY <1>2, <2>1 DEF PreparationKnown, RepairerKnows, Step
  <2>2. CASE process.mark = "none"
    <3>1. RepairEntry.object \in RolledBack \cup EndingParts /\ Repairs = StagedRollback
      BY <1>2, <1>6, RollbackEntries DEF Repairs, RepairPlan
    <3>2. PICK k \in Database : RepairEntry.object = DbEntry(k)
      <4>1. RepairEntry.object \in DatabaseParts
        BY <1>4, <2>2, <3>1, PartObjects, AuthorityParts DEF RolledBack, EndingParts
      <4> QED BY <4>1 DEF DatabaseParts
    <3>3. Ascends(Repairs, 0, 8)
      BY <1>2, <3>1, RollbackAscends
    <3>4. \A i \in 1 .. Len(Repairs) : i < process.at => Repairs[i].object # DbEntry(k)
      BY <1>2, <3>2, <3>3 DEF Ascends
    <3>5. Revisited(k)
      BY <1>4, <1>6, <2>2, <3>2, <3>4 DEF Revisited
    <3>6. journal.step = process.step
      BY <1>2, <1>6, <2>2, <3>5 DEF PreparationKnown, RepairerKnows, RollbackKnows
    <3> QED BY <1>4, <2>2, <3>6
  <2> QED BY <1>1, <2>1, <2>2
<1>7. /\ JournalKnows' /\ Closed' /\ InPreparation' /\ journal'.action = process.command
      /\ journal'.step = Step(process.command, RepairEntry.object, "done")
      /\ journal'.evidence = evidence
  BY <1>1, <1>3, <1>5, <1>6, RepairerChecks
<1>8. /\ process'.command = process.command /\ process'.at = process.at + 1 /\ process'.mark = "none"
      /\ process'.step = process.step
  BY <1>1, <1>2 DEF Done, ProcessType
<1>9. Repairs' = Repairs
  <2>1. \A action : RepairPlan(action)' = RepairPlan(action)
    BY <1>2, <1>3, <1>7, SamePreparation DEF Evidence
  <2> QED BY <1>8, <2>1 DEF Repairs
<1>10. Database' = Database
  BY <1>1, <1>2, SameWorkspace
<1>11. ASSUME process.command = "rollback", Evidence.staged PROVE RollbackKnows'
  <2>1. \A k \in Database : ~Revisited(k)'
    <3> SUFFICES ASSUME NEW k \in Database, Revisited(k)' PROVE FALSE
      OBVIOUS
    <3>1. RepairEntry.object # DbEntry(k)
      BY <1>2, <1>8, <1>9 DEF Revisited
    <3>2. Revisited(k) /\ process.step.object = DbEntry(k)
      BY <1>2, <1>8, <1>9 DEF Revisited, Step
    <3>3. CASE process.mark = "none"
      BY <1>4, <3>1, <3>2, <3>3
    <3>4. CASE process.mark # "none"
      BY <1>2, <1>11, <3>1, <3>2, <3>4 DEF PreparationKnown, RepairerKnows, RollbackKnows
    <3> QED BY <3>3, <3>4
  <2>2. \A k \in Database : part'[DbEntry(k)] = "restored" => k \in Evidence'.restored
    BY <1>1, <1>5, <1>7, <1>11 DEF Evidence
  <2> QED BY <1>10, <2>1, <2>2 DEF RollbackKnows
<1>12. process.command = "resume" => ResumeKnows'
  <2>1. process.command = "resume" => ResumeKnows
    BY <1>2 DEF PreparationKnown, RepairerKnows
  <2> QED BY <1>1, <1>3, <1>7, <1>10, <2>1 DEF ResumeKnows, Evidence
<1>13. RepairerKnows'
  BY <1>3, <1>7, <1>8, <1>11, <1>12 DEF RepairerKnows, Evidence
<1>14. ~Preparing'
  BY <1>2, <1>8 DEF Preparing
<1> QED BY <1>7, <1>13, <1>14 DEF PreparationKnown, PreparerKnows

(* It passes a step that is not due.                                          *)
LEMMA RepairPassesKnow ==
    ASSUME Typed, PreparationInv, PreparationKnown, RepairPasses PROVE PreparationKnown'
<1>1. /\ RepairsOn /\ process.mark = "none" /\ ~Unrecorded(RepairEntry) /\ Done
      /\ journal' = journal /\ part' = part /\ workspace' = workspace
  BY DEF RepairPasses
<1>2. /\ Repairing /\ ~Preparing /\ InPreparation /\ type \in Types /\ process \in ProcessType
      /\ type' = type /\ process.at \in 1 .. Len(Repairs) /\ process.at \in Nat /\ Len(Repairs) \in Nat
      /\ RepairEntry = Repairs[process.at]
  BY <1>1, RepairerWorks
<1>3. JournalKnows' /\ Closed'
  BY <1>1, <1>2, SameRecord DEF PreparationKnown
<1>4. /\ process'.command = process.command /\ process'.at = process.at + 1 /\ process'.mark = "none"
      /\ process'.step = process.step
  BY <1>1, <1>2 DEF Done, ProcessType
<1>5. Evidence' = Evidence
  BY <1>1 DEF Evidence
<1>6. Repairs' = Repairs
  <2>1. \A action : RepairPlan(action)' = RepairPlan(action)
    BY <1>2, <1>5, SamePreparation
  <2> QED BY <1>4, <2>1 DEF Repairs
<1>7. Database' = Database
  BY <1>1, <1>2, SameWorkspace
<1>8. ASSUME process.command = "rollback", Evidence.staged PROVE RollbackKnows'
  <2>1. RollbackKnows
    BY <1>2, <1>8 DEF PreparationKnown, RepairerKnows
  <2>2. \A k \in Database : Revisited(k)' => Revisited(k)
    BY <1>2, <1>4, <1>6 DEF Revisited
  <2>3. ASSUME NEW k \in Database, part[DbEntry(k)] = "restored", k \notin Evidence.restored
        PROVE  Revisited(k)'
    <3>1. Revisited(k)
      BY <1>1, <2>1, <2>3 DEF RollbackKnows
    <3>2. RepairEntry.object # DbEntry(k)
      <4> SUFFICES ASSUME RepairEntry.object = DbEntry(k) PROVE FALSE
        OBVIOUS
      <4>1. k \in Keys /\ RepairEntry.to = IF k \in Created THEN "before" ELSE "restored"
        BY <1>1, <1>8, RestoresTo
      <4>2. k \notin Created
        BY <2>3 DEF PreparationInv, Sorted
      <4>3. RepairEntry.object[1] = "database"
        BY <4>1, PartObjects
      <4> QED BY <1>1, <1>8, <2>3, <3>1, <4>1, <4>2, <4>3 DEF Unrecorded, Revisited
    <3>3. \A i \in 1 .. Len(Repairs) : i < process.at + 1 => i < process.at \/ i = process.at
      BY <1>2
    <3> QED BY <1>2, <1>4, <1>6, <3>1, <3>2, <3>3 DEF Revisited
  <2> QED BY <1>1, <1>4, <1>5, <1>7, <2>1, <2>2, <2>3 DEF RollbackKnows
<1>9. process.command = "resume" => ResumeKnows'
  <2>1. process.command = "resume" => ResumeKnows
    BY <1>2 DEF PreparationKnown, RepairerKnows
  <2> QED BY <1>1, <1>5, <1>7, <2>1 DEF ResumeKnows
<1>10. RepairerKnows'
  BY <1>4, <1>5, <1>8, <1>9 DEF RepairerKnows
<1>11. ~Preparing'
  BY <1>2, <1>4 DEF Preparing
<1> QED BY <1>3, <1>10, <1>11 DEF PreparationKnown, PreparerKnows

(* What every change by a recovery leaves.                                     *)
LEMMA RepairLeaves ==
    ASSUME Typed, PreparationInv, PreparationKnown, RepairChanges
    PROVE  /\ RepairsOn /\ process.mark = "pending" /\ journal' = journal
           /\ ChangePart(RepairEntry.object, RepairEntry.to)
           /\ Repairing /\ InPreparation /\ type \in Types /\ process.at \in 1 .. Len(Repairs)
           /\ RepairEntry = Repairs[process.at] /\ process.command \in Actions
           /\ journal.action = process.command /\ Labelled /\ Evident /\ ReservationsFiled
           /\ Labelled' /\ Evident' /\ Closed' /\ ~Preparing' /\ Repairing' /\ Changing'
           /\ journal.step = Step(process.command, RepairEntry.object, "pending")
           /\ Evidence.staged => Excusable /\ RolledBackTo /\ EntriesFiled /\ RestoredKnown
           /\ Repairs' = Repairs /\ RepairEntry' = RepairEntry /\ Evidence' = Evidence
           /\ InPreparation' /\ type' = type /\ process'.mark # "none"
           /\ process'.at = process.at /\ process'.command = process.command
           /\ process'.step = process.step
           /\ Database' = Database /\ Candidates' = Candidates /\ TypeAuthorities' = TypeAuthorities
           /\ StagedRollback' = StagedRollback
<1>1. /\ RepairsOn /\ process.mark = "pending" /\ journal' = journal
      /\ ChangePart(RepairEntry.object, RepairEntry.to)
      /\ process' = [process EXCEPT !.mark = IF part'[RepairEntry.object] = "partial"
                                             THEN process.mark ELSE "made"]
  BY DEF RepairChanges
<1>2. /\ Repairing /\ ~Preparing /\ InPreparation /\ type \in Types /\ process \in ProcessType
      /\ type' = type /\ process.at \in 1 .. Len(Repairs) /\ RepairEntry = Repairs[process.at]
      /\ process.command \in Actions /\ process.operation = "rollover-prepare"
  BY <1>1, RepairerWorks
<1>3. /\ journal.action = process.command
      /\ journal.step = Step(process.command, RepairEntry.object, "pending")
      /\ Labelled /\ Evident /\ ReservationsFiled
      /\ Evidence.staged => Excusable /\ RolledBackTo /\ EntriesFiled /\ RestoredKnown
  BY <1>1, <1>2 DEF PreparationKnown, RepairerKnows, JournalKnows
<1>4. /\ process'.mark \in {"pending", "made"} /\ process'.at = process.at
      /\ process'.command = process.command /\ process'.step = process.step
      /\ process'.operation = process.operation
  BY <1>1, <1>2 DEF ProcessType
<1>5. Evidence' = Evidence /\ InPreparation' /\ Closed'
  BY <1>1, <1>2 DEF Evidence, InPreparation, PreparationKnown, Closed
<1>6. Repairs' = Repairs /\ RepairEntry' = RepairEntry
  <2>1. \A action : RepairPlan(action)' = RepairPlan(action)
    BY <1>2, <1>5, SamePreparation
  <2> QED BY <1>4, <2>1 DEF Repairs, RepairEntry
<1>7. Labelled' /\ Evident' /\ ~Preparing' /\ Repairing' /\ Changing'
  BY <1>1, <1>2, <1>3, <1>4, <1>5 DEF Labelled, Evident, Preparing, Repairing, Changing
<1>8. TypeAuthorities' = TypeAuthorities /\ Database' = Database
  BY <1>2 DEF TypeAuthorities, Database
<1>9. Candidates' = Candidates
  BY <1>8 DEF Candidates
<1>10. StagedRollback' = StagedRollback
  BY <1>2 DEF StagedRollback, CandidateRollback, Releases, EndSession, ForRoot, Issued
<1> QED BY <1>1, <1>2, <1>3, <1>4, <1>5, <1>6, <1>7, <1>8, <1>9, <1>10

(* A rollback takes a part back.                                              *)
LEMMA RollbackKnowsTaken ==
    ASSUME Typed, PreparationInv, PreparationKnown, RepairChanges, process.command = "rollback"
    PROVE  PreparationKnown'
<1> DEFINE o == RepairEntry.object
           to == RepairEntry.to
<1>1. /\ RepairsOn /\ process.mark = "pending" /\ journal' = journal /\ ChangePart(o, to)
      /\ Repairing /\ InPreparation /\ type \in Types /\ process.at \in 1 .. Len(Repairs)
      /\ RepairEntry = Repairs[process.at]
      /\ journal.action = "rollback" /\ ReservationsFiled /\ Labelled' /\ Evident' /\ Closed'
      /\ ~Preparing' /\ Repairing' /\ Changing' /\ journal.step = Step("rollback", o, "pending")
      /\ Evidence.staged => Excusable /\ RolledBackTo /\ EntriesFiled /\ RestoredKnown
      /\ Repairs' = Repairs /\ RepairEntry' = RepairEntry /\ Evidence' = Evidence
      /\ InPreparation' /\ type' = type /\ process'.mark # "none"
      /\ process'.at = process.at /\ process'.command = "rollback" /\ process'.step = process.step
      /\ Database' = Database /\ Candidates' = Candidates /\ TypeAuthorities' = TypeAuthorities
      /\ StagedRollback' = StagedRollback
  BY RepairLeaves
<1>2. RepairEntry = RepairOf(o) /\ o \in RolledBack \cup EndingParts
  BY <1>1, RollbackEntries
<1>3. /\ o \in Involved /\ o # Directory /\ o # RootCopy
      /\ to \in {"before", "restored", "abandoned", "absent"}
      /\ to = "abandoned" <=> o \in Reservations
      /\ o \in DatabaseParts <=> to \in {"before", "restored"}
      /\ \A k \in Created : o = DbEntry(k) => to = "before"
      /\ o \notin DatabaseParts \cup Reservations => to = "absent"
      /\ o \in StageParts => RepairEntry.from = {"published"}
  BY <1>1, <1>2, RollbackStates
<1>4. /\ o \in Parts
      /\ to = "absent" /\ IsTree(o) =>
              part'[o] = IF part[o] = "partial" THEN "absent" ELSE "partial"
      /\ ~(to = "absent" /\ IsTree(o)) => part'[o] = to
      /\ \A p \in Parts : p # o => part'[p] = part[p] \/ (o = Stage /\ p \in StageParts)
  BY <1>3, RepairerMakes
<1>5. \A k \in Database : o = DbEntry(k) =>
          k \in Keys /\ to = IF k \in Created THEN "before" ELSE "restored"
  BY <1>1, RestoresTo
<1>6. journal.step.object = o
  BY <1>1 DEF Step
<1>7. /\ Database \subseteq Keys
      /\ \A k \in Keys : DbEntry(k) \in Parts /\ DbEntry(k)[1] = "database"
      /\ \A a \in TypeAuthorities : /\ Reserved(a) \in Parts /\ Reserved(a)[1] = "reservation"
                                   /\ Reserved(a) \in Reservations
      /\ \A p \in StageParts : p[1] \in {"candidate", "root copy"}
      /\ \A p \in Candidates : p \in Parts /\ p[1] = "candidate"
      /\ Stage[1] = "stage" /\ State \in Parts /\ State[1] = "state" /\ Stage \in Parts
  <2>1. Database \subseteq Keys
    BY <1>1, IssuedIs
  <2>2. \A a \in TypeAuthorities : a \in Authorities /\ Reserved(a) \in Reservations
    BY DEF TypeAuthorities, Authorities, Reservations
  <2>3. \A a \in TypeAuthorities : Reserved(a) \in Parts /\ Reserved(a)[1] = "reservation"
    BY <2>2, PartObjects
  <2>4. /\ \A p \in StageParts : p[1] \in {"candidate", "root copy"}
        /\ \A p \in Candidates : p \in Parts /\ p[1] = "candidate"
    BY <1>1, InvolvedParts, AuthorityParts
  <2>5. /\ \A k \in Keys : DbEntry(k) \in Parts /\ DbEntry(k)[1] = "database"
        /\ Stage[1] = "stage" /\ State \in Parts /\ State[1] = "state" /\ Stage \in Parts
    BY PartObjects
  <2> QED BY <2>1, <2>2, <2>3, <2>4, <2>5
<1> HIDE DEF o, to
<1>8. ASSUME NEW p, NEW s, << p, s >> \in workspace, p # o, o = Stage => p[1] # "database"
      PROVE  << p, s >> \in workspace'
  BY <1>1, <1>3, <1>8, FilesChange
<1>9. \A p \in Parts : p # o /\ p \notin StageParts => part'[p] = part[p]
  BY <1>4
<1>10. ReservationsFiled'
  <2> SUFFICES ASSUME Evidence.filed, NEW a \in TypeAuthorities
               PROVE  part'[Reserved(a)] = "abandoned" \/ << Reserved(a), "abandoned" >> \in workspace'
    BY <1>1 DEF ReservationsFiled, ReservationsReady
  <2>1. CASE o = Reserved(a)
    <3>1. to = "abandoned"
      BY <1>3, <1>7, <2>1
    <3> QED BY <1>4, <2>1, <3>1
  <2>2. CASE o # Reserved(a)
    <3>1. part[Reserved(a)] = "abandoned" \/ << Reserved(a), "abandoned" >> \in workspace
      BY <1>1 DEF ReservationsFiled, ReservationsReady
    <3>2. part'[Reserved(a)] = part[Reserved(a)] /\ Reserved(a)[1] # "database"
      BY <1>7, <1>9, <2>2
    <3> QED BY <1>8, <2>2, <3>1, <3>2
  <2> QED BY <2>1, <2>2
<1>11. ASSUME Evidence.staged PROVE Excusable' /\ RolledBackTo' /\ EntriesFiled' /\ RestoredKnown'
  <2>1. Excusable'
    <3> SUFFICES ASSUME NEW p \in Candidates \cup {State}, part'[p] = "absent"
                 PROVE  Excused("rollback", p)
      BY <1>1 DEF Excusable, Excused
    <3>1. CASE part[p] = "absent"
      BY <1>1, <1>11, <3>1 DEF Excusable
    <3>2. CASE part[p] # "absent"
      <4>1. p = o \/ o = Stage
        BY <1>4, <1>7, <3>2
      <4>2. Rank(p) <= Rank(o)
        <5>1. CASE p = o
          BY <5>1, RankIs
        <5>2. CASE o = Stage
          <6>1. p = State \/ p = Candidate("root") \/ p = Candidate("intermediate")
            BY DEF Candidates, TypeAuthorities, Authorities
          <6> QED BY <5>2, <6>1, RankIs
        <5> QED BY <4>1, <5>1, <5>2
      <4> QED BY <1>1, <1>2, <1>6, <4>2, ExcusedIs
    <3> QED BY <3>1, <3>2
  <2>2. RolledBackTo'
    <3>1. Repairs = StagedRollback
      BY <1>11 DEF Repairs, RepairPlan
    <3>2. RepairerInv'
      BY RollbackTakes DEF PreparationInv
    <3>3. ~journal'.committed
      BY <1>1 DEF InPreparation
    <3>4. \A i \in 1 .. Len(Repairs') : i < process'.at => Repaired(Repairs[i])'
      BY <1>1, <3>2, <3>3 DEF RepairerInv
    <3>5. \A i \in 1 .. Len(StagedRollback') : i < process.at => Repaired(StagedRollback[i])'
      BY <1>1, <3>1, <3>4 DEF Repaired
    <3>6. StagedRollback[process.at].object = journal'.step.object
      BY <1>1, <1>6, <3>1 DEF o
    <3> QED BY <1>1, <3>1, <3>5, <3>6 DEF RolledBackTo
  <2>3. EntriesFiled'
    <3> SUFFICES ASSUME part'[Stage] = "staged"
                 PROVE  /\ \A k \in Database \ Created : part'[DbEntry(k)] # "restored" =>
                              << DbEntry(k), "restored" >> \in workspace'
                        /\ \A k \in Database \ Kept : part'[DbEntry(k)] = "before" =>
                              << DbEntry(k), "after" >> \in workspace' \/ k \in Created
      BY <1>1 DEF EntriesFiled
    <3>1. o # Stage
      <4>1. o = Stage => part'[o] # "staged"
        BY <1>3, <1>4
      <4> QED BY <4>1
    <3>2. part[Stage] = "staged"
      BY <1>7, <1>9, <3>1
    <3>3. \A k \in Database : o # DbEntry(k) => part'[DbEntry(k)] = part[DbEntry(k)]
      BY <1>7, <1>9
    <3>4. \A k \in Database : o = DbEntry(k) => part'[DbEntry(k)] = IF k \in Created THEN "before" ELSE "restored"
      BY <1>4, <1>5
    <3>5. ASSUME NEW k \in Database \ Created, part'[DbEntry(k)] # "restored"
          PROVE  << DbEntry(k), "restored" >> \in workspace'
      <4>1. o # DbEntry(k)
        BY <3>4, <3>5
      <4>2. << DbEntry(k), "restored" >> \in workspace
        BY <1>1, <1>11, <3>2, <3>3, <3>5, <4>1 DEF EntriesFiled
      <4> QED BY <1>8, <3>1, <4>1, <4>2
    <3>6. ASSUME NEW k \in Database \ Kept, part'[DbEntry(k)] = "before", k \notin Created
          PROVE  << DbEntry(k), "after" >> \in workspace'
      <4>1. o # DbEntry(k)
        BY <3>4, <3>6
      <4>2. << DbEntry(k), "after" >> \in workspace
        BY <1>1, <1>11, <3>2, <3>3, <3>6, <4>1 DEF EntriesFiled
      <4> QED BY <1>8, <3>1, <4>1, <4>2
    <3> QED BY <3>5, <3>6
  <2>4. RestoredKnown'
    <3> SUFFICES ASSUME NEW k \in Database, part'[DbEntry(k)] = "restored"
                 PROVE  k \in Evidence.restored \/ Pending("rollback", DbEntry(k))
      BY <1>1 DEF RestoredKnown, Pending
    <3>1. CASE o = DbEntry(k)
      BY <1>1, <3>1 DEF Pending
    <3>2. CASE o # DbEntry(k)
      <4>1. part[DbEntry(k)] = "restored"
        BY <1>7, <1>9, <3>2
      <4> QED BY <1>1, <1>11, <4>1 DEF RestoredKnown
    <3> QED BY <3>1, <3>2
  <2> QED BY <2>1, <2>2, <2>3, <2>4
<1>12. JournalKnows'
  BY <1>1, <1>10, <1>11 DEF JournalKnows
<1>13. ASSUME Evidence.staged PROVE RollbackKnows'
  <2>1. \A k \in Database : Revisited(k) => RepairEntry.object = DbEntry(k)
    BY <1>1, <1>13 DEF PreparationKnown, RepairerKnows, RollbackKnows
  <2>2. \A k \in Database : Revisited(k)' => Revisited(k)
    BY <1>1 DEF Revisited
  <2> QED BY <1>1, <2>1, <2>2 DEF RollbackKnows
<1>14. RepairerKnows'
  BY <1>1, <1>13 DEF RepairerKnows, o
<1> QED BY <1>1, <1>12, <1>14 DEF PreparationKnown, PreparerKnows

(* A resume carries a part forward.                                           *)
LEMMA ResumeKnowsMoved ==
    ASSUME Typed, PreparationInv, PreparationKnown, RepairChanges, process.command = "resume"
    PROVE  PreparationKnown'
<1> DEFINE o == RepairEntry.object
           to == RepairEntry.to
<1>1. /\ RepairsOn /\ process.mark = "pending" /\ journal' = journal /\ ChangePart(o, to)
      /\ Repairing /\ InPreparation /\ type \in Types /\ process.at \in 1 .. Len(Repairs)
      /\ RepairEntry = Repairs[process.at]
      /\ journal.action = "resume" /\ ReservationsFiled /\ Labelled' /\ Evident' /\ Closed'
      /\ ~Preparing' /\ journal.step = Step("resume", o, "pending")
      /\ Evidence.staged => Excusable /\ RolledBackTo /\ EntriesFiled /\ RestoredKnown
      /\ RepairEntry' = RepairEntry /\ Evidence' = Evidence
      /\ InPreparation' /\ type' = type /\ process'.command = "resume"
      /\ Database' = Database /\ Candidates' = Candidates /\ TypeAuthorities' = TypeAuthorities
  BY RepairLeaves
<1>2. Continued
  BY <1>1, RepairerWorks
<1>3. ResumeKnows
  BY <1>1 DEF PreparationKnown, RepairerKnows
<1>4. /\ o \in Involved /\ o \in Parts
      /\ o[1] \in {"pointer", "session", "reservation", "candidate", "state", "database", "root copy"}
      /\ to \in {"published", "reserved", "consumed", "after", "absent"}
      /\ o[1] \in {"candidate", "state"} => to = "published"
      /\ o[1] = "database" => RepairEntry.from = {"before"} /\ to = "after"
      /\ o[1] = "reservation" => "abandoned" \notin RepairEntry.from
      /\ to = "absent" => o[1] = "root copy"
  <2>1. Resumes(RepairEntry, process.at)
    BY <1>1, ResumeEntries
  <2>2. RepairEntry.object[1] = "reservation" =>
            /\ RepairEntry.from \in {{"absent"}, {"reserved"}}
            /\ RepairEntry.to \in {"reserved", "consumed"}
    BY <2>1 DEF Resumes
  <2>3. RepairEntry.object[1] = "reservation" => "abandoned" \notin RepairEntry.from
    BY <2>2
  <2>4. RepairEntry.object \in Involved /\ RepairEntry.object \in Parts
    BY <2>1 DEF Resumes
  <2>5. RepairEntry.object[1] \in {"pointer", "session", "reservation", "candidate", "state",
                                   "database", "root copy"}
    BY <2>1 DEF Resumes
  <2>6. /\ RepairEntry.object[1] \in {"pointer", "session", "candidate", "state"} =>
              RepairEntry.to = "published"
        /\ RepairEntry.object[1] = "database" => RepairEntry.from = {"before"} /\ RepairEntry.to = "after"
        /\ RepairEntry.object[1] = "root copy" => RepairEntry.to = "absent"
    BY <2>1 DEF Resumes
  <2> QED BY <2>2, <2>3, <2>4, <2>5, <2>6
<1>5. o # Directory /\ o # Stage /\ to \notin {"staged", "partial"}
  BY <1>4, PartObjects
<1>6. /\ ~(to = "absent" /\ IsTree(o)) => part'[o] = to
      /\ \A p \in Parts : p # o => part'[p] = part[p]
      /\ FixDue \/ (part[o] = "partial" /\ to = "absent")
  BY <1>4, <1>5, RepairerMakes
<1>7. /\ Database \subseteq Keys
      /\ \A k \in Keys : DbEntry(k) \in Parts /\ DbEntry(k)[1] = "database"
      /\ \A a \in TypeAuthorities : Reserved(a) \in Parts /\ Reserved(a)[1] = "reservation"
      /\ \A p \in Candidates : p \in Parts /\ p[1] = "candidate"
      /\ State \in Parts /\ State[1] = "state" /\ Stage \in Parts
  BY <1>1, IssuedIs, PartObjects, AuthorityParts DEF TypeAuthorities, Authorities
<1>8. to # "absent" => part[o] \in RepairEntry.from /\ part'[o] = to
  BY <1>6 DEF FixDue
<1> HIDE DEF o, to
<1>9. ASSUME NEW p, NEW s, << p, s >> \in workspace, ~(p = o /\ s = to)
      PROVE  << p, s >> \in workspace'
  BY <1>1, <1>5, <1>9, FilesChange
<1>10. ReservationsFiled'
  <2> SUFFICES ASSUME Evidence.filed, NEW a \in TypeAuthorities
               PROVE  part'[Reserved(a)] = "abandoned" \/ << Reserved(a), "abandoned" >> \in workspace'
    BY <1>1 DEF ReservationsFiled, ReservationsReady
  <2>1. part[Reserved(a)] = "abandoned" \/ << Reserved(a), "abandoned" >> \in workspace
    BY <1>1 DEF ReservationsFiled, ReservationsReady
  <2>2. CASE part[Reserved(a)] = "abandoned"
    <3>1. o # Reserved(a)
      BY <1>4, <1>7, <1>8, <2>2
    <3> QED BY <1>6, <1>7, <2>2, <3>1
  <2>3. CASE << Reserved(a), "abandoned" >> \in workspace
    BY <1>4, <1>9, <2>3
  <2> QED BY <2>1, <2>2, <2>3
<1>11. ASSUME NEW k \in Database
       PROVE  IF o = DbEntry(k) THEN part[DbEntry(k)] = "before" /\ part'[DbEntry(k)] = "after"
              ELSE part'[DbEntry(k)] = part[DbEntry(k)]
  BY <1>4, <1>6, <1>7, <1>8
<1>12. Evidence.staged
  BY <1>2 DEF Continued
<1>13. Excusable'
  <2>1. ASSUME NEW p \in Candidates \cup {State} PROVE part'[p] # "absent"
    <3>1. CASE p = o
      BY <1>4, <1>7, <1>8, <3>1
    <3>2. CASE p # o
      BY <1>2, <1>6, <1>7, <3>2 DEF Continued
    <3> QED BY <3>1, <3>2
  <2> QED BY <1>1, <2>1 DEF Excusable
<1>14. \A k \in Database \ Kept : part'[DbEntry(k)] = "before" => << DbEntry(k), "after" >> \in workspace'
  <2> SUFFICES ASSUME NEW k \in Database \ Kept, part'[DbEntry(k)] = "before"
               PROVE  << DbEntry(k), "after" >> \in workspace'
    OBVIOUS
  <2>1. o # DbEntry(k) /\ part[DbEntry(k)] = "before"
    BY <1>11
  <2>2. << DbEntry(k), "after" >> \in workspace
    BY <1>3, <2>1 DEF ResumeKnows
  <2> QED BY <1>9, <2>1, <2>2
<1>15. EntriesFiled'
  <2>1. ASSUME part'[Stage] = "staged", NEW k \in Database \ Created, part'[DbEntry(k)] # "restored"
        PROVE  << DbEntry(k), "restored" >> \in workspace'
    <3>1. part[Stage] = "staged" /\ part[DbEntry(k)] # "restored"
      BY <1>5, <1>6, <1>7, <1>11, <2>1
    <3>2. << DbEntry(k), "restored" >> \in workspace
      BY <1>1, <1>12, <2>1, <3>1 DEF EntriesFiled
    <3> QED BY <1>4, <1>9, <3>2
  <2> QED BY <1>1, <1>14, <2>1 DEF EntriesFiled
<1>16. \A k \in Database : part'[DbEntry(k)] = "restored" => k \in Evidence.restored
  BY <1>3, <1>11 DEF ResumeKnows
<1>17. RestoredKnown' /\ ResumeKnows'
  BY <1>1, <1>14, <1>16 DEF RestoredKnown, ResumeKnows
<1>18. RolledBackTo'
  BY <1>1 DEF RolledBackTo
<1>19. JournalKnows'
  BY <1>1, <1>10, <1>13, <1>15, <1>17, <1>18 DEF JournalKnows
<1>20. RepairerKnows'
  BY <1>1, <1>17 DEF RepairerKnows, o
<1> QED BY <1>1, <1>19, <1>20 DEF PreparationKnown, PreparerKnows

(* A recovery keeps what is known.                                            *)
LEMMA RepairerKnow ==
    ASSUME Typed, PreparationInv, PreparationKnown, RepairSteps PROVE PreparationKnown'
<1>1. CASE RepairChanges
  <2>1. process.command \in Actions
    BY <1>1, RepairLeaves
  <2> QED BY <1>1, <2>1, RollbackKnowsTaken, ResumeKnowsMoved DEF Actions
<1>2. CASE RepairRefuses
  BY <1>2, PreparationKnownIdle DEF RepairRefuses, RepairsOn
<1>3. CASE RepairUnlinks
  BY <1>3, Unlinked, PreparationKnownStutters
<1> QED BY <1>1, <1>2, <1>3, RepairAnnouncesKnow, RepairRecordsKnow, RepairPassesKnow
    DEF RepairSteps

(* A preparation's knowledge is kept by every step.                            *)
LEMMA PreparationKnownKept ==
    ASSUME CompositionInv, PreparationKnown, [Next]_vars PROVE PreparationKnown'
<1>0. Typed /\ Typed' /\ Owned /\ PreparationInv
  BY StepIsTyped DEF CompositionInv
<1>1. ASSUME Works(Bootstraps), UNCHANGED preparation_vars PROVE PreparationKnown'
  BY <1>0, <1>1, PreparationKnownSpared DEF Operations, Bootstraps
<1>2. ASSUME Works({"legacy-migrate"}), UNCHANGED preparation_vars PROVE PreparationKnown'
  BY <1>0, <1>2, PreparationKnownSpared DEF Operations
<1>3. CASE Prepares
  <2>1. ASSUME NEW kind \in Types, BeginPreparation(kind) PROVE PreparationKnown'
    BY <1>0, <2>1, PreparationKnownBegun
  <2>2. CASE PrepareSteps
    BY <1>0, <2>2, PreparerKnow, RepairerKnow, PreparationKnownEnds DEF PrepareSteps
  <2>3. CASE PreparationFails
    BY <2>3, PreparationKnownIdle DEF PreparationFails, Failing, preparation_vars
  <2>4. CASE DropMarkedReceipt
    BY <2>4, PreparationKnownStutters DEF DropMarkedReceipt, preparation_vars
  <2>5. ASSUME NEW action \in Actions, BeginRepair(action) PROVE PreparationKnown'
    BY <1>0, <2>5, PreparationKnownRepair
  <2> QED BY <1>3, <2>1, <2>2, <2>3, <2>4, <2>5 DEF Prepares
<1>4. CASE /\ process' = Idle \/ process' = process
           /\ UNCHANGED << journal, preparation_vars >>
  BY <1>4, PreparationKnownIdle, PreparationKnownStutters DEF preparation_vars
<1> QED BY <1>0, <1>1, <1>2, <1>3, <1>4, StepWorks

(* Each entry of the database is one that the recovery knows.                  *)
LEMMA EntriesStayKnown ==
    ASSUME Typed, type \in Types, PreparationKnown, InPreparation, Evidence.staged,
           ~StrandedPreparation, NEW action \in Actions,
           journal.action # "none" => action = journal.action, NEW k \in Database
    PROVE  EntryKnown(action, k)
<1>1. /\ Labelled /\ EntriesFiled /\ RestoredKnown
  BY DEF PreparationKnown, JournalKnows
<1>2. type = "intermediate" /\ k \in Keys
  BY IssuedIs DEF Database, Types
<1>3. /\ part[DbEntry(k)] = "after" /\ k \notin Evidence.posted => Pending("resume", DbEntry(k))
      /\ part[Stage] = "staged"
      /\ k \in Created /\ part[DbEntry(k)] = "before" /\ journal.action = "rollback" =>
            << DbEntry(k), "after" >> \in workspace
      /\ \A to \in {"after", "restored"} : << DbEntry(k), to >> \notin displaced
  BY <1>2 DEF StrandedPreparation, InPreparation
<1>4. \A a \in Actions : Pending(a, DbEntry(k)) => action = a
  BY <1>1 DEF Pending, Step, Labelled, Actions
<1>5. k \in Created => k \notin Kept
  BY DatabaseFacts, DatabaseAssumption
<1>6. part[DbEntry(k)] \in {"before", "after", "restored"}
  BY <1>2, PartObjects DEF Typed, PreparationTyped, PartStates
<1>7. CASE part[DbEntry(k)] = "before"
  <2>1. k \in Kept => << DbEntry(k), "restored" >> \in workspace
    BY <1>1, <1>3, <1>5, <1>7 DEF EntriesFiled
  <2>2. k \notin Kept => << DbEntry(k), "after" >> \in workspace
    BY <1>1, <1>3, <1>7 DEF EntriesFiled
  <2> QED BY <1>7, <2>1, <2>2 DEF EntryKnown
<1>8. CASE part[DbEntry(k)] = "after"
  <2>1. k \in Created \/ << DbEntry(k), "restored" >> \in workspace
    BY <1>1, <1>3, <1>8 DEF EntriesFiled
  <2>2. k \notin Evidence.posted => action = "resume" /\ Pending("resume", DbEntry(k))
    BY <1>3, <1>4, <1>8 DEF Actions
  <2> QED BY <1>3, <1>8, <2>1, <2>2 DEF EntryKnown, Consumed
<1>9. CASE part[DbEntry(k)] = "restored"
  <2>1. k \in Evidence.restored \/ (action = "rollback" /\ Pending("rollback", DbEntry(k)))
    BY <1>1, <1>4, <1>9 DEF RestoredKnown, Actions
  <2> QED BY <1>3, <1>9, <2>1 DEF EntryKnown, Consumed
<1> QED BY <1>6, <1>7, <1>8, <1>9

(* A preparation that is neither ended nor stranded is accepted by the action   *)
(* that was under way; and by a rollback, or once it is staged by a resume,     *)
(* when none was.                                                             *)
PreparationOpen ==
    journal.operation = "rollover-prepare" =>
        IF journal.action # "none" THEN RepairAccepted(journal.action)
        ELSE RepairAccepted("rollback") /\ (Evidence.staged => RepairAccepted("resume"))

LEMMA RepairStaysAccepted ==
    ASSUME Typed, type \in Types, PreparationKnown, InPreparation, ~StrandedPreparation,
           NEW action \in Actions, journal.action # "none" => action = journal.action,
           action = "resume" => Evidence.staged
    PROVE  RepairAccepted(action)
<1>1. /\ Labelled /\ Evident /\ ReservationsFiled
      /\ Evidence.staged => Excusable /\ EntriesFiled /\ RestoredKnown
  BY DEF PreparationKnown, JournalKnows
<1>2. (Evidence.directory /\ Evidence.staged) \/ action = "rollback"
  BY <1>1 DEF Evident, Actions
<1>3. Evidence.filed \/ Evidence.staged => ReservationsReady
  BY <1>1 DEF Evident, ReservationsFiled
<1>4. ASSUME Evidence.staged
      PROVE  Located(action) /\ part[RootCopy] # "partial" /\ \A k \in Database : EntryKnown(action, k)
  <2>1. \A o \in {Candidate(a) : a \in TypeAuthorities} \cup {State, RootCopy} : part[o] # "partial"
    BY <1>4 DEF StrandedPreparation, InPreparation
  <2>2. ASSUME NEW o \in {Candidate(a) : a \in TypeAuthorities} \cup {State}
        PROVE  part[o] \in {"staged", "published"} \/ (part[o] = "absent" /\ Excused(action, o))
    <3>1. o \in Parts /\ o[1] \in {"candidate", "state"}
      <4>1. \A a \in TypeAuthorities : a \in Authorities
        BY DEF TypeAuthorities, Authorities
      <4>2. CASE o = State
        BY <4>2, PartObjects
      <4>3. CASE o # State
        <5>1. PICK a \in TypeAuthorities : o = Candidate(a)
          BY <2>2, <4>3
        <5>2. Candidate(a) \in Parts /\ Candidate(a)[1] = "candidate"
          BY <4>1, PartObjects
        <5> QED BY <5>1, <5>2
      <4> QED BY <4>2, <4>3
    <3>2. part[o] \in {"absent", "staged", "published", "partial"}
      BY <3>1 DEF Typed, PreparationTyped, PartStates
    <3>3. part[o] = "absent" => Excused("rollback", o)
      BY <1>1, <1>4 DEF Excusable, Candidates
    <3>4. part[o] = "absent" => action = "rollback"
      BY <3>3 DEF Excused
    <3> QED BY <2>1, <3>2, <3>3, <3>4
  <2>3. \A k \in Database : EntryKnown(action, k)
    BY <1>4, EntriesStayKnown
  <2> QED BY <2>1, <2>2, <2>3 DEF Located
<1> QED BY <1>2, <1>3, <1>4 DEF RepairAccepted, InPreparation

LEMMA PreparationStays ==
    ASSUME CompositionInv, PreparationKnown, ~StrandedPreparation PROVE PreparationOpen
<1> SUFFICES ASSUME journal.operation = "rollover-prepare"
             PROVE  IF journal.action # "none" THEN RepairAccepted(journal.action)
                    ELSE RepairAccepted("rollback") /\ (Evidence.staged => RepairAccepted("resume"))
  BY DEF PreparationOpen
<1>1. Typed /\ type \in Types /\ journal.action \in Actions \cup {"none"}
  BY DEF CompositionInv, Typed, Control, JournalTyped, JournalType
<1>2. CASE journal.committed
  <2>1. journal.action \in Actions
    BY <1>2 DEF PreparationKnown, Closed
  <2>2. type = "root" \/ Evidence.staged
    BY <1>1, <1>2 DEF StrandedPreparation, Types
  <2>3. journal.action # "none"
    BY <2>1 DEF Actions
  <2> QED BY <1>2, <2>2, <2>3 DEF RepairAccepted
<1>3. CASE ~journal.committed
  <2>1. InPreparation
    BY <1>3 DEF InPreparation
  <2>2. journal.action = "resume" => Evidence.staged
    BY <2>1 DEF PreparationKnown, JournalKnows, Labelled
  <2>3. "rollback" \in Actions /\ "resume" \in Actions
    BY DEF Actions
  <2>4. CASE journal.action # "none"
    BY <1>1, <2>1, <2>2, <2>4, RepairStaysAccepted
  <2>5. CASE journal.action = "none"
    BY <1>1, <2>1, <2>3, <2>5, RepairStaysAccepted
  <2> QED BY <2>4, <2>5
<1> QED BY <1>2, <1>3

(* Every recovery that was under way can be repeated, and every operation that  *)
(* none has touched can be rolled back or carried forward, unless it is         *)
(* stranded in one of the named ways.                                         *)
KnownInv == CompositionInv /\ CreationKnown /\ MigrationKnown /\ PreparationKnown

LEMMA RecoveryOpen == KnownInv => RecoveryStaysOpen
<1> SUFFICES ASSUME KnownInv, ~Running, ~NoUnresolvedState, ~Stranded PROVE RecoveryStaysOpen
  BY DEF RecoveryStaysOpen
<1>1. ~StrandedCreation /\ ~StrandedMigration /\ ~StrandedPreparation
  BY DEF Stranded
<1>2. CreationOpen /\ MigrationOpen /\ PreparationOpen
  BY <1>1, CreationStays, MigrationStays, PreparationStays DEF KnownInv
<1>3. journal.operation \in Operations \cup {"none"} /\ (journal.operation = "none" => journal = NoJournal)
  BY DEF KnownInv, CompositionInv, Typed, Control, JournalTyped, JournalType
<1>4. CASE journal.operation \in Bootstraps
  <2>1. /\ BootstrapAccepted("rollback")
        /\ journal.phase \in {"cleanup-pending", "cleanup-done"} => BootstrapAccepted("resume")
    BY <1>2, <1>4 DEF CreationOpen
  <2>2. journal.operation \notin {"legacy-migrate", "rollover-prepare"}
    BY <1>4 DEF Bootstraps
  <2> QED BY <1>4, <2>1, <2>2 DEF RecoveryStaysOpen
<1>5. CASE journal.operation = "legacy-migrate"
  <2>1. Preflight("rollback") /\ (journal.action = "none" => Preflight("resume"))
    BY <1>2, <1>5 DEF MigrationOpen
  <2>2. journal.operation \notin Bootstraps /\ journal.operation # "rollover-prepare"
    BY <1>5 DEF Bootstraps
  <2> QED BY <1>5, <2>1, <2>2 DEF RecoveryStaysOpen
<1>6. CASE journal.operation = "rollover-prepare"
  <2>1. IF journal.action # "none" THEN RepairAccepted(journal.action)
        ELSE RepairAccepted("rollback") /\ (Evidence.staged => RepairAccepted("resume"))
    BY <1>2, <1>6 DEF PreparationOpen
  <2>2. journal.operation \notin Bootstraps /\ journal.operation # "legacy-migrate"
    BY <1>6 DEF Bootstraps
  <2> QED BY <1>6, <2>1, <2>2 DEF RecoveryStaysOpen
<1>7. CASE journal.operation = "none"
  <2>1. receipt
    BY <1>1, <1>3, <1>7 DEF NoUnresolvedState, StrandedPreparation
  <2>2. journal.operation \notin Bootstraps \cup {"legacy-migrate", "rollover-prepare"}
    BY <1>7 DEF Bootstraps
  <2> QED BY <2>1, <2>2 DEF RecoveryStaysOpen
<1> QED BY <1>3, <1>4, <1>5, <1>6, <1>7 DEF Operations, Bootstraps

LEMMA KnownAtFirst == Init => KnownInv
BY CompositionStarts, CreationKnownAtFirst, MigrationKnownAtFirst, PreparationKnownAtFirst
  DEF KnownInv

LEMMA KnownKept == KnownInv /\ [Next]_vars => KnownInv'
BY CompositionKept, CreationKnownKept, MigrationKnownKept, PreparationKnownKept DEF KnownInv

(* Whatever was begun and died, however often, can still be ended by a recovery, *)
(* but for the named strandings: the journal that each command and recovery     *)
(* leaves passes the preflight of the next one (CaRollover.RecoveryStaysOpen).  *)
THEOREM RecoveryAlwaysOpen == Spec => []RecoveryStaysOpen
<1>1. Init => KnownInv
  BY KnownAtFirst
<1>2. KnownInv /\ [Next]_vars => KnownInv'
  BY KnownKept
<1>3. KnownInv => RecoveryStaysOpen
  BY RecoveryOpen
<1> QED BY <1>1, <1>2, <1>3, PTL DEF Spec
==============================================================================
