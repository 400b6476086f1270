------------------------- MODULE CaPreparationRecover -------------------------
(***************************************************************************)
(* ca-rollover recover of a preparation, back or forward from whatever its  *)
(* journal and the directories show, and the terminal cleanup that ends the *)
(* command itself and both recoveries: the directory goes, then a receipt   *)
(* comes, then the journal and the marker go.                              *)
(***************************************************************************)
EXTENDS CaPreparation

Repairing == process.command \in Actions /\ process.operation = "rollover-prepare"
Evidence == journal.evidence

(* What each action does, in its order, to objects in the states listed.       *)
Fix(o, from, to) == [object |-> o, from |-> from, to |-> to]
Restore(k) == Fix(DbEntry(k), {"after"}, IF k \in Created THEN "before" ELSE "restored")
Release(a) == Fix(Reserved(a), {"absent", "reserved", "consumed"}, "abandoned")
Releases == << Release("intermediate") >> \o ForRoot(<< Release("root") >>)
EndSession == << Fix(BackupSession, {"published"}, "absent") >>

(* Mutant: the pointer to the candidate is taken back last.                   *)
MutantStagedRollback ==
    [i \in 1 .. Len(Issued) |-> Restore(Issued[i])]
    \o << Fix(Candidate("intermediate"), {"published"}, "absent") >>
    \o ForRoot(<< Fix(Candidate("root"), {"published"}, "absent") >>)
    \o << Fix(State, {"staged", "published"}, "absent"), Fix(Stage, {"staged", "partial"}, "absent") >>
    \o Releases \o EndSession \o << Fix(Pointer, {"published"}, "absent") >>

CandidateRollback ==
    << Fix(Pointer, {"published"}, "absent") >>
    \o [i \in 1 .. Len(Issued) |-> Restore(Issued[i])]
    \o << Fix(Candidate("intermediate"), {"published"}, "absent") >>
    \o ForRoot(<< Fix(Candidate("root"), {"published"}, "absent") >>)
    \o << Fix(State, {"staged", "published"}, "absent"), Fix(Stage, {"staged", "partial"}, "absent") >>

StagedRollback == CandidateRollback \o Releases \o EndSession

UnstagedRollback == (IF Evidence.filed THEN Releases ELSE << >>) \o EndSession

Renew(a) == Fix(Reserved(a), {"absent"}, "reserved")
Spend(a) == Fix(Reserved(a), {"reserved"}, "consumed")
Move(o) == Fix(o, {"staged"}, "published")

Renewal ==
    << Fix(BackupSession, {"absent"}, "published") >>
    \o ForRoot(<< Renew("root") >>) \o << Renew("intermediate") >>

CandidateResumption ==
    ForRoot(<< Move(Candidate("root")) >>) \o << Move(Candidate("intermediate")) >>
    \o [i \in 1 .. Len(Issued) |-> Fix(DbEntry(Issued[i]), {"before"}, "after")]
    \o ForRoot(<< Spend("root") >>) \o << Spend("intermediate") >>
    \o (IF type = "intermediate" THEN << Fix(RootCopy, {"staged", "partial"}, "absent") >> ELSE << >>)
    \o << Move(State) >>

Resumption == Renewal \o CandidateResumption \o << Fix(Pointer, {"absent"}, "published") >>

RepairPlan(action) ==
    IF action = "resume" THEN Resumption
    ELSE IF Evidence.staged THEN StagedRollback ELSE UnstagedRollback

------------------------------------------------------------------------------
(* The checks made before the first change of a staged preparation.  A         *)
(* rollback that was under way excuses the trees it has removed.               *)
Pending(action, o) == journal.step = Step(action, o, "pending")

Excused(action, o) ==
    LET late == {State, Stage, BackupSession, Reserved("root"), Reserved("intermediate")}
    IN  /\ action = "rollback" /\ journal.action = "rollback"
        /\ journal.step.object \in
             CASE o = State -> late
               [] o = Candidate("root") -> late \cup {o}
               [] OTHER -> late \cup {o, Candidate("root")}

Located(action) ==
    \A o \in {Candidate(a) : a \in TypeAuthorities} \cup {State} :
        part[o] \in {"staged", "published"} \/ (part[o] = "absent" /\ Excused(action, o))

(* Mutant: the abandoned records must be staged even when they are published. *)
MutantReservationsReady ==
    \A a \in TypeAuthorities : << Reserved(a), "abandoned" >> \in workspace

(* An entry of the database is as it was, as published, or as restored, by     *)
(* the identities of the journal; in the window between a recovery's own       *)
(* change and its record that same recovery knows it by its content, once the  *)
(* name it came from is free again.                                          *)
Consumed(action, k, to) ==
    Pending(action, DbEntry(k)) /\ << DbEntry(k), to >> \notin displaced

EntryKnown(action, k) ==
    CASE part[DbEntry(k)] = "before" ->
           << DbEntry(k), IF k \in Kept THEN "restored" ELSE "after" >> \in workspace
      [] part[DbEntry(k)] = "after" ->
           IF k \in Evidence.posted
           THEN k \in Created \/ << DbEntry(k), "restored" >> \in workspace
           ELSE action = "resume" /\ Consumed(action, k, "after")
      [] OTHER ->
           k \in Evidence.restored \/ (action = "rollback" /\ Consumed(action, k, "restored"))

ReservationsReady ==
    \A a \in TypeAuthorities :
        part[Reserved(a)] = "abandoned" \/ << Reserved(a), "abandoned" >> \in workspace

RepairAccepted(action) ==
    IF journal.committed
    THEN action = journal.action /\ (action = "resume" \/ type = "root" \/ Evidence.staged)
    ELSE /\ (Evidence.directory /\ Evidence.staged) \/ action = "rollback"
         /\ Evidence.directory /\ (Evidence.filed \/ Evidence.staged) => ReservationsReady
         /\ Evidence.directory /\ Evidence.staged =>
               Located(action) /\ part[RootCopy] # "partial" /\ \A k \in Database : EntryKnown(action, k)

BeginRepair(action) ==
    /\ ~Running /\ journal.operation = "rollover-prepare" /\ RepairAccepted(action)
    /\ process' = Begun(action, "rollover-prepare",
                        IF journal.committed THEN Len(RepairPlan(action)) + 1 ELSE 1)
    /\ UNCHANGED << journal, marker, receipt, failures, preparation_vars >>

------------------------------------------------------------------------------
RepairEntry == RepairPlan(process.command)[process.at]
RepairsOn ==
    /\ Repairing /\ process.at <= Len(RepairPlan(process.command))
    /\ UNCHANGED << marker, receipt, failures, type, preparations >>
Unrecorded(e) ==
    /\ e.object[1] = "database" /\ e.to # "before" /\ part[e.object] = e.to
    /\ process.step = Step(process.command, e.object, "pending")
FixDue == part[RepairEntry.object] \in RepairEntry.from

RepairAnnounces ==
    /\ RepairsOn /\ process.mark = "none" /\ FixDue
    /\ PartCheckpoint(RepairEntry.object, "pending", Evidence)
    /\ process' = [process EXCEPT !.mark = "pending"]
    /\ UNCHANGED << part, workspace, covered, displaced >>

RepairChanges ==
    /\ RepairsOn /\ process.mark = "pending"
    /\ FileReady(RepairEntry.object, RepairEntry.to)
    /\ ChangePart(RepairEntry.object, RepairEntry.to)
    /\ process' = [process EXCEPT !.mark =
          IF part'[RepairEntry.object] = "partial" THEN @ ELSE "made"]
    /\ UNCHANGED journal

(* A pointer that a rollback took back cannot be published again.             *)
RepairRefuses ==
    /\ RepairsOn /\ process.mark = "pending"
    /\ ~FileReady(RepairEntry.object, RepairEntry.to)
    /\ process' = Idle /\ UNCHANGED << journal, part, workspace, covered, displaced >>

RepairUnlinks == RepairsOn /\ Unlink(RepairEntry)

RepairRecords ==
    /\ RepairsOn /\ ~Displaced(RepairEntry)
    /\ process.mark = "made" \/ (process.mark = "none" /\ Unrecorded(RepairEntry))
    /\ PartCheckpoint(RepairEntry.object, "done", Recorded(RepairEntry.object, RepairEntry.to))
    /\ Done /\ UNCHANGED << part, workspace, covered, displaced >>

RepairPasses ==
    /\ RepairsOn /\ process.mark = "none" /\ ~FixDue /\ ~Unrecorded(RepairEntry)
    /\ Done /\ UNCHANGED << journal, part, workspace, covered, displaced >>

------------------------------------------------------------------------------
(* The terminal cleanup, common to the command and its recoveries.             *)
Ending(mark) ==
    /\ process.operation = "rollover-prepare" /\ process.mark = mark
    /\ mark = "none" => process.at = 1 + (IF Preparing THEN Len(PreparationPlan)
                                         ELSE Len(RepairPlan(process.command)))
    /\ UNCHANGED << failures, type, preparations >>
Ended(mark) == process' = [process EXCEPT !.mark = mark]
Outcome == IF Preparing THEN "resume" ELSE process.command

EndCommits ==
    /\ Ending("none") /\ Ended("committed")
    /\ journal' = [journal EXCEPT !.phase = "terminal-cleanup", !.committed = TRUE,
                                  !.action = Outcome, !.step = NoStep,
                                  !.evidence.directory = @ \/ part[Directory] # "absent"]
    /\ UNCHANGED << marker, receipt, part, workspace, covered, displaced >>

EndMarks ==
    /\ Ending("committed") /\ Ended("marked")
    /\ marker' = TRUE /\ receipt' = FALSE
    /\ UNCHANGED << journal, part, workspace, covered, displaced >>

(* The directory must hold nothing that its last manifest does not list, and    *)
(* under no name of that manifest another file than it lists.                 *)
AsListed == covered /\ displaced = {}

EndClears ==
    /\ Ending("marked") /\ part[Directory] \in {"staged", "partial"} /\ AsListed
    /\ Take(Directory) /\ UNCHANGED << journal, marker, receipt, process >>

EndRefuses ==
    /\ Ending("marked") /\ part[Directory] = "staged" /\ ~AsListed
    /\ process' = Idle
    /\ UNCHANGED << journal, marker, receipt, part, workspace, covered, displaced >>

EndReceipts ==
    /\ Ending("marked") /\ part[Directory] = "absent" /\ Ended("receipted")
    /\ receipt' = TRUE /\ UNCHANGED << journal, marker, part, workspace, covered, displaced >>

EndDropsJournal ==
    /\ Ending("receipted") /\ Ended("dropped") /\ journal' = NoJournal
    /\ UNCHANGED << marker, receipt, part, workspace, covered, displaced >>

EndDropsMarker ==
    /\ Ending("dropped") /\ marker' = FALSE /\ process' = Idle
    /\ UNCHANGED << journal, receipt, part, workspace, covered, displaced >>

(* Without a journal, the receipt lets a recovery remove the marker it names.  *)
DropMarkedReceipt ==
    /\ ~Running /\ journal = NoJournal /\ marker /\ receipt
    /\ marker' = FALSE
    /\ UNCHANGED << journal, receipt, process, failures, preparation_vars >>

RepairSteps ==
    \/ RepairAnnounces \/ RepairChanges \/ RepairRefuses
    \/ RepairUnlinks \/ RepairRecords \/ RepairPasses
EndSteps ==
    \/ EndCommits \/ EndMarks \/ EndClears \/ EndRefuses \/ EndReceipts
    \/ EndDropsJournal \/ EndDropsMarker
==============================================================================
