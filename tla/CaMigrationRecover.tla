-------------------------- MODULE CaMigrationRecover --------------------------
(***************************************************************************)
(* ca-rollover recover of a migration: every change is announced in the    *)
(* journal, made, and recorded as done, back to the legacy layout or       *)
(* forward to the generation one, whichever action the operator names.     *)
(***************************************************************************)
EXTENDS CaMigration

Recovering == process.command \in Actions /\ process.operation = "legacy-migrate"

(* What each action does, in its order.  A rollback undoes an object in the   *)
(* states listed; a resume repeats the rest of the migration's own plan,      *)
(* without the two journals after the active manifest.                        *)
Undo(o, from, to) == [kind |-> "publish", object |-> o, from |-> from, to |-> to]
Unpublish(o) == Undo(o, {"published"}, "original")
UnpublishAll(objects) == [i \in 1 .. Len(objects) |-> Unpublish(objects[i])]
Abandon(a) == Undo(Reservation(a), {"original", "reserved", "consumed"}, "rollback")
RestoreConfig(a) == Undo(Config(a), {"published"}, "rollback")

RollbackPlan ==
    << Unpublish(Active) >> \o UnpublishAll(Issuers) \o UnpublishAll(Quarantines)
    \o << RestoreConfig("root"), RestoreConfig("intermediate"),
          Unpublish(Tree("intermediate")), Unpublish(Tree("root")),
          Abandon("root"), Abandon("intermediate"), Unpublish(Session) >>
    \o << Undo(Provenance, {"original", "published", "partial"}, "removed") >>

ResumePlan ==
    LET forward == Forward \o << Publish(Provenance, "original", "published") >>
    IN  [i \in 1 .. Len(forward) |->
           IF forward[i].kind = "record" THEN forward[i]
           ELSE Undo(forward[i].object, {forward[i].from}, forward[i].to)]

RecoveryPlan == IF process.command = "rollback" THEN RollbackPlan ELSE ResumePlan
Entry == RecoveryPlan[process.at]
Working == Recovering /\ process.at <= Len(RecoveryPlan)

------------------------------------------------------------------------------
(* The checks made before the first change.                                   *)
ProvenanceAccepted ==
    \/ place[Provenance] \in {"original", "published"}
    \/ /\ place[Provenance] = "removed" /\ journal.action = "rollback"
       /\ journal.step.action = "rollback" /\ journal.step.object = Provenance

RollbackStaged ==
    \A a \in Authorities :
        /\ place[Config(a)] = "published" => << Config(a), "rollback" >> \in staged
        /\ place[Reservation(a)] # "rollback" => << Reservation(a), "rollback" >> \in staged

ResumeStaged ==
    /\ \A o \in {Session, Active} \cup {Issuer(s) : s \in Services}
                  \cup {Config(a) : a \in Authorities} :
          place[o] = "original" => << o, "published" >> \in staged
    /\ \A a \in Authorities :
          /\ place[Reservation(a)] = "original" => << Reservation(a), "reserved" >> \in staged
          /\ place[Reservation(a)] # "consumed" => << Reservation(a), "consumed" >> \in staged

Preflight(action) ==
    /\ ProvenanceAccepted
    /\ IF action = "rollback" THEN RollbackStaged ELSE ResumeStaged

Actionable == journal.operation = "legacy-migrate" /\ ~journal.committed

BeginRecovery(action) ==
    /\ ~Running /\ Actionable /\ Preflight(action)
    /\ process' = Begun(action, "legacy-migrate", 1)
    /\ UNCHANGED << journal, marker, receipt, failures, migration_vars >>

------------------------------------------------------------------------------
Due(e) == e.kind = "publish" /\ place[e.object] \in e.from
Advance == process' = [process EXCEPT !.at = @ + 1, !.mark = "none"]

RecoveryRecords ==
    /\ Working /\ Entry.kind = "record"
    /\ Write(Entry.phase, FALSE) /\ Advance
    /\ UNCHANGED << marker, receipt, failures, migration_vars >>

(* journal.checkpoint(): the step becomes the one of the journal written.     *)
Checkpoint(mark) ==
    LET step == Step(process.command, Entry.object, mark)
    IN  /\ journal' = [journal EXCEPT !.phase = "recovering",
                                      !.action = process.command, !.step = step]
        /\ process' = [process EXCEPT !.mark = mark, !.step = step]
        /\ UNCHANGED << marker, receipt, failures, migration_vars >>

AnnounceChange == Working /\ process.mark = "none" /\ Due(Entry) /\ Checkpoint("pending")

(* Removing the provenance tree takes its entries away before the tree.       *)
MakeChange ==
    /\ Working /\ process.mark = "pending"
    /\ IF Entry.to = "removed" /\ place[Provenance] # "partial"
       THEN Put(Provenance, "partial") /\ UNCHANGED process
       ELSE /\ Put(Entry.object, Entry.to)
            /\ process' = [process EXCEPT !.mark = "made"]
    /\ UNCHANGED << journal, marker, receipt, failures, migrations >>

RecordChange == Working /\ process.mark = "made" /\ Checkpoint("done")
PassChange ==
    /\ Working /\ process.mark = "done" /\ Advance
    /\ UNCHANGED << journal, marker, receipt, failures, migration_vars >>

(* An object a resume has nothing to do for is passed over, but a file it      *)
(* finds neither original nor published, and a reservation it cannot consume,  *)
(* ends it.                                                                   *)
Resumable(e) ==
    process.command = "resume" /\ e.object[1] \in {"config", "reservation"}
        /\ e.to \in {"published", "consumed"} => place[e.object] = e.to

PassOver ==
    /\ Working /\ process.mark = "none" /\ Entry.kind = "publish"
    /\ ~Due(Entry) /\ Resumable(Entry) /\ Advance
    /\ UNCHANGED << journal, marker, receipt, failures, migration_vars >>

RecoveryRefuses ==
    /\ Working /\ process.mark = "none" /\ Entry.kind = "publish"
    /\ ~Due(Entry) /\ ~Resumable(Entry) /\ process' = Idle
    /\ UNCHANGED << journal, marker, receipt, failures, migration_vars >>

RecoveryCommits ==
    /\ Recovering /\ process.at = Len(RecoveryPlan) + 1
    /\ Write(IF process.command = "rollback" THEN "rolled-back" ELSE "complete", TRUE)
    /\ Advance /\ UNCHANGED << marker, receipt, failures, migration_vars >>

RecoveryReturns ==
    /\ Recovering /\ process.at = Len(RecoveryPlan) + 2
    /\ marker' = FALSE /\ process' = Idle
    /\ UNCHANGED << journal, receipt, failures, migration_vars >>

RecoverySteps ==
    \/ RecoveryRecords \/ AnnounceChange \/ MakeChange \/ RecordChange \/ PassChange
    \/ PassOver \/ RecoveryRefuses \/ RecoveryCommits \/ RecoveryReturns

(* A kill of either command, or a failure of recovery, leaves all as it is.   *)
Stops == Failing /\ UNCHANGED << journal, marker, receipt, migration_vars >>
==============================================================================
