----------------------------- MODULE CaMigration -----------------------------
(***************************************************************************)
(* ca-rollover migrate: the legacy CA directories become generation g1 of  *)
(* the root and g1-i1 of the intermediate, object by object, under one     *)
(* journal.                                                                *)
(***************************************************************************)
EXTENDS CaJournal

CONSTANTS
    Services,         \* the services with a certificate
    QuarantineNames,  \* the stray legacy files that are moved aside
    MaxMigrations     \* bound: migrations begun

ASSUME MaxMigrationsAssumption == MaxMigrations \in Nat

ASSUME NamesAssumption == IsFiniteSet(Services) /\ IsFiniteSet(QuarantineNames)

VARIABLES
    place,      \* the state of every object of the migration
    staged,     \* the files of the transaction directory not yet published
    migrations  \* migrations begun

migration_vars == << place, staged, migrations >>

Tree(a) == << "tree", a >>
Config(a) == << "config", a >>
Reservation(a) == << "reservation", a >>
Issuer(s) == << "issuer", s >>
Quarantine(q) == << "quarantine", q >>
Session == << "session", "file" >>
Active == << "active", "file" >>
Provenance == << "provenance", "tree" >>

Objects ==
    (UNION {{Tree(a), Config(a), Reservation(a)} : a \in Authorities})
        \cup {Issuer(s) : s \in Services} \cup {Quarantine(q) : q \in QuarantineNames}
        \cup {Session, Active, Provenance}

(* "original" is what the migration found: the legacy place of a tree or of a *)
(* quarantined file, the staged provenance, a reservation that is absent or   *)
(* was abandoned, and no file otherwise.  A partial tree lost some entries;   *)
(* an authority that never was a legacy one has none.                         *)
Places(o) ==
    CASE o[1] = "config" -> {"original", "published", "rollback"}
      [] o[1] = "reservation" -> {"original", "reserved", "consumed", "rollback"}
      [] o[1] = "provenance" -> {"original", "published", "partial", "removed"}
      [] o[1] = "tree" -> {"none", "original", "published"}
      [] OTHER -> {"original", "published"}

Unmigrated == [o \in Objects |-> "original"]
Unfounded == [o \in Objects |-> IF o[1] = "tree" THEN "none" ELSE "original"]

(* The plan of a migration: objects to publish and journals to write.         *)
Publish(o, from, to) == [kind |-> "publish", object |-> o, from |-> from, to |-> to]
Record(phase) == [kind |-> "record", phase |-> phase]

PublishAll(objects) ==
    [i \in 1 .. Len(objects) |-> Publish(objects[i], "original", "published")]
Issuers == SetToSeq({Issuer(s) : s \in Services})
Quarantines == SetToSeq({Quarantine(q) : q \in QuarantineNames})

Reserve(a) == Publish(Reservation(a), "original", "reserved")
Consume(a) == Publish(Reservation(a), "reserved", "consumed")

(* What is reserved first, and what is published under the reservations before *)
(* the active manifest.                                                      *)
Reserving ==
    << Publish(Session, "original", "published"),
       Reserve("root"), Reserve("intermediate"), Record("reserved") >>

Publishing ==
    << Publish(Tree("root"), "original", "published"), Record("root-renamed"),
       Publish(Tree("intermediate"), "original", "published"),
       Record("intermediate-renamed"),
       Publish(Config("root"), "original", "published"),
       Publish(Config("intermediate"), "original", "published"), Record("configs-published") >>
    \o PublishAll(Issuers) \o << Record("issuers-published") >>
    \o PublishAll(Quarantines)
    \o << Record("quarantined"), Consume("root"), Consume("intermediate"),
          Record("active-pending") >>

Forward == Reserving \o Publishing \o << Publish(Active, "original", "published") >>

Plan ==
    << Record("pre-mutation") >> \o Forward
    \o << Record("active-published"), Publish(Provenance, "original", "published"),
          Record("provenance-published") >>

(* Renamed objects are their own source; every other file is staged first.    *)
Moves(o) == o[1] \in {"tree", "quarantine", "provenance"}
Staged ==
    {<< e.object, e.to >> : e \in {Plan[i] : i \in {j \in 1 .. Len(Plan) :
                              Plan[j].kind = "publish" /\ ~Moves(Plan[j].object)}}}
        \cup UNION {{<< Config(a), "rollback" >>, << Reservation(a), "rollback" >>}
                        : a \in Authorities}

Put(o, to) == place' = [place EXCEPT ![o] = to] /\ staged' = staged \ {<< o, to >>}

------------------------------------------------------------------------------
(* detect_layout(): which authorities the paths show.                         *)
LegacyAny == \E a \in Authorities : place[Tree(a)] = "original"
GenerationAny == place[Active] = "published"
                    \/ \E a \in Authorities : place[Tree(a)] = "published"
Layout ==
    CASE ~GenerationAny -> IF LegacyAny THEN "legacy" ELSE "empty"
      [] ~LegacyAny /\ place[Active] = "published" -> "generation"
      [] OTHER -> "partial"

(* _adopt_reservation() and _preflight(): nothing of this migration may exist, *)
(* and a reservation an earlier one left must be its abandoned one.           *)
PlanAccepted ==
    /\ \A a \in Authorities : place[Reservation(a)] \in {"original", "rollback"}
    /\ \A o \in {Session, Active} \cup {Issuer(s) : s \in Services}
                   \cup {Quarantine(q) : q \in QuarantineNames} : place[o] = "original"
    /\ place[Provenance] # "published"

BeginMigration ==
    /\ ~Running /\ migrations < MaxMigrations
    /\ NoUnresolvedState /\ Layout = "legacy" /\ PlanAccepted
    /\ place' = Unmigrated /\ staged' = Staged /\ migrations' = migrations + 1
    /\ process' = Begun("migrate", "legacy-migrate", 1)
    /\ UNCHANGED << journal, marker, receipt, failures >>

Write(phase, committed) ==
    journal' = [NoJournal EXCEPT !.operation = "legacy-migrate", !.phase = phase,
                                 !.committed = committed, !.action = process.action,
                                 !.step = process.step]

Writing == process.command = "migrate"
Planned(kind) ==
    /\ Writing /\ process.at <= Len(Plan) /\ Plan[process.at].kind = kind
    /\ process' = [process EXCEPT !.at = @ + 1]
    /\ UNCHANGED << failures, marker, receipt, migrations >>

WriterRecords ==
    /\ Planned("record") /\ Write(Plan[process.at].phase, FALSE)
    /\ UNCHANGED << place, staged >>

WriterPublishes ==
    /\ Planned("publish") /\ Put(Plan[process.at].object, Plan[process.at].to)
    /\ UNCHANGED journal

WriterCommits ==
    /\ Writing /\ process.at = Len(Plan) + 1
    /\ Write("complete", TRUE) /\ process' = [process EXCEPT !.at = @ + 1]
    /\ UNCHANGED << marker, receipt, failures, migration_vars >>

(* The marker is removed though a migration never starts under one, and the   *)
(* transaction directory, which nothing reads any more, goes with the process. *)
WriterReturns ==
    /\ Writing /\ process.at = Len(Plan) + 2
    /\ marker' = FALSE /\ process' = Idle
    /\ UNCHANGED << journal, receipt, failures, migration_vars >>

WriterSteps == WriterRecords \/ WriterPublishes \/ WriterCommits \/ WriterReturns

(* A failure or a handled signal leaves everything in place for recovery and  *)
(* publishes the marker, once the first journal is written.                   *)
MigrationFails ==
    /\ Writing /\ Failing /\ marker' = (process.at > 1)
    /\ UNCHANGED << journal, receipt, migration_vars >>
==============================================================================
