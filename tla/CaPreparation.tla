---------------------------- MODULE CaPreparation ----------------------------
(***************************************************************************)
(* ca-rollover prepare: a candidate intermediate, or a candidate root and   *)
(* intermediate, is made in a transaction directory and published object by *)
(* object next to the active generation.  A candidate intermediate is       *)
(* signed on a copy of the active root, so the root's database is published *)
(* with it, entry by entry.                                                *)
(***************************************************************************)
EXTENDS CaJournal

CONSTANT MaxPreparations   \* bound: preparations begun

ASSUME MaxPreparationsAssumption == MaxPreparations \in Nat

VARIABLES
    type,          \* the kind of the last preparation begun
    part,          \* the state of every object of it
    workspace,     \* the files of its transaction directory not yet published
    covered,       \* its last tree manifest lists all that directory holds
    displaced,     \* the names there under which a replaced file still is
    preparations   \* preparations begun

preparation_vars == << type, part, workspace, covered, displaced, preparations >>

Types == {"root", "intermediate"}
Reserved(a) == << "reservation", a >>
Candidate(a) == << "candidate", a >>
DbEntry(k) == << "database", k >>
BackupSession == << "session", "file" >>
State == << "state", "tree" >>
Pointer == << "pointer", "file" >>
Stage == << "stage", "tree" >>
RootCopy == << "root copy", "tree" >>
Directory == << "transaction", "tree" >>

IsTree(o) == o[1] \in {"candidate", "state", "stage", "root copy", "transaction"}

Parts == (UNION {{Reserved(a), Candidate(a)} : a \in Authorities})
             \cup {DbEntry(k) : k \in Keys}
             \cup {BackupSession, State, Pointer, Stage, RootCopy, Directory}

(* A partial tree lost entries that its removal took away: of a candidate and  *)
(* of the copy of the root the key among them.                               *)
PartStates(o) ==
    CASE o[1] = "database" -> {"before", "after", "restored"}
      [] o[1] = "reservation" -> {"absent", "reserved", "consumed", "abandoned"}
      [] o[1] \in {"session", "pointer"} -> {"absent", "published"}
      [] OTHER -> {"absent", "staged", "published", "partial"}

Unprepared == [o \in Parts |-> IF o[1] = "database" THEN "before" ELSE "absent"]

TypeAuthorities == IF type = "root" THEN Authorities ELSE {"intermediate"}
Database == IF type = "root" THEN {} ELSE Keys

(* The plan: what to write into the journal or the directory, and what to      *)
(* change under announcement.  The many files of the two staging steps, each   *)
(* announced and recorded on its own, are one change of the directory here.    *)
Note(phase) == [kind |-> "note", phase |-> phase]
Fill == [kind |-> "fill"]
Change(o, to) == [kind |-> "change", object |-> o, to |-> to]

(* Mutant: the entries that issuing leaves alone are published as well.       *)
MutantIssued == IF type = "intermediate" THEN DatabaseKeys \o SetToSeq(Kept) ELSE << >>

ForRoot(entries) == IF type = "root" THEN entries ELSE << >>
Issued == IF type = "intermediate" THEN DatabaseKeys ELSE << >>

(* What makes and fills the stage, what publishes the candidate and the        *)
(* database, and last the pointer to the candidate.                          *)
PreparationStaging ==
    << Note("planned"), Change(Directory, "staged"), Change(State, "staged"), Fill,
       Note("transaction-staged"), Change(BackupSession, "published") >>
    \o ForRoot(<< Change(Reserved("root"), "reserved") >>)
    \o << Change(Reserved("intermediate"), "reserved"), Note("reserved"),
          Change(Stage, "staged"), Note("staged") >>

CandidatePublication ==
    ForRoot(<< Change(Candidate("root"), "published") >>)
    \o << Change(Candidate("intermediate"), "published") >>
    \o [i \in 1 .. Len(Issued) |-> Change(DbEntry(Issued[i]), "after")]
    \o ForRoot(<< Change(Reserved("root"), "consumed") >>)
    \o << Change(Reserved("intermediate"), "consumed") >>
    \o (IF type = "intermediate" THEN << Change(RootCopy, "absent") >> ELSE << >>)
    \o << Change(State, "published") >>

PreparationPlan ==
    PreparationStaging \o CandidatePublication \o << Change(Pointer, "published") >>

(* The files of the directory: those of Fill, and those made with the stage.   *)
Filed == {<< BackupSession, "published" >>}
             \cup ({Reserved(a) : a \in TypeAuthorities}
                      \X {"reserved", "consumed", "abandoned"})
StageFiles == {<< Pointer, "published" >>}
                  \cup {<< DbEntry(k), "after" >> : k \in Database \ Kept}
                  \cup {<< DbEntry(k), "restored" >> : k \in Database \ Created}

Contents(o) ==
    LET stage == {Candidate(a) : a \in TypeAuthorities}
                     \cup (IF type = "intermediate" THEN {RootCopy} ELSE {})
    IN  CASE o = Stage -> stage
          [] o = Directory -> stage \cup {Stage, State}
          [] OTHER -> {}

(* A file that is already there is replaced by an exchange of the two names:    *)
(* an entry that issuing does not create, or a reservation.                   *)
Replaces(o, to) ==
    \/ o[1] = "database" /\ o[2] \notin Created
    \/ o[1] = "reservation" /\ part[o] # "absent" /\ to # "absent"

(* Mutant: publishing an object drops every file staged for it.               *)
MutantPutPart(o, to) ==
    /\ part' = [part EXCEPT ![o] = to] /\ workspace' = {f \in workspace : f[1] # o}
    /\ displaced' = displaced \cup (IF Replaces(o, to) THEN {<< o, to >>} ELSE {})
    /\ UNCHANGED covered

------------------------------------------------------------------------------
(* The ways an object changes: a tree is made in the transaction directory,    *)
(* a file or tree is put in its place, a tree loses its entries and is gone.   *)
(* What a file replaces stays under the name it came from until it is          *)
(* unlinked, in a step of its own.                                           *)
Make(o) ==
    /\ part' = [p \in Parts |-> IF p = o \/ (o = Stage /\ p \in Contents(Stage))
                                THEN "staged" ELSE part[p]]
    /\ workspace' = workspace \cup (IF o = Stage THEN StageFiles ELSE {})
    /\ covered' = (o = Directory) /\ UNCHANGED displaced

PutPart(o, to) ==
    /\ part' = [part EXCEPT ![o] = to] /\ workspace' = workspace \ {<< o, to >>}
    /\ displaced' = displaced \cup (IF Replaces(o, to) THEN {<< o, to >>} ELSE {})
    /\ UNCHANGED covered

Displaced(e) == << e.object, e.to >> \in displaced
Unlink(e) ==
    /\ process.mark = "made" /\ Displaced(e)
    /\ displaced' = displaced \ {<< e.object, e.to >>}
    /\ UNCHANGED << journal, process, part, workspace, covered >>

Lost(o) == {o} \cup {p \in Contents(o) : part[p] \in {"staged", "partial"}}
Take(o) ==
    /\ part' = [p \in Parts |->
                   IF p \notin Lost(o) THEN part[p]
                   ELSE IF part[o] = "partial" THEN "absent" ELSE "partial"]
    /\ workspace' = CASE o = Stage -> {f \in workspace : f[1][1] # "database"}
                      [] o = Directory -> {}
                      [] OTHER -> workspace
    /\ UNCHANGED << covered, displaced >>

ChangePart(o, to) ==
    CASE to = "staged" -> Make(o)
      [] to = "absent" /\ IsTree(o) -> Take(o)
      [] OTHER -> PutPart(o, to)

(* A file is put in its place from the transaction directory.                 *)
FileReady(o, to) ==
    ~IsTree(o) /\ to \notin {"absent", "before"} => << o, to >> \in workspace

(* The journal's evidence after a recorded change.                            *)
Recorded(o, to) ==
    [journal.evidence EXCEPT
        !.directory = @ \/ o = Directory,
        !.posted = @ \cup {k \in Keys : o = DbEntry(k) /\ to = "after"},
        !.restored = @ \cup {k \in Keys : o = DbEntry(k) /\ to = "restored"}]

PartCheckpoint(o, mark, evidence) ==
    journal' = [journal EXCEPT !.phase = "recovering", !.action = process.action,
                               !.step = Step(process.command, o, mark),
                               !.evidence = evidence]

(* Mutant: a preparation may begin next to an earlier one that succeeded.     *)
MutantBeginPreparation(kind) ==
    /\ ~Running /\ preparations < MaxPreparations /\ NoUnresolvedState
    /\ type' = kind /\ part' = Unprepared /\ workspace' = {} /\ covered' = TRUE
    /\ displaced' = {} /\ preparations' = preparations + 1
    /\ process' = Begun("prepare", "rollover-prepare", 1)
    /\ receipt' = FALSE
    /\ UNCHANGED << journal, marker, failures >>

------------------------------------------------------------------------------
(* Nothing may be unresolved, and no preparation may have left its state.      *)
BeginPreparation(kind) ==
    /\ ~Running /\ preparations < MaxPreparations /\ NoUnresolvedState
    /\ part[Pointer] = "absent" /\ part[State] # "published"
    /\ type' = kind /\ part' = Unprepared /\ workspace' = {} /\ covered' = TRUE
    /\ displaced' = {} /\ preparations' = preparations + 1
    /\ process' = Begun("prepare", "rollover-prepare", 1)
    /\ receipt' = FALSE
    /\ UNCHANGED << journal, marker, failures >>

Preparing == process.command = "prepare"
PreparerAt(kind) ==
    /\ Preparing /\ process.at <= Len(PreparationPlan)
    /\ PreparationPlan[process.at].kind = kind
    /\ UNCHANGED << marker, receipt, failures, type, preparations >>
Done == process' = [process EXCEPT !.at = @ + 1, !.mark = "none"]

(* The note of the filed directory writes a new manifest of it as well.       *)
PreparerNotes ==
    LET phase == PreparationPlan[process.at].phase
    IN  /\ PreparerAt("note") /\ Done
        /\ journal' =
             IF phase = "planned"
             THEN [NoJournal EXCEPT !.operation = "rollover-prepare", !.phase = phase]
             ELSE [journal EXCEPT !.phase = phase,
                                  !.evidence.filed = TRUE,
                                  !.evidence.staged = (phase = "staged")]
        /\ covered' = (covered \/ phase = "transaction-staged")
        /\ UNCHANGED << part, workspace, displaced >>

PreparerFills ==
    /\ PreparerAt("fill") /\ Done
    /\ workspace' = Filed /\ covered' = FALSE /\ UNCHANGED << journal, part, displaced >>

(* Every checkpoint of the command lists the directory anew.                  *)
PreparerAnnounces ==
    LET e == PreparationPlan[process.at]
    IN  /\ PreparerAt("change") /\ process.mark = "none"
        /\ PartCheckpoint(e.object, "pending", journal.evidence)
        /\ process' = [process EXCEPT !.mark = "pending"]
        /\ covered' = TRUE /\ UNCHANGED << part, workspace, displaced >>

PreparerChanges ==
    LET e == PreparationPlan[process.at]
    IN  /\ PreparerAt("change") /\ process.mark = "pending"
        /\ ChangePart(e.object, e.to)
        /\ process' = [process EXCEPT !.mark =
              IF part'[e.object] = "partial" THEN @ ELSE "made"]
        /\ UNCHANGED journal

PreparerUnlinks == PreparerAt("change") /\ Unlink(PreparationPlan[process.at])

PreparerRecords ==
    LET e == PreparationPlan[process.at]
    IN  /\ PreparerAt("change") /\ process.mark = "made" /\ ~Displaced(e) /\ Done
        /\ PartCheckpoint(e.object, "done", Recorded(e.object, e.to))
        /\ covered' = TRUE /\ UNCHANGED << part, workspace, displaced >>

PreparerSteps ==
    \/ PreparerNotes \/ PreparerFills \/ PreparerAnnounces \/ PreparerChanges
    \/ PreparerUnlinks \/ PreparerRecords

(* A failure or a handled signal publishes the marker, over whichever journal  *)
(* there is, unless the preparation is already committed.                     *)
PreparationFails ==
    /\ Preparing /\ Failing
    /\ IF process.mark \in {"none", "pending", "made"}
       THEN marker' = TRUE /\ receipt' = FALSE
       ELSE UNCHANGED << marker, receipt >>
    /\ UNCHANGED << journal, preparation_vars >>
==============================================================================
