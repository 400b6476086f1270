------------------------------ MODULE CaCreation ------------------------------
(***************************************************************************)
(* root-create and intermediate-create: the first root and its first        *)
(* intermediate, made under a reserved generation in a hidden directory     *)
(* next to their place, and the rollback of a failed one in its own process. *)
(* The intermediate is signed on a copy of the root, whose database entries  *)
(* are then published one by one.                                          *)
(***************************************************************************)
EXTENDS CaJournal

CONSTANT MaxCreations   \* bound: creations begun

ASSUME MaxCreationsAssumption == MaxCreations \in Nat

VARIABLES
    creating,   \* the authority of the last creation begun
    made,       \* the state of every object of the two creations
    creations   \* creations begun

creation_vars == << creating, made, creations >>

Grant(a) == << "grant", a >>
Room(a) == << "room", a >>
Authority(a) == << "authority", a >>
RootEntry(k) == << "entry", k >>
KeyCopy == << "key copy", "tree" >>
RootManifest == << "root manifest", "file" >>
ActiveManifest == << "active manifest", "file" >>

Creations ==
    (UNION {{Grant(a), Room(a), Authority(a)} : a \in Authorities})
        \cup {RootEntry(k) : k \in Keys} \cup {KeyCopy, RootManifest, ActiveManifest}

MadeStates(o) ==
    CASE o[1] = "entry" -> {"before", "after"}
      [] o[1] = "grant" -> {"absent", "reserved", "consumed", "abandoned"}
      [] OTHER -> {"absent", "published"}

Uncreated == [o \in Creations |-> IF o[1] = "entry" THEN "before" ELSE "absent"]

Operation(a) == IF a = "root" THEN "root-bootstrap" ELSE "intermediate-bootstrap"

------------------------------------------------------------------------------
(* The plans: journals to write and objects to put in their place.            *)
Journaled(phase) == [kind |-> "journal", phase |-> phase]
Placed(o, to) == [kind |-> "place", object |-> o, to |-> to]

(* Each entry comes between the journals that announce and record it.         *)
RootEntries ==
    [n \in 1 .. 3 * Len(DatabaseKeys) |->
        CASE n % 3 = 1 -> Journaled("root-entry-pending")
          [] n % 3 = 2 -> Placed(RootEntry(DatabaseKeys[n \div 3 + 1]), "after")
          [] OTHER -> Journaled("root-entry-done")]

ForIntermediate(entries) == IF creating = "intermediate" THEN entries ELSE << >>

(* What stages the authority, what publishes it and spends its reservation,    *)
(* and what publishes the manifest.                                          *)
CreationStaging ==
    << Journaled("prepared"), Placed(Grant(creating), "reserved"), Journaled("reserved"),
       Placed(Room(creating), "published"), Journaled("staged") >>
    \o ForIntermediate(<< Placed(KeyCopy, "published") >>)

AuthorityPublication ==
    << Placed(Authority(creating), "published"), Journaled("authority-published") >>
    \o ForIntermediate(<< Journaled("root-db-pending") >> \o RootEntries
                           \o << Journaled("root-db-published") >>)
    \o << Journaled("reservation-consume-pending"), Placed(Grant(creating), "consumed"),
          Journaled("reservation-consumed") >>

ManifestPublication ==
    IF creating = "root"
    THEN << Placed(RootManifest, "published"), Journaled("bootstrap-published") >>
    ELSE << Placed(ActiveManifest, "published"), Journaled("active-published"),
            Placed(RootManifest, "absent"), Journaled("cleanup-pending"),
            Placed(KeyCopy, "absent"), Journaled("cleanup-done") >>

CreationPlan == CreationStaging \o AuthorityPublication \o ManifestPublication

(* The hidden directory of a root is renamed to the root itself; that of an    *)
(* intermediate takes what is left of the copied root along.                  *)
Lay(o, to) ==
    made' = [p \in Creations |->
                IF p = o THEN to
                ELSE IF \/ p = Room("root") /\ o = Authority("root")
                        \/ p = KeyCopy /\ o = Room("intermediate")
                     THEN "absent" ELSE made[p]]

(* The objects whose identity the process knows: a root's is that of its       *)
(* hidden directory, and the entries' are taken before the first is published. *)
Own(a) ==
    {Room(a), Authority(a)}
        \cup (IF a = "root" THEN {RootManifest} ELSE {KeyCopy, ActiveManifest})
Witnessed(entries) ==
    {o \in Own(creating) : made[o] = "published"} \cup entries
        \cup (IF made[Room(creating)] = "published" /\ creating = "root"
              THEN {Authority("root")} ELSE {})

(* The entries are part of what it knows from the journal that announces them. *)
Mutated == {o \in journal.evidence.known : o[1] = "entry"}
Mutating(phase) == IF phase = "root-db-pending" THEN {RootEntry(k) : k \in Keys} ELSE Mutated

------------------------------------------------------------------------------
(* A root needs an empty layout, where even a stray directory counts, an        *)
(* intermediate the manifest of a root.  Each attempt has a generation and a   *)
(* hidden directory of its own.                                              *)
Creatable(a) ==
    IF a = "root"
    THEN \A o \in Own("root") \cup Own("intermediate") : made[o] = "absent"
    ELSE /\ made[ActiveManifest] = "absent" /\ made[RootManifest] = "published"
         /\ made[Authority("root")] = "published"

BeginCreation(a) ==
    /\ ~Running /\ creations < MaxCreations /\ NoUnresolvedState /\ Creatable(a)
    /\ creating' = a /\ creations' = creations + 1
    /\ made' = [made EXCEPT ![Grant(a)] = "absent", ![Room(a)] = "absent"]
    /\ process' = Begun("create", Operation(a), 1)
    /\ UNCHANGED << journal, marker, receipt, failures >>

Creating == process.command = "create"
CreatorAt(kind) ==
    /\ Creating /\ process.at <= Len(CreationPlan) /\ CreationPlan[process.at].kind = kind
    /\ process' = [process EXCEPT !.at = @ + 1]
    /\ UNCHANGED << marker, receipt, failures, creating, creations >>

Bootstrap(phase, entries) ==
    [NoJournal EXCEPT !.operation = Operation(creating), !.phase = phase,
                      !.evidence.known = Witnessed(entries)]

CreatorJournals ==
    LET phase == CreationPlan[process.at].phase
    IN  /\ CreatorAt("journal") /\ UNCHANGED made
        /\ journal' = Bootstrap(phase, IF phase = "prepared" THEN {} ELSE Mutating(phase))

CreatorPlaces ==
    /\ CreatorAt("place") /\ UNCHANGED journal
    /\ Lay(CreationPlan[process.at].object, CreationPlan[process.at].to)

CreatorCommits ==
    /\ Creating /\ process.at = Len(CreationPlan) + 1
    /\ journal' = [Bootstrap("complete", {}) EXCEPT !.committed = TRUE]
    /\ process' = [process EXCEPT !.at = @ + 1]
    /\ UNCHANGED << marker, receipt, failures, creation_vars >>

CreatorReturns ==
    /\ Creating /\ process.at = Len(CreationPlan) + 2
    /\ Lay(Room(creating), "absent") /\ process' = Idle
    /\ UNCHANGED << journal, marker, receipt, failures, creating, creations >>

CreatorSteps == CreatorJournals \/ CreatorPlaces \/ CreatorCommits \/ CreatorReturns

(* A failure or a handled signal publishes the marker and rolls back, in the   *)
(* same process, whatever is not committed.                                  *)
CreationFails ==
    /\ Creating /\ process.at <= Len(CreationPlan) + 1 /\ failures < MaxFailures
    /\ failures' = failures + 1 /\ marker' = TRUE
    /\ process' = Begun("abort", Operation(creating), 1)
    /\ UNCHANGED << journal, receipt, creation_vars >>
==============================================================================
