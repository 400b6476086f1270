--------------------------- MODULE CaTypes_proofs ---------------------------
(***************************************************************************)
(* CA creation, migration, preparation and their recoveries: proofs for    *)
(* every database, every set of services and stray files, and any number of*)
(* failures, kills and recoveries.  CaRollover_proofs continues them.      *)
(*                                                                         *)
(* First, what the plans of the commands contain, and in which order: the  *)
(* facts about the sequences of CaCreation, CaMigration and CaPreparation  *)
(* that every proof here steps through.                                    *)
(*                                                                         *)
(* Then the invariants.  Typed is inductive: besides the types it says     *)
(* which command works on which operation (Control) and that no command    *)
(* leaves its plan (Bounded).  Owned adds that the running command owns the*)
(* journal; MigrationInv and CreationInv say what these operations and     *)
(* their recoveries have done so far, entry by entry of their plans, and   *)
(* Worlds which of them the layout shows.                                  *)
(***************************************************************************)
EXTENDS CaRollover, TLAPS, FiniteSetTheorems

------------------------------------------------------------------------------
(* Sequences.                                                                 *)

(* r is s followed by t.                                                     *)
Joins(r, S, s, t) ==
    /\ r \in Seq(S) /\ Len(r) = Len(s) + Len(t)
    /\ \A i \in 1 .. Len(s) : r[i] = s[i]
    /\ \A i \in 1 .. Len(t) : r[Len(s) + i] = t[i]

(* The parts of a sequence and its length.                                   *)
LEMMA Joined ==
    ASSUME NEW S, NEW s \in Seq(S), NEW t \in Seq(S)
    PROVE  Joins(s \o t, S, s, t)
BY DEF Joins

(* A function on 1..m is a sequence of length m.                             *)
LEMMA Tabulated ==
    ASSUME NEW S, NEW m \in Nat, NEW s \in [1 .. m -> S]
    PROVE  s \in Seq(S) /\ Len(s) = m
OBVIOUS

(* s is made of entries of J and of Q, of Q of every one.                     *)
Consists(s, J, Q) == s \in Seq(J \cup Q) /\ \A e \in Q : \E i \in 1 .. Len(s) : s[i] = e

(* Where the entries of s followed by t, which consists of J and Q, are.      *)
Follows(r, E, J, Q, s, t) ==
    /\ r \in Seq(E \cup J \cup Q)
    /\ Len(s) \in Nat /\ Len(t) \in Nat /\ Len(r) = Len(s) + Len(t)
    /\ \A i \in 1 .. Len(s) : r[i] = s[i]
    /\ \A i \in 1 .. Len(r) : i > Len(s) => r[i] \in J \cup Q
    /\ \A e \in Q : \E i \in 1 .. Len(r) : i > Len(s) /\ r[i] = e

(* What a sequence holds, followed by another.                               *)
LEMMA Followed ==
    ASSUME NEW E, NEW J, NEW Q, NEW s \in Seq(E), NEW t, Consists(t, J, Q)
    PROVE  Follows(s \o t, E, J, Q, s, t)
<1> DEFINE r == s \o t
           F == E \cup J \cup Q
<1>1. t \in Seq(J \cup Q) /\ s \in Seq(F) /\ t \in Seq(F)
  BY DEF Consists
<1>2. Joins(r, F, s, t)
  BY <1>1, Joined
<1> HIDE DEF r, F
<1>3. /\ r \in Seq(F) /\ Len(s) \in Nat /\ Len(t) \in Nat /\ Len(r) = Len(s) + Len(t)
      /\ \A i \in 1 .. Len(s) : r[i] = s[i]
  BY <1>1, <1>2 DEF Joins
<1>4. ASSUME NEW i \in 1 .. Len(r), i > Len(s) PROVE r[i] \in J \cup Q
  <2>1. i - Len(s) \in 1 .. Len(t) /\ i = Len(s) + (i - Len(s))
    BY <1>3, <1>4
  <2>2. r[i] = t[i - Len(s)]
    BY <2>1, <1>2 DEF Joins
  <2> QED BY <2>1, <2>2, <1>1
<1>5. ASSUME NEW e \in Q PROVE \E i \in 1 .. Len(r) : i > Len(s) /\ r[i] = e
  <2>1. PICK i \in 1 .. Len(t) : t[i] = e
    BY DEF Consists
  <2>2. Len(s) + i \in 1 .. Len(r) /\ Len(s) + i > Len(s) /\ r[Len(s) + i] = t[i]
    BY <1>2, <1>3 DEF Joins
  <2> QED BY <2>1, <2>2
<1>6. Follows(r, E, J, Q, s, t)
  BY <1>3, <1>4, <1>5 DEF Follows, F
<1> QED BY <1>6 DEF r

(* The entries of two sequences joined are those of both.                    *)
LEMMA ConsistsJoined ==
    ASSUME NEW J, NEW Q, NEW P, NEW s, NEW t, Consists(s, J, Q), Consists(t, J, P)
    PROVE  Consists(s \o t, J, Q \cup P)
<1> DEFINE r == s \o t
<1>1. s \in Seq(J \cup Q)
  BY DEF Consists
<1>2. Follows(r, J \cup Q, J, P, s, t)
  BY <1>1, Followed
<1> HIDE DEF r
<1>3. (J \cup Q) \cup J \cup P = J \cup (Q \cup P)
  OBVIOUS
<1>4. ASSUME NEW e \in Q PROVE \E i \in 1 .. Len(r) : r[i] = e
  <2>1. PICK i \in 1 .. Len(s) : s[i] = e
    BY DEF Consists
  <2> QED BY <2>1, <1>2 DEF Follows
<1>5. Consists(r, J, Q \cup P)
  BY <1>2, <1>3, <1>4 DEF Consists, Follows
<1> QED BY <1>5 DEF r

(* The entries of the database that issuing changes.                          *)
LEMMA DatabaseFacts ==
    /\ DatabaseKeys \in Seq(Keys \ Kept) /\ Len(DatabaseKeys) \in Nat
    /\ Range(DatabaseKeys) = Keys \ Kept
    /\ \A i \in 1 .. Len(DatabaseKeys) : DatabaseKeys[i] \in Keys \ Kept
    /\ \A k \in Keys \ Kept : \E i \in 1 .. Len(DatabaseKeys) : DatabaseKeys[i] = k
<1>1. /\ DatabaseKeys \in Seq(STRING) /\ Len(DatabaseKeys) \in Nat
      /\ Kept \cap Range(DatabaseKeys) = {} /\ Range(DatabaseKeys) = Keys \ Kept
  BY DatabaseAssumption DEF Keys
<1>2. Range(DatabaseKeys) = {DatabaseKeys[i] : i \in 1 .. Len(DatabaseKeys)}
  BY <1>1 DEF Range
<1>3. \A i \in 1 .. Len(DatabaseKeys) : DatabaseKeys[i] \in Keys \ Kept
  BY <1>1, <1>2
<1> QED BY <1>1, <1>2, <1>3

(* The sequence of a finite set holds its elements and nothing else.         *)
LEMMA SequenceOfSet ==
    ASSUME NEW S, IsFiniteSet(S)
    PROVE  /\ SetToSeq(S) \in Seq(S)
           /\ \A x \in S : \E i \in 1 .. Len(SetToSeq(S)) : SetToSeq(S)[i] = x
<1> DEFINE m == Cardinality(S)
<1>1. m \in Nat /\ ExistsBijection(1 .. m, S)
  BY FS_NatBijection, FS_CardinalityType
<1>2. PICK f \in [1 .. m -> S] : IsInjective(f)
  BY <1>1 DEF ExistsBijection, Bijection, Injection, IsInjective
<1>3. SetToSeq(S) \in [1 .. m -> S] /\ IsInjective(SetToSeq(S))
  BY <1>2 DEF SetToSeq
<1> DEFINE g == SetToSeq(S)
           R == {g[i] : i \in 1 .. m}
<1> HIDE DEF m, g
<1>4. g \in [1 .. m -> S] /\ \A i, j \in 1 .. m : g[i] = g[j] => i = j
  BY <1>3 DEF IsInjective, g
<1>5. R \subseteq S
  BY <1>4
<1>6. g \in Bijection(1 .. m, R)
  BY <1>4 DEF Bijection, Injection, Surjection, IsInjective
<1>7. IsFiniteSet(R) /\ Cardinality(R) = m
  <2>1. ExistsBijection(1 .. m, R)
    BY <1>6 DEF ExistsBijection
  <2>2. IsFiniteSet(R)
    BY <1>5, FS_Subset
  <2>3. m = Cardinality(R)
    BY <2>1, <2>2, <1>1, FS_CountingElements
  <2> QED BY <2>2, <2>3
<1>8. R = S
  BY <1>5, <1>7, FS_Subset DEF m
<1>9. g \in Seq(S) /\ Len(g) = m
  BY <1>4, <1>1, Tabulated
<1> QED BY <1>8, <1>9 DEF g

------------------------------------------------------------------------------
(* The plan of a creation.                                                    *)

CreationEntries ==
    {Journaled(phase) : phase \in CreationPhases}
        \cup (UNION {{Placed(o, to) : to \in MadeStates(o)} : o \in Creations})

(* What an object of a creation is in the end.                               *)
FinalMade(o) ==
    CASE o[1] = "entry" -> "after"
      [] o[1] = "grant" -> "consumed"
      [] o = KeyCopy \/ (o = RootManifest /\ creating = "intermediate") -> "absent"
      [] OTHER -> "published"

Journals == {Journaled(phase) : phase \in CreationPhases}
Finals(O) == {Placed(o, FinalMade(o)) : o \in O}

(* Objects of a creation have one name each.                                 *)
LEMMA CreationObjects ==
    /\ \A a \in Authorities : /\ Grant(a) \in Creations /\ Grant(a)[1] = "grant"
                              /\ Room(a) \in Creations /\ Room(a)[1] = "room"
                              /\ Authority(a) \in Creations /\ Authority(a)[1] = "authority"
    /\ \A k \in Keys : RootEntry(k) \in Creations /\ RootEntry(k)[1] = "entry"
    /\ KeyCopy \in Creations /\ KeyCopy[1] = "key copy"
    /\ RootManifest \in Creations /\ RootManifest[1] = "root manifest"
    /\ ActiveManifest \in Creations /\ ActiveManifest[1] = "active manifest"
<1>1. ASSUME NEW a \in Authorities
      PROVE  /\ Grant(a) \in Creations /\ Room(a) \in Creations /\ Authority(a) \in Creations
             /\ Grant(a)[1] = "grant" /\ Room(a)[1] = "room" /\ Authority(a)[1] = "authority"
  <2>1. {Grant(a), Room(a), Authority(a)} \subseteq Creations
    BY DEF Creations
  <2> QED BY <2>1 DEF Grant, Room, Authority
<1>2. ASSUME NEW k \in Keys PROVE RootEntry(k) \in Creations /\ RootEntry(k)[1] = "entry"
  BY DEF Creations, RootEntry
<1>3. KeyCopy \in Creations /\ RootManifest \in Creations /\ ActiveManifest \in Creations
  BY DEF Creations
<1> QED BY <1>1, <1>2, <1>3 DEF KeyCopy, RootManifest, ActiveManifest

(* The entries of a plan of creations.                                        *)
LEMMA CreationEntryKinds ==
    /\ \A phase \in CreationPhases : Journaled(phase) \in CreationEntries
    /\ \A o \in Creations : \A to \in MadeStates(o) : Placed(o, to) \in CreationEntries
    /\ \A e \in CreationEntries :
          \/ e.kind = "journal" /\ e.phase \in CreationPhases
          \/ e.kind = "place" /\ e.object \in Creations /\ e.to \in MadeStates(e.object)
<1>1. \A phase \in CreationPhases : Journaled(phase) \in CreationEntries
  BY DEF CreationEntries
<1>2. \A o \in Creations : \A to \in MadeStates(o) : Placed(o, to) \in CreationEntries
  BY DEF CreationEntries
<1>3. ASSUME NEW e \in CreationEntries
      PROVE  \/ e.kind = "journal" /\ e.phase \in CreationPhases
             \/ e.kind = "place" /\ e.object \in Creations /\ e.to \in MadeStates(e.object)
  <2>1. \/ \E phase \in CreationPhases : e = Journaled(phase)
        \/ \E o \in Creations : \E to \in MadeStates(o) : e = Placed(o, to)
    BY DEF CreationEntries
  <2> QED BY <2>1 DEF Journaled, Placed
<1> QED BY <1>1, <1>2, <1>3

(* The placing of each of these objects is an entry of a plan.               *)
LEMMA CreationPlacings ==
    /\ \A a \in Authorities :
          /\ Placed(Grant(a), "reserved") \in CreationEntries
          /\ Placed(Grant(a), "consumed") \in CreationEntries
          /\ Placed(Room(a), "published") \in CreationEntries
          /\ Placed(Authority(a), "published") \in CreationEntries
    /\ \A k \in Keys : Placed(RootEntry(k), "after") \in CreationEntries
    /\ \A to \in {"absent", "published"} :
          /\ Placed(KeyCopy, to) \in CreationEntries
          /\ Placed(RootManifest, to) \in CreationEntries
          /\ Placed(ActiveManifest, to) \in CreationEntries
BY CreationEntryKinds, CreationObjects DEF MadeStates

(* The staging of a creation, entry by entry.                                *)
LEMMA CreationStagingIs ==
    ASSUME creating \in Authorities
    PROVE  /\ CreationStaging \in Seq(CreationEntries)
           /\ Len(CreationStaging) = IF creating = "root" THEN 5 ELSE 6
           /\ CreationStaging[1] = Journaled("prepared")
           /\ CreationStaging[2] = Placed(Grant(creating), "reserved")
           /\ CreationStaging[3] = Journaled("reserved")
           /\ CreationStaging[4] = Placed(Room(creating), "published")
           /\ CreationStaging[5] = Journaled("staged")
           /\ creating = "intermediate" => CreationStaging[6] = Placed(KeyCopy, "published")
<1>1. /\ Journaled("prepared") \in CreationEntries /\ Journaled("reserved") \in CreationEntries
      /\ Journaled("staged") \in CreationEntries
  BY CreationEntryKinds DEF CreationPhases
<1>2. /\ Placed(Grant(creating), "reserved") \in CreationEntries
      /\ Placed(Room(creating), "published") \in CreationEntries
      /\ Placed(KeyCopy, "published") \in CreationEntries
  BY CreationPlacings
<1>3. CASE creating = "root"
  BY <1>1, <1>2, <1>3 DEF CreationStaging, ForIntermediate
<1>4. CASE creating = "intermediate"
  BY <1>1, <1>2, <1>4 DEF CreationStaging, ForIntermediate
<1> QED BY <1>3, <1>4 DEF Authorities

(* What publishes the entries of the database.                               *)
LEMMA RootEntriesAre ==
    /\ RootEntries \in Seq(CreationEntries)
    /\ \A i \in 1 .. Len(RootEntries) :
          \/ RootEntries[i] \in Journals
          \/ \E k \in Keys \ Kept : RootEntries[i] = Placed(RootEntry(k), "after")
    /\ \A k \in Keys \ Kept :
          \E i \in 1 .. Len(RootEntries) : RootEntries[i] = Placed(RootEntry(k), "after")
<1> DEFINE m == Len(DatabaseKeys)
<1>1. /\ m \in Nat /\ \A i \in 1 .. m : DatabaseKeys[i] \in Keys \ Kept
      /\ \A k \in Keys \ Kept : \E i \in 1 .. m : DatabaseKeys[i] = k
  BY DatabaseFacts
<1>2. RootEntries = [i \in 1 .. 3 * m |->
        CASE i % 3 = 1 -> Journaled("root-entry-pending")
          [] i % 3 = 2 -> Placed(RootEntry(DatabaseKeys[i \div 3 + 1]), "after")
          [] OTHER -> Journaled("root-entry-done")]
  BY DEF RootEntries
<1> HIDE DEF m
<1>3. \A i \in 1 .. 3 * m : i % 3 = 2 => i \div 3 + 1 \in 1 .. m
  BY <1>1
<1>4. \A i \in 1 .. 3 * m :
          \/ RootEntries[i] = Journaled("root-entry-pending")
          \/ RootEntries[i] = Journaled("root-entry-done")
          \/ i % 3 = 2 /\ RootEntries[i] = Placed(RootEntry(DatabaseKeys[i \div 3 + 1]), "after")
  BY <1>1, <1>2
<1>5. ASSUME NEW i \in 1 .. 3 * m
      PROVE  /\ RootEntries[i] \in CreationEntries
             /\ \/ RootEntries[i] \in Journals
                \/ \E k \in Keys \ Kept : RootEntries[i] = Placed(RootEntry(k), "after")
  <2>1. CASE RootEntries[i] = Journaled("root-entry-pending")
    BY <2>1, CreationEntryKinds DEF CreationPhases, Journals
  <2>2. CASE RootEntries[i] = Journaled("root-entry-done")
    BY <2>2, CreationEntryKinds DEF CreationPhases, Journals
  <2>3. CASE i % 3 = 2 /\ RootEntries[i] = Placed(RootEntry(DatabaseKeys[i \div 3 + 1]), "after")
    <3>1. DatabaseKeys[i \div 3 + 1] \in Keys \ Kept
      BY <2>3, <1>1, <1>3
    <3> QED BY <2>3, <3>1, CreationPlacings
  <2> QED BY <2>1, <2>2, <2>3, <1>4
<1>6. RootEntries \in Seq(CreationEntries) /\ Len(RootEntries) = 3 * m
  <2>1. RootEntries \in [1 .. 3 * m -> CreationEntries] /\ 3 * m \in Nat
    BY <1>1, <1>2, <1>5
  <2> QED BY <2>1, Tabulated
<1>7. ASSUME NEW k \in Keys \ Kept
      PROVE  \E i \in 1 .. 3 * m : RootEntries[i] = Placed(RootEntry(k), "after")
  <2>1. PICK j \in 1 .. m : DatabaseKeys[j] = k
    BY <1>1
  <2>2. /\ 3 * j - 1 \in 1 .. 3 * m /\ (3 * j - 1) % 3 = 2 /\ (3 * j - 1) \div 3 + 1 = j
    BY <1>1
  <2>3. RootEntries[3 * j - 1] = Placed(RootEntry(DatabaseKeys[j]), "after")
    BY <1>2, <2>2
  <2> QED BY <2>1, <2>2, <2>3
<1> QED BY <1>5, <1>6, <1>7

AuthorityObjects ==
    {Authority(creating), Grant(creating)}
        \cup (IF creating = "intermediate" THEN {RootEntry(k) : k \in Keys \ Kept} ELSE {})
ManifestObjects ==
    IF creating = "root" THEN {RootManifest} ELSE {ActiveManifest, RootManifest, KeyCopy}

(* The final states of the objects.                                          *)
LEMMA FinalStates ==
    ASSUME creating \in Authorities
    PROVE  /\ FinalMade(Authority(creating)) = "published"
           /\ FinalMade(Grant(creating)) = "consumed"
           /\ \A k \in Keys : FinalMade(RootEntry(k)) = "after"
           /\ FinalMade(KeyCopy) = "absent" /\ FinalMade(ActiveManifest) = "published"
           /\ FinalMade(RootManifest) = IF creating = "root" THEN "published" ELSE "absent"
BY DEF FinalMade, Authority, Grant, RootEntry, KeyCopy, ActiveManifest, RootManifest,
  Authorities

(* The second part of the plan publishes the authority and the database.      *)
LEMMA AuthorityIsPut ==
    ASSUME creating \in Authorities
    PROVE  Consists(AuthorityPublication, Journals, Finals(AuthorityObjects))
<1> DEFINE first == << Placed(Authority(creating), "published"), Journaled("authority-published") >>
           last == << Journaled("reservation-consume-pending"), Placed(Grant(creating), "consumed"),
                      Journaled("reservation-consumed") >>
           begin == << Journaled("root-db-pending") >>
           end == << Journaled("root-db-published") >>
           database == Finals({RootEntry(k) : k \in Keys \ Kept})
           authority == {Placed(Authority(creating), "published")}
           grant == {Placed(Grant(creating), "consumed")}
<1>1. \A p \in {"authority-published", "reservation-consume-pending", "reservation-consumed",
                "root-db-pending", "root-db-published"} : Journaled(p) \in Journals
  BY DEF CreationPhases, Journals
<1>2. Consists(first, Journals, authority) /\ Consists(last, Journals, grant)
  BY <1>1 DEF Consists
<1>3. Consists(begin, Journals, {}) /\ Consists(end, Journals, {}) /\ Consists(<< >>, Journals, {})
  BY <1>1 DEF Consists
<1>4. Consists(RootEntries, Journals, database)
  BY RootEntriesAre, FinalStates DEF Consists, Finals
<1> HIDE DEF first, last, begin, end, database, authority, grant
<1> DEFINE middle == begin \o RootEntries \o end
<1>5. Consists(middle, Journals, database)
  <2>1. Consists(begin \o RootEntries, Journals, {} \cup database)
    BY <1>3, <1>4, ConsistsJoined
  <2>2. Consists(middle, Journals, ({} \cup database) \cup {})
    BY <2>1, <1>3, ConsistsJoined
  <2> QED BY <2>2
<1>6. /\ Consists((first \o << >>) \o last, Journals, (authority \cup {}) \cup grant)
      /\ Consists((first \o middle) \o last, Journals, (authority \cup database) \cup grant)
  BY <1>2, <1>3, <1>5, ConsistsJoined
<1>7. CASE creating = "root"
  <2>1. AuthorityPublication = (first \o << >>) \o last
    BY <1>7 DEF AuthorityPublication, ForIntermediate, first, last
  <2>2. (authority \cup {}) \cup grant = Finals(AuthorityObjects)
    BY <1>7, FinalStates DEF AuthorityObjects, Finals, authority, grant
  <2> QED BY <2>1, <2>2, <1>6
<1>8. CASE creating = "intermediate"
  <2>1. AuthorityPublication = (first \o middle) \o last
    BY <1>8 DEF AuthorityPublication, ForIntermediate, first, last, begin, end
  <2>2. (authority \cup database) \cup grant = Finals(AuthorityObjects)
    BY <1>8, FinalStates DEF AuthorityObjects, Finals, authority, grant, database
  <2> QED BY <2>1, <2>2, <1>6
<1> QED BY <1>7, <1>8 DEF Authorities

(* The last part of the plan publishes the manifest and takes back the old one. *)
LEMMA ManifestIsPut ==
    ASSUME creating \in Authorities
    PROVE  Consists(ManifestPublication, Journals, Finals(ManifestObjects))
<1>1. \A p \in {"bootstrap-published", "active-published", "cleanup-pending", "cleanup-done"} :
          Journaled(p) \in Journals
  BY DEF CreationPhases, Journals
<1>2. CASE creating = "root"
  <2>1. Finals(ManifestObjects) = {Placed(RootManifest, "published")}
    BY <1>2, FinalStates DEF ManifestObjects, Finals
  <2> QED BY <1>1, <1>2, <2>1 DEF Consists, ManifestPublication
<1>3. CASE creating = "intermediate"
  <2>1. Finals(ManifestObjects) = {Placed(RootManifest, "absent"), Placed(KeyCopy, "absent"),
                                   Placed(ActiveManifest, "published")}
    BY <1>3, FinalStates DEF ManifestObjects, Finals
  <2> QED BY <1>1, <1>3, <2>1 DEF Consists, ManifestPublication
<1> QED BY <1>2, <1>3 DEF Authorities

(* Where in its plan a creation is after staging, and after the authority.     *)
IsStaged == Len(CreationStaging)
IsPublished == Len(CreationStaging) + Len(AuthorityPublication)

(* What the plan of a creation has put in its place, and where.              *)
LEMMA CreationPlanIs ==
    ASSUME creating \in Authorities
    PROVE  /\ CreationPlan \in Seq(CreationEntries) /\ Len(CreationPlan) \in Nat
           /\ IsStaged \in Nat /\ IsPublished \in Nat
           /\ 5 <= IsStaged /\ IsStaged <= IsPublished /\ IsPublished <= Len(CreationPlan)
           /\ \A i \in 1 .. IsStaged : CreationPlan[i] = CreationStaging[i]
           /\ \A i \in 1 .. Len(CreationPlan) : i > IsStaged =>
                 CreationPlan[i] \in Journals \cup
                    (IF i <= IsPublished THEN Finals(AuthorityObjects) ELSE Finals(ManifestObjects))
           /\ \A e \in Finals(AuthorityObjects) : \E i \in 1 .. IsPublished :
                 i > IsStaged /\ CreationPlan[i] = e
           /\ \A e \in Finals(ManifestObjects) : \E i \in 1 .. Len(CreationPlan) :
                 i > IsPublished /\ CreationPlan[i] = e
<1> DEFINE a == CreationStaging
           b == AuthorityPublication
           c == ManifestPublication
           ab == a \o b
           abc == ab \o c
           A == Finals(AuthorityObjects)
           M == Finals(ManifestObjects)
<1>1. a \in Seq(CreationEntries) /\ 5 <= Len(a)
  BY CreationStagingIs
<1>2. Consists(b, Journals, A) /\ Consists(c, Journals, M)
  BY AuthorityIsPut, ManifestIsPut
<1>3. CreationPlan = abc
  BY DEF CreationPlan
<1> HIDE DEF a, b, c, A, M
<1>4. Follows(ab, CreationEntries, Journals, A, a, b)
  BY <1>1, <1>2, Followed
<1> HIDE DEF ab
<1>5. Follows(abc, CreationEntries \cup Journals \cup A, Journals, M, ab, c)
  <2>1. ab \in Seq(CreationEntries \cup Journals \cup A)
    BY <1>4 DEF Follows
  <2> QED BY <2>1, <1>2, Followed
<1> HIDE DEF abc
<1>6. IsStaged = Len(a) /\ IsPublished = Len(ab)
  BY <1>4 DEF IsStaged, IsPublished, Follows, a, b
<1>7. CreationEntries \cup Journals \cup A \cup Journals \cup M = CreationEntries
  <2>1. Journals \subseteq CreationEntries
    BY DEF Journals, CreationEntries
  <2>2. A \cup M \subseteq CreationEntries
    BY CreationPlacings, FinalStates
       DEF A, M, Finals, AuthorityObjects, ManifestObjects, Authorities
  <2> QED BY <2>1, <2>2
<1>8. \A i \in 1 .. IsStaged : abc[i] = CreationStaging[i]
  BY <1>4, <1>5, <1>6 DEF Follows, a
<1>9. \A i \in 1 .. Len(abc) : i > IsStaged =>
          abc[i] \in Journals \cup (IF i <= IsPublished THEN A ELSE M)
  BY <1>4, <1>5, <1>6 DEF Follows
<1>10. \A e \in A : \E i \in 1 .. IsPublished : i > IsStaged /\ abc[i] = e
  BY <1>4, <1>5, <1>6 DEF Follows
<1>11. \A e \in M : \E i \in 1 .. Len(abc) : i > IsPublished /\ abc[i] = e
  BY <1>4, <1>5, <1>6 DEF Follows
<1>12. /\ abc \in Seq(CreationEntries) /\ Len(abc) \in Nat
       /\ IsStaged \in Nat /\ IsPublished \in Nat
       /\ 5 <= IsStaged /\ IsStaged <= IsPublished /\ IsPublished <= Len(abc)
  BY <1>1, <1>4, <1>5, <1>6, <1>7 DEF Follows
<1> QED BY <1>3, <1>8, <1>9, <1>10, <1>11, <1>12 DEF A, M

------------------------------------------------------------------------------
(* The plan of a withdrawal.                                                  *)

(* How each object of a creation is withdrawn.                               *)
WithdrawalOf(o) ==
    CASE o[1] = "entry" -> Withdraw(o, {"after"}, "before")
      [] o[1] = "grant" -> Withdraw(o, {"absent", "reserved", "consumed"}, "abandoned")
      [] o = RootManifest /\ creating = "intermediate" -> Withdraw(o, {"absent"}, "published")
      [] OTHER -> Withdraw(o, {"published"}, "absent")
Withdrawals(O) == {WithdrawalOf(o) : o \in O}
WithdrawnObjects ==
    {Authority(creating), Room(creating), Grant(creating), RootManifest}
        \cup (IF creating = "intermediate"
              THEN {ActiveManifest} \cup {RootEntry(k) : k \in Keys \ Kept} ELSE {})

(* What each object of a creation is withdrawn from and to.                  *)
LEMMA WithdrawalsAre ==
    ASSUME creating \in Authorities
    PROVE  /\ WithdrawalOf(Authority(creating)) = Withdraw(Authority(creating), {"published"}, "absent")
           /\ WithdrawalOf(Room(creating)) = Withdraw(Room(creating), {"published"}, "absent")
           /\ WithdrawalOf(Grant(creating)) =
                  Withdraw(Grant(creating), {"absent", "reserved", "consumed"}, "abandoned")
           /\ \A k \in Keys : WithdrawalOf(RootEntry(k)) = Withdraw(RootEntry(k), {"after"}, "before")
           /\ WithdrawalOf(ActiveManifest) = Withdraw(ActiveManifest, {"published"}, "absent")
           /\ creating = "root" =>
                  WithdrawalOf(RootManifest) = Withdraw(RootManifest, {"published"}, "absent")
           /\ creating = "intermediate" =>
                  WithdrawalOf(RootManifest) = Withdraw(RootManifest, {"absent"}, "published")
BY DEF WithdrawalOf, Authority, Room, Grant, RootEntry, ActiveManifest, RootManifest,
  Authorities

(* It withdraws these objects, a manifest first.                              *)
LEMMA WithdrawalIs ==
    ASSUME creating \in Authorities
    PROVE  /\ Consists(Withdrawal, {}, Withdrawals(WithdrawnObjects))
           /\ Withdrawal[1].object = IF creating = "root" THEN RootManifest ELSE ActiveManifest
<1> DEFINE last == << Withdraw(Authority(creating), {"published"}, "absent"),
                      Withdraw(Room(creating), {"published"}, "absent"),
                      Withdraw(Grant(creating), {"absent", "reserved", "consumed"}, "abandoned") >>
           first == << Withdraw(RootManifest, {"published"}, "absent") >>
           manifests == << Withdraw(ActiveManifest, {"published"}, "absent"),
                           Withdraw(RootManifest, {"absent"}, "published") >>
           database == [i \in 1 .. Len(DatabaseKeys) |->
                            Withdraw(RootEntry(DatabaseKeys[i]), {"after"}, "before")]
           Common == Withdrawals({Authority(creating), Room(creating), Grant(creating)})
           Entries == Withdrawals({RootEntry(k) : k \in Keys \ Kept})
<1>1. Consists(last, {}, Common)
  BY WithdrawalsAre DEF Consists, Withdrawals
<1>2. Consists(database, {}, Entries)
  <2>1. \A k \in Keys \ Kept : Withdraw(RootEntry(k), {"after"}, "before") \in Entries
    BY WithdrawalsAre DEF Withdrawals
  <2>2. database \in [1 .. Len(DatabaseKeys) -> Entries] /\ Len(DatabaseKeys) \in Nat
    BY <2>1, DatabaseFacts
  <2>3. \A e \in Entries : \E k \in Keys \ Kept : e = Withdraw(RootEntry(k), {"after"}, "before")
    BY WithdrawalsAre DEF Withdrawals
  <2>4. \A e \in Entries : \E i \in 1 .. Len(DatabaseKeys) : database[i] = e
    BY <2>3, DatabaseFacts
  <2> HIDE DEF database, Entries
  <2>5. database \in Seq(Entries) /\ Len(database) = Len(DatabaseKeys)
    BY <2>2, Tabulated
  <2> QED BY <2>4, <2>5 DEF Consists
<1> HIDE DEF last, database, Common, Entries
<1>3. CASE creating = "root"
  <2>1. Withdrawal = first \o last
    BY <1>3 DEF Withdrawal, last
  <2>2. Consists(first, {}, Withdrawals({RootManifest}))
    BY <1>3, WithdrawalsAre DEF Consists, Withdrawals
  <2>3. first \in Seq(Withdrawals({RootManifest})) /\ Len(first) = 1 /\ first[1].object = RootManifest
    BY <2>2 DEF Consists, Withdraw
  <2> HIDE DEF first
  <2> DEFINE r == first \o last
  <2>4. Consists(r, {}, Withdrawals({RootManifest}) \cup Common)
    BY <1>1, <2>2, ConsistsJoined
  <2>5. Follows(r, Withdrawals({RootManifest}), {}, Common, first, last)
    BY <1>1, <2>3, Followed
  <2> HIDE DEF r
  <2>6. r[1] = first[1]
    BY <2>3, <2>5 DEF Follows
  <2>7. Withdrawals({RootManifest}) \cup Common = Withdrawals(WithdrawnObjects)
    BY <1>3 DEF Withdrawals, WithdrawnObjects, Common
  <2> QED BY <1>3, <2>1, <2>3, <2>4, <2>6, <2>7 DEF r
<1>4. CASE creating = "intermediate"
  <2> DEFINE W == Withdrawals({ActiveManifest, RootManifest})
  <2>1. Withdrawal = (manifests \o database) \o last
    BY <1>4 DEF Withdrawal, last, database
  <2>2. Consists(manifests, {}, W)
    BY <1>4, WithdrawalsAre DEF Consists, Withdrawals
  <2>3. manifests \in Seq(W) /\ Len(manifests) = 2 /\ manifests[1].object = ActiveManifest
    BY <2>2 DEF Consists, Withdraw
  <2> HIDE DEF manifests, W
  <2> DEFINE q == manifests \o database
             r == q \o last
  <2>4. Consists(q, {}, W \cup Entries)
    BY <1>2, <2>2, ConsistsJoined
  <2>5. Follows(q, W, {}, Entries, manifests, database)
    BY <1>2, <2>3, Followed
  <2> HIDE DEF q
  <2>6. q \in Seq(W \cup Entries) /\ Len(q) >= 2 /\ q[1] = manifests[1]
    BY <2>3, <2>5 DEF Follows
  <2>7. Consists(r, {}, (W \cup Entries) \cup Common)
    BY <1>1, <2>4, ConsistsJoined
  <2>8. Follows(r, W \cup Entries, {}, Common, q, last)
    BY <1>1, <2>6, Followed
  <2> HIDE DEF r
  <2>9. r[1] = q[1]
    BY <2>6, <2>8 DEF Follows
  <2>10. W \cup Entries \cup Common = Withdrawals(WithdrawnObjects)
    BY <1>4 DEF Withdrawals, WithdrawnObjects, Common, Entries, W
  <2> QED BY <1>4, <2>1, <2>3, <2>6, <2>7, <2>9, <2>10 DEF q, r
<1> QED BY <1>3, <1>4 DEF Authorities

------------------------------------------------------------------------------
(* The plans of a migration and of its recoveries.                            *)

Records == {Record(phase) : phase \in MigrationPhases}

(* What an object of a migration becomes, and the entry that makes it so.     *)
FinalPlace(o) == IF o[1] = "reservation" THEN "consumed" ELSE "published"
Publication(o) ==
    Publish(o, IF o[1] = "reservation" THEN "reserved" ELSE "original", FinalPlace(o))
Publications(O) == {Publication(o) : o \in O}
Reserves == {Reserve(a) : a \in Authorities}

PublishedObjects ==
    {Tree(a) : a \in Authorities} \cup {Config(a) : a \in Authorities}
        \cup {Issuer(s) : s \in Services} \cup {Quarantine(q) : q \in QuarantineNames}
        \cup {Reservation(a) : a \in Authorities}

(* The objects of a migration are told apart by their kind.                  *)
LEMMA MigrationObjects ==
    /\ Objects = PublishedObjects \cup {Session, Active, Provenance}
    /\ \A a \in Authorities : /\ Tree(a)[1] = "tree" /\ Config(a)[1] = "config"
                              /\ Reservation(a)[1] = "reservation"
    /\ \A s \in Services : Issuer(s)[1] = "issuer"
    /\ \A q \in QuarantineNames : Quarantine(q)[1] = "quarantine"
    /\ Session[1] = "session" /\ Active[1] = "active" /\ Provenance[1] = "provenance"
    /\ Session \notin PublishedObjects /\ Active \notin PublishedObjects
    /\ Provenance \notin PublishedObjects
    /\ Active # Session /\ Active # Provenance /\ Session # Provenance
<1>1. \A o \in PublishedObjects : o[1] \in {"tree", "config", "issuer", "quarantine", "reservation"}
  BY DEF PublishedObjects, Tree, Config, Issuer, Quarantine, Reservation
<1>2. Objects = PublishedObjects \cup {Session, Active, Provenance}
  BY DEF Objects, PublishedObjects
<1> QED BY <1>1, <1>2
    DEF Tree, Config, Issuer, Quarantine, Reservation, Session, Active, Provenance

(* A sequence of objects becomes a sequence of their publications.            *)
LEMMA AllPublished ==
    ASSUME NEW S, NEW s \in Seq(S), \A o \in S : o[1] # "reservation",
           \A o \in S : \E i \in 1 .. Len(s) : s[i] = o
    PROVE  Consists(PublishAll(s), Records, Publications(S))
<1> DEFINE r == PublishAll(s)
<1>1. \A o \in S : Publish(o, "original", "published") = Publication(o)
  BY DEF Publication, FinalPlace
<1>2. r \in [1 .. Len(s) -> Publications(S)] /\ Len(s) \in Nat
  BY <1>1 DEF PublishAll, Publications
<1>3. r \in Seq(Publications(S)) /\ Len(r) = Len(s)
  BY <1>2, Tabulated
<1>4. \A e \in Publications(S) : \E i \in 1 .. Len(s) : r[i] = e
  BY <1>1 DEF PublishAll, Publications
<1> QED BY <1>3, <1>4 DEF Consists

(* There are finitely many of the named objects.                              *)
LEMMA NamesFinite ==
    /\ IsFiniteSet({Issuer(s) : s \in Services})
    /\ IsFiniteSet({Quarantine(q) : q \in QuarantineNames})
<1>1. IsFiniteSet({Issuer(s) : s \in Services})
  <2> DEFINE f == [s \in Services |-> Issuer(s)]
  <2>1. f \in Surjection(Services, {Issuer(s) : s \in Services})
    BY DEF Surjection
  <2> QED BY <2>1, NamesAssumption, FS_Surjection
<1>2. IsFiniteSet({Quarantine(q) : q \in QuarantineNames})
  <2> DEFINE f == [q \in QuarantineNames |-> Quarantine(q)]
  <2>1. f \in Surjection(QuarantineNames, {Quarantine(q) : q \in QuarantineNames})
    BY DEF Surjection
  <2> QED BY <2>1, NamesAssumption, FS_Surjection
<1> QED BY <1>1, <1>2

(* The issuers and the quarantined files are all of them.                     *)
LEMMA NamedObjects ==
    /\ Consists(PublishAll(Issuers), Records, Publications({Issuer(s) : s \in Services}))
    /\ Consists(PublishAll(Quarantines), Records,
                Publications({Quarantine(q) : q \in QuarantineNames}))
<1>1. IsFiniteSet({Issuer(s) : s \in Services})
  BY NamesFinite
<1>2. IsFiniteSet({Quarantine(q) : q \in QuarantineNames})
  BY NamesFinite
<1>3. Consists(PublishAll(Issuers), Records, Publications({Issuer(s) : s \in Services}))
  BY <1>1, SequenceOfSet, AllPublished DEF Issuers, Issuer
<1>4. Consists(PublishAll(Quarantines), Records,
                Publications({Quarantine(q) : q \in QuarantineNames}))
  BY <1>2, SequenceOfSet, AllPublished DEF Quarantines, Quarantine
<1> QED BY <1>3, <1>4

(* What is published between the reservations and the active manifest.       *)
LEMMA PublishingIs == Consists(Publishing, Records, Publications(PublishedObjects))
<1> DEFINE first == << Publish(Tree("root"), "original", "published"), Record("root-renamed"),
                Publish(Tree("intermediate"), "original", "published"),
                Record("intermediate-renamed"),
                Publish(Config("root"), "original", "published"),
                Publish(Config("intermediate"), "original", "published"),
                Record("configs-published") >>
           done == << Record("issuers-published") >>
           last == << Record("quarantined"), Consume("root"), Consume("intermediate"),
                      Record("active-pending") >>
           F == Publications({Tree(a) : a \in Authorities} \cup {Config(a) : a \in Authorities})
           C == Publications({Reservation(a) : a \in Authorities})
           I == Publications({Issuer(s) : s \in Services})
           Q == Publications({Quarantine(q) : q \in QuarantineNames})
<1>1. \A p \in MigrationPhases : Record(p) \in Records
  BY DEF Records
<1>2. \A a \in Authorities :
          /\ Publication(Tree(a)) = Publish(Tree(a), "original", "published")
          /\ Publication(Config(a)) = Publish(Config(a), "original", "published")
          /\ Publication(Reservation(a)) = Consume(a)
  BY MigrationObjects DEF Publication, FinalPlace, Consume
<1>3. Consists(first, Records, F)
  <2>1. F = {Publish(Tree("root"), "original", "published"),
             Publish(Tree("intermediate"), "original", "published"),
             Publish(Config("root"), "original", "published"),
             Publish(Config("intermediate"), "original", "published")}
    BY <1>2 DEF Publications, Authorities
  <2> QED BY <1>1, <2>1 DEF Consists, MigrationPhases
<1>4. Consists(last, Records, C)
  <2>1. C = {Consume("root"), Consume("intermediate")}
    BY <1>2 DEF Publications, Authorities
  <2> QED BY <1>1, <2>1 DEF Consists, MigrationPhases
<1>5. Consists(done, Records, {})
  BY <1>1 DEF Consists, MigrationPhases
<1>6. Consists(PublishAll(Issuers), Records, I) /\ Consists(PublishAll(Quarantines), Records, Q)
  BY NamedObjects
<1>7. Publishing = (((first \o PublishAll(Issuers)) \o done) \o PublishAll(Quarantines)) \o last
  BY DEF Publishing
<1>8. ((F \cup I \cup {}) \cup Q) \cup C = Publications(PublishedObjects)
  BY DEF Publications, PublishedObjects
<1> HIDE DEF first, done, last, F, C, I, Q
<1>9. Consists((first \o PublishAll(Issuers)) \o done, Records, F \cup I \cup {})
  <2>1. Consists(first \o PublishAll(Issuers), Records, F \cup I)
    BY <1>3, <1>6, ConsistsJoined
  <2> QED BY <2>1, <1>5, ConsistsJoined
<1>10. Consists((((first \o PublishAll(Issuers)) \o done) \o PublishAll(Quarantines)) \o last,
                Records, ((F \cup I \cup {}) \cup Q) \cup C)
  <2>1. Consists(((first \o PublishAll(Issuers)) \o done) \o PublishAll(Quarantines), Records,
                 (F \cup I \cup {}) \cup Q)
    BY <1>9, <1>6, ConsistsJoined
  <2> QED BY <2>1, <1>4, ConsistsJoined
<1> QED BY <1>7, <1>8, <1>10

MigrationEntries == Records \cup Reserves \cup Publications(Objects)

(* The order of a migration: nothing is consumed up to c, the active manifest  *)
(* is published at l, what it names before and its provenance after it.      *)
Ordered(p, c, l) ==
    /\ p \in Seq(MigrationEntries) /\ c \in Nat /\ l \in Nat /\ Len(p) \in Nat
    /\ 0 < c /\ c < l /\ l < Len(p)
    /\ \A i \in 1 .. Len(p) :
          \/ p[i] \in Records
          \/ i <= c /\ p[i] \in Reserves \cup {Publication(Session)}
          \/ c < i /\ i < l /\ p[i] \in Publications(PublishedObjects)
          \/ i = l /\ p[i] = Publication(Active)
          \/ l < i /\ p[i] = Publication(Provenance)
    /\ \A o \in Objects \ {Active, Provenance} :
          \E i \in 1 .. Len(p) : i < l /\ p[i] = Publication(o)
    /\ p[l] = Publication(Active)
    /\ \E i \in 1 .. Len(p) : l < i /\ p[i] = Publication(Provenance)

(* The part of the plan that the command and a resume share.                  *)
LEMMA ForwardIs ==
    /\ Forward \in Seq(MigrationEntries) /\ Len(Forward) \in Nat /\ Len(Forward) > 4
    /\ \A i \in 1 .. Len(Forward) :
          \/ Forward[i] \in Records
          \/ i <= 4 /\ Forward[i] \in Reserves \cup {Publication(Session)}
          \/ 4 < i /\ i < Len(Forward) /\ Forward[i] \in Publications(PublishedObjects)
          \/ i = Len(Forward) /\ Forward[i] = Publication(Active)
    /\ \A o \in Objects \ {Active, Provenance} :
          \E i \in 1 .. Len(Forward) : i < Len(Forward) /\ Forward[i] = Publication(o)
    /\ Forward[Len(Forward)] = Publication(Active)
<1> DEFINE a == Reserving
           b == Publishing
           c == << Publish(Active, "original", "published") >>
           ab == a \o b
           abc == ab \o c
           J == Reserves \cup {Publication(Session)}
           P == Publications(PublishedObjects)
           Z == {Publication(Active)}
<1>1. /\ Publication(Session) = Publish(Session, "original", "published")
      /\ Publication(Active) = Publish(Active, "original", "published")
  BY MigrationObjects DEF Publication, FinalPlace
<1>2. /\ a \in Seq(Records \cup J) /\ Len(a) = 4
      /\ a[1] = Publication(Session) /\ \A i \in 1 .. 4 : a[i] \in Records \cup J
  BY <1>1 DEF Reserving, Records, Reserves, MigrationPhases, Authorities
<1>3. Consists(b, Records, P) /\ Consists(c, {}, Z)
  <2>1. Consists(c, {}, Z)
    BY <1>1 DEF Consists
  <2> QED BY <2>1, PublishingIs
<1>4. Len(c) = 1
  OBVIOUS
<1>5. Forward = abc
  BY DEF Forward
<1> HIDE DEF a, b, c, J, P, Z
<1>6. Follows(ab, Records \cup J, Records, P, a, b)
  BY <1>2, <1>3, Followed
<1> HIDE DEF ab
<1>7. Follows(abc, (Records \cup J) \cup Records \cup P, {}, Z, ab, c)
  <2>1. ab \in Seq((Records \cup J) \cup Records \cup P)
    BY <1>6 DEF Follows
  <2> QED BY <2>1, <1>3, Followed
<1> HIDE DEF abc
<1>8. Len(ab) \in Nat /\ Len(ab) >= 4 /\ Len(abc) = Len(ab) + 1
  BY <1>2, <1>4, <1>6, <1>7 DEF Follows
<1>9. abc \in Seq(MigrationEntries)
  <2>1. ((Records \cup J) \cup Records \cup P) \cup {} \cup Z \subseteq MigrationEntries
    BY MigrationObjects DEF MigrationEntries, J, P, Z, Publications
  <2> QED BY <2>1, <1>7 DEF Follows
<1>10. \A i \in 1 .. Len(abc) :
          \/ abc[i] \in Records
          \/ i <= 4 /\ abc[i] \in J
          \/ 4 < i /\ i < Len(abc) /\ abc[i] \in P
          \/ i = Len(abc) /\ abc[i] \in Z
  <2> SUFFICES ASSUME NEW i \in 1 .. Len(abc)
               PROVE  \/ abc[i] \in Records
                      \/ i <= 4 /\ abc[i] \in J
                      \/ 4 < i /\ i < Len(abc) /\ abc[i] \in P
                      \/ i = Len(abc) /\ abc[i] \in Z
    OBVIOUS
  <2>1. CASE i <= 4
    <3>1. abc[i] = ab[i] /\ ab[i] = a[i] /\ i \in 1 .. 4
      BY <2>1, <1>2, <1>6, <1>7, <1>8 DEF Follows
    <3> QED BY <3>1, <1>2
  <2>2. CASE 4 < i /\ i <= Len(ab)
    <3>1. abc[i] = ab[i] /\ ab[i] \in Records \cup P
      BY <2>2, <1>2, <1>6, <1>7, <1>8 DEF Follows
    <3> QED BY <3>1, <2>2, <1>8
  <2>3. CASE i = Len(abc)
    BY <2>3, <1>7, <1>8 DEF Follows
  <2> QED BY <2>1, <2>2, <2>3, <1>8
<1>11. \A e \in P : \E i \in 1 .. Len(abc) : i < Len(abc) /\ abc[i] = e
  BY <1>6, <1>7, <1>8 DEF Follows
<1>12. abc[1] = Publication(Session) /\ abc[Len(abc)] = Publication(Active)
  <2>1. abc[1] = ab[1] /\ ab[1] = a[1]
    BY <1>2, <1>6, <1>7, <1>8 DEF Follows
  <2>2. abc[Len(abc)] \in Z
    BY <1>7, <1>8 DEF Follows
  <2> QED BY <2>1, <2>2, <1>2 DEF Z
<1>13. ASSUME NEW o \in Objects \ {Active, Provenance}
       PROVE  \E i \in 1 .. Len(abc) : i < Len(abc) /\ abc[i] = Publication(o)
  <2>1. CASE o = Session
    <3>1. 1 \in 1 .. Len(abc) /\ 1 < Len(abc)
      BY <1>8
    <3> QED BY <2>1, <3>1, <1>12
  <2>2. CASE o \in PublishedObjects
    BY <2>2, <1>11 DEF P, Publications
  <2> QED BY <2>1, <2>2, MigrationObjects
<1> QED BY <1>5, <1>8, <1>9, <1>10, <1>12, <1>13 DEF J, P, Z

(* The plan of the command.                                                   *)
LEMMA PlanIs == Ordered(Plan, 5, Len(Forward) + 1)
<1> DEFINE r == << Record("pre-mutation") >>
           t == << Record("active-published"), Publish(Provenance, "original", "published"),
                   Record("provenance-published") >>
           f == Forward
           q == r \o f
           p == q \o t
           Z == {Publication(Provenance)}
<1>1. Publication(Provenance) = Publish(Provenance, "original", "published")
  BY MigrationObjects DEF Publication, FinalPlace
<1>2. \A ph \in MigrationPhases : Record(ph) \in Records
  BY DEF Records
<1>3. r \in Seq(Records) /\ r \in Seq(MigrationEntries) /\ Len(r) = 1 /\ r[1] \in Records
  BY <1>2 DEF MigrationPhases, MigrationEntries
<1>4. Consists(t, Records, Z) /\ Len(t) = 3
  BY <1>1, <1>2 DEF Consists, MigrationPhases
<1>5. /\ f \in Seq(MigrationEntries) /\ Len(f) \in Nat /\ Len(f) > 4
      /\ \A i \in 1 .. Len(f) :
            \/ f[i] \in Records
            \/ i <= 4 /\ f[i] \in Reserves \cup {Publication(Session)}
            \/ 4 < i /\ i < Len(f) /\ f[i] \in Publications(PublishedObjects)
            \/ i = Len(f) /\ f[i] = Publication(Active)
      /\ \A o \in Objects \ {Active, Provenance} :
            \E i \in 1 .. Len(f) : i < Len(f) /\ f[i] = Publication(o)
      /\ f[Len(f)] = Publication(Active)
  BY ForwardIs
<1>6. Plan = p
  BY DEF Plan
<1> HIDE DEF r, t, f
<1>7. Joins(q, MigrationEntries, r, f)
  BY <1>3, <1>5, Joined
<1> HIDE DEF q, Z
<1>8. Follows(p, MigrationEntries, Records, Z, q, t)
  <2>1. q \in Seq(MigrationEntries)
    BY <1>7 DEF Joins
  <2> QED BY <2>1, <1>4, Followed
<1> HIDE DEF p
<1>9. /\ Len(q) = Len(f) + 1 /\ Len(p) = Len(f) + 4
      /\ q[1] = r[1] /\ \A i \in 1 .. Len(f) : q[1 + i] = f[i]
  BY <1>3, <1>4, <1>5, <1>7, <1>8 DEF Joins, Follows
<1>10. \A i \in 1 .. Len(f) : i + 1 \in 1 .. Len(p) /\ p[i + 1] = f[i]
  BY <1>5, <1>8, <1>9 DEF Follows
<1>11. p \in Seq(MigrationEntries)
  <2>1. MigrationEntries \cup Records \cup Z = MigrationEntries
    BY DEF MigrationEntries, Z, Publications, Objects
  <2> QED BY <2>1, <1>8 DEF Follows
<1>12. ASSUME NEW i \in 1 .. Len(p)
       PROVE  \/ p[i] \in Records
              \/ i <= 5 /\ p[i] \in Reserves \cup {Publication(Session)}
              \/ 5 < i /\ i < Len(f) + 1 /\ p[i] \in Publications(PublishedObjects)
              \/ i = Len(f) + 1 /\ p[i] = Publication(Active)
              \/ Len(f) + 1 < i /\ p[i] = Publication(Provenance)
  <2>1. CASE i = 1
    BY <2>1, <1>3, <1>5, <1>8, <1>9 DEF Follows
  <2>2. CASE 1 < i /\ i <= Len(f) + 1
    <3>1. i - 1 \in 1 .. Len(f) /\ p[i] = f[i - 1]
      <4>1. i - 1 \in 1 .. Len(f) /\ (i - 1) + 1 = i
        BY <2>2, <1>5
      <4> QED BY <4>1, <1>10
    <3> QED BY <3>1, <2>2, <1>5
  <2>3. CASE i > Len(f) + 1
    BY <2>3, <1>5, <1>8, <1>9 DEF Follows, Z
  <2> QED BY <2>1, <2>2, <2>3, <1>5
<1>13. ASSUME NEW o \in Objects \ {Active, Provenance}
       PROVE  \E i \in 1 .. Len(p) : i < Len(f) + 1 /\ p[i] = Publication(o)
  <2>1. PICK i \in 1 .. Len(f) : i < Len(f) /\ f[i] = Publication(o)
    BY <1>5
  <2>2. i + 1 \in 1 .. Len(p) /\ i + 1 < Len(f) + 1 /\ p[i + 1] = Publication(o)
    BY <2>1, <1>5, <1>10
  <2> QED BY <2>2
<1>14. p[Len(f) + 1] = Publication(Active)
  <2>1. Len(f) \in 1 .. Len(f)
    BY <1>5
  <2> QED BY <2>1, <1>5, <1>10
<1>15. \E i \in 1 .. Len(p) : Len(f) + 1 < i /\ p[i] = Publication(Provenance)
  BY <1>8, <1>9 DEF Follows, Z
<1>16. 5 < Len(f) + 1 /\ Len(f) + 1 < Len(p) /\ Len(p) \in Nat /\ Len(f) + 1 \in Nat
  BY <1>5, <1>9
<1> QED BY <1>6, <1>11, <1>12, <1>13, <1>14, <1>15, <1>16 DEF Ordered, f

(* What a resume repeats of it.                                               *)
Remaining == Forward \o << Publish(Provenance, "original", "published") >>

(* What a resumed migration repeats, in its order.                           *)
LEMMA RemainingIs == Ordered(Remaining, 4, Len(Forward)) /\ Len(Remaining) = Len(Forward) + 1
<1> DEFINE t == << Publish(Provenance, "original", "published") >>
           f == Forward
           p == f \o t
           Z == {Publication(Provenance)}
<1>1. Publication(Provenance) = Publish(Provenance, "original", "published")
  BY MigrationObjects DEF Publication, FinalPlace
<1>4. Consists(t, {}, Z) /\ Len(t) = 1
  BY <1>1 DEF Consists
<1>5. /\ f \in Seq(MigrationEntries) /\ Len(f) \in Nat /\ Len(f) > 4
      /\ \A i \in 1 .. Len(f) :
            \/ f[i] \in Records
            \/ i <= 4 /\ f[i] \in Reserves \cup {Publication(Session)}
            \/ 4 < i /\ i < Len(f) /\ f[i] \in Publications(PublishedObjects)
            \/ i = Len(f) /\ f[i] = Publication(Active)
      /\ \A o \in Objects \ {Active, Provenance} :
            \E i \in 1 .. Len(f) : i < Len(f) /\ f[i] = Publication(o)
      /\ f[Len(f)] = Publication(Active)
  BY ForwardIs
<1>6. Remaining = p
  BY DEF Remaining
<1> HIDE DEF t, f, Z
<1>8. Follows(p, MigrationEntries, {}, Z, f, t)
  BY <1>4, <1>5, Followed
<1> HIDE DEF p
<1>9. Len(p) = Len(f) + 1 /\ \A i \in 1 .. Len(f) : i \in 1 .. Len(p) /\ p[i] = f[i]
  BY <1>4, <1>5, <1>8 DEF Follows
<1>11. p \in Seq(MigrationEntries)
  <2>1. MigrationEntries \cup {} \cup Z = MigrationEntries
    BY DEF MigrationEntries, Z, Publications, Objects
  <2> QED BY <2>1, <1>8 DEF Follows
<1>12. ASSUME NEW i \in 1 .. Len(p)
       PROVE  \/ p[i] \in Records
              \/ i <= 4 /\ p[i] \in Reserves \cup {Publication(Session)}
              \/ 4 < i /\ i < Len(f) /\ p[i] \in Publications(PublishedObjects)
              \/ i = Len(f) /\ p[i] = Publication(Active)
              \/ Len(f) < i /\ p[i] = Publication(Provenance)
  <2>2. CASE i <= Len(f)
    <3>1. i \in 1 .. Len(f) /\ p[i] = f[i]
      BY <2>2, <1>5, <1>9
    <3> QED BY <3>1, <1>5
  <2>3. CASE i > Len(f)
    BY <2>3, <1>5, <1>8, <1>9 DEF Follows, Z
  <2> QED BY <2>2, <2>3, <1>5
<1>13. ASSUME NEW o \in Objects \ {Active, Provenance}
       PROVE  \E i \in 1 .. Len(p) : i < Len(f) /\ p[i] = Publication(o)
  <2>1. PICK i \in 1 .. Len(f) : i < Len(f) /\ f[i] = Publication(o)
    BY <1>5
  <2> QED BY <2>1, <1>9
<1>14. p[Len(f)] = Publication(Active)
  <2>1. Len(f) \in 1 .. Len(f)
    BY <1>5
  <2> QED BY <2>1, <1>5, <1>9
<1>15. \E i \in 1 .. Len(p) : Len(f) < i /\ p[i] = Publication(Provenance)
  BY <1>8, <1>9 DEF Follows, Z
<1>16. 4 < Len(f) /\ Len(f) < Len(p) /\ Len(p) \in Nat /\ Len(p) = Len(f) + 1
  BY <1>5, <1>9
<1> QED BY <1>6, <1>11, <1>12, <1>13, <1>14, <1>15, <1>16 DEF Ordered, f

(* The entries of the plans of a migration.                                   *)
LEMMA MigrationEntryKinds ==
    ASSUME NEW e \in MigrationEntries
    PROVE  \/ e.kind = "record" /\ e \in Records /\ e.phase \in MigrationPhases
           \/ /\ e.kind = "publish" /\ e \notin Records
              /\ e.object \in Objects /\ e.to \in Places(e.object) /\ e.to # "removed"
              /\ e \in Reserves \cup {Publication(e.object)}
<1>1. CASE e \in Records
  BY <1>1 DEF Records, Record
<1>2. CASE e \in Reserves
  <2>1. PICK a \in Authorities : e = Reserve(a)
    BY <1>2 DEF Reserves
  <2>2. Reservation(a) \in Objects
    BY MigrationObjects DEF PublishedObjects
  <2> QED BY <1>2, <2>1, <2>2, MigrationObjects DEF Reserve, Publish, Places, Records, Record
<1>3. CASE e \in Publications(Objects)
  <2>1. PICK o \in Objects : e = Publication(o)
    BY <1>3 DEF Publications
  <2>2. e.kind = "publish" /\ e.object = o /\ e.to = FinalPlace(o)
    BY <2>1 DEF Publication, Publish
  <2>3. e.to \in Places(o) /\ e.to # "removed"
    BY <2>2 DEF FinalPlace, Places
  <2>4. e \notin Records
    BY <2>2 DEF Records, Record
  <2> QED BY <2>1, <2>2, <2>3, <2>4
<1> QED BY <1>1, <1>2, <1>3 DEF MigrationEntries

(* The entries of a resume: each is due in one state.                        *)
LEMMA ResumePlanIs ==
    /\ Len(ResumePlan) = Len(Remaining)
    /\ \A i \in 1 .. Len(Remaining) :
          \/ Remaining[i] \in Records /\ ResumePlan[i] = Remaining[i]
          \/ /\ Remaining[i] \notin Records
             /\ ResumePlan[i] = Undo(Remaining[i].object, {Remaining[i].from}, Remaining[i].to)
<1> DEFINE f == Remaining
<1>1. f \in Seq(MigrationEntries) /\ Len(f) \in Nat
  BY RemainingIs DEF Ordered
<1>2. ResumePlan = [i \in 1 .. Len(f) |->
           IF f[i].kind = "record" THEN f[i]
           ELSE Undo(f[i].object, {f[i].from}, f[i].to)]
  BY DEF ResumePlan, Remaining
<1> HIDE DEF f
<1>3. Len(ResumePlan) = Len(f)
  BY <1>1, <1>2
<1>4. ASSUME NEW i \in 1 .. Len(f)
      PROVE  \/ f[i] \in Records /\ ResumePlan[i] = f[i]
             \/ f[i] \notin Records /\ ResumePlan[i] = Undo(f[i].object, {f[i].from}, f[i].to)
  <2>1. f[i] \in MigrationEntries
    BY <1>1
  <2>2. CASE f[i].kind = "record"
    BY <2>1, <2>2, <1>2, MigrationEntryKinds
  <2>3. CASE f[i].kind # "record"
    <3>1. f[i] \notin Records /\ f[i].kind = "publish"
      BY <2>1, <2>3, MigrationEntryKinds
    <3> QED BY <3>1, <2>3, <1>2
  <2> QED BY <2>2, <2>3
<1> QED BY <1>3, <1>4 DEF f

(* How a rollback undoes each object.                                         *)
UndoOf(o) ==
    CASE o[1] = "config" -> Undo(o, {"published"}, "rollback")
      [] o[1] = "reservation" -> Undo(o, {"original", "reserved", "consumed"}, "rollback")
      [] o[1] = "provenance" -> Undo(o, {"original", "published", "partial"}, "removed")
      [] OTHER -> Unpublish(o)
Undoings(O) == {UndoOf(o) : o \in O}

(* How each object of a migration is undone.                                 *)
LEMMA UndoIs ==
    /\ \A a \in Authorities : /\ UndoOf(Tree(a)) = Unpublish(Tree(a))
                              /\ UndoOf(Config(a)) = RestoreConfig(a)
                              /\ UndoOf(Reservation(a)) = Abandon(a)
    /\ \A s \in Services : UndoOf(Issuer(s)) = Unpublish(Issuer(s))
    /\ \A q \in QuarantineNames : UndoOf(Quarantine(q)) = Unpublish(Quarantine(q))
    /\ UndoOf(Session) = Unpublish(Session) /\ UndoOf(Active) = Unpublish(Active)
    /\ UndoOf(Provenance) = Undo(Provenance, {"original", "published", "partial"}, "removed")
BY DEF UndoOf, RestoreConfig, Abandon, Tree, Config, Reservation, Issuer, Quarantine, Session,
       Active, Provenance

(* What unpublishes a sequence of objects.                                   *)
LEMMA AllUnpublished ==
    ASSUME NEW S, NEW s \in Seq(S), \A o \in S : UndoOf(o) = Unpublish(o),
           \A o \in S : \E i \in 1 .. Len(s) : s[i] = o
    PROVE  Consists(UnpublishAll(s), {}, Undoings(S))
<1> DEFINE r == UnpublishAll(s)
<1>1. r \in [1 .. Len(s) -> Undoings(S)] /\ Len(s) \in Nat
  BY DEF UnpublishAll, Undoings
<1>2. r \in Seq(Undoings(S)) /\ Len(r) = Len(s)
  BY <1>1, Tabulated
<1>3. \A e \in Undoings(S) : \E i \in 1 .. Len(s) : r[i] = e
  BY DEF UnpublishAll, Undoings
<1> QED BY <1>2, <1>3 DEF Consists

(* The issuers and the stray files are undone one by one.                    *)
LEMMA NamedUndone ==
    /\ Consists(UnpublishAll(Issuers), {}, Undoings({Issuer(s) : s \in Services}))
    /\ Consists(UnpublishAll(Quarantines), {}, Undoings({Quarantine(q) : q \in QuarantineNames}))
<1>1. /\ IsFiniteSet({Issuer(s) : s \in Services})
      /\ IsFiniteSet({Quarantine(q) : q \in QuarantineNames})
  BY NamesFinite
<1>2. Consists(UnpublishAll(Issuers), {}, Undoings({Issuer(s) : s \in Services}))
  BY <1>1, SequenceOfSet, AllUnpublished, UndoIs DEF Issuers
<1>3. Consists(UnpublishAll(Quarantines), {}, Undoings({Quarantine(q) : q \in QuarantineNames}))
  BY <1>1, SequenceOfSet, AllUnpublished, UndoIs DEF Quarantines
<1> QED BY <1>2, <1>3

(* The rollback of a migration takes the active manifest first and the         *)
(* provenance last.                                                          *)
LEMMA RollbackPlanIs ==
    /\ RollbackPlan \in Seq(Undoings(Objects)) /\ Len(RollbackPlan) \in Nat /\ Len(RollbackPlan) > 1
    /\ RollbackPlan[1] = UndoOf(Active)
    /\ \A i \in 1 .. Len(RollbackPlan) : RollbackPlan[i].object = Provenance => i = Len(RollbackPlan)
    /\ RollbackPlan[Len(RollbackPlan)] = UndoOf(Provenance)
    /\ \A o \in Objects \ {Provenance} :
          \E i \in 1 .. Len(RollbackPlan) : i < Len(RollbackPlan) /\ RollbackPlan[i] = UndoOf(o)
<1> DEFINE a == << Unpublish(Active) >>
           b == UnpublishAll(Issuers)
           c == UnpublishAll(Quarantines)
           d == << RestoreConfig("root"), RestoreConfig("intermediate"),
                   Unpublish(Tree("intermediate")), Unpublish(Tree("root")),
                   Abandon("root"), Abandon("intermediate"), Unpublish(Session) >>
           e == << Undo(Provenance, {"original", "published", "partial"}, "removed") >>
           A == Undoings({Active})
           B == Undoings({Issuer(s) : s \in Services})
           C == Undoings({Quarantine(q) : q \in QuarantineNames})
           D == Undoings({Config(x) : x \in Authorities} \cup {Tree(x) : x \in Authorities}
                            \cup {Reservation(x) : x \in Authorities} \cup {Session})
           E == Undoings({Provenance})
           p == a \o b
           q == p \o c
           r == q \o d
           u == r \o e
<1>1. Consists(a, {}, A) /\ Len(a) = 1
  BY UndoIs DEF Consists, Undoings
<1>2. Consists(b, {}, B) /\ Consists(c, {}, C)
  BY NamedUndone
<1>3. Consists(d, {}, D)
  <2>1. D = {RestoreConfig("root"), RestoreConfig("intermediate"),
             Unpublish(Tree("intermediate")), Unpublish(Tree("root")),
             Abandon("root"), Abandon("intermediate"), Unpublish(Session)}
    BY UndoIs DEF Undoings, Authorities
  <2> QED BY <2>1 DEF Consists
<1>4. Consists(e, {}, E) /\ Len(e) = 1
  BY UndoIs DEF Consists, Undoings
<1>5. RollbackPlan = u
  BY DEF RollbackPlan
<1>6. A \cup B \cup C \cup D = Undoings(Objects \ {Provenance})
  BY MigrationObjects DEF Undoings, PublishedObjects
<1> HIDE DEF a, b, c, d, e, A, B, C, D, E
<1>7. Follows(p, A, {}, B, a, b) /\ Consists(p, {}, A \cup B)
  <2>1. a \in Seq(A)
    BY <1>1 DEF Consists
  <2>2. Consists(p, {}, A \cup B)
    BY <1>1, <1>2, ConsistsJoined
  <2>3. Follows(p, A, {}, B, a, b)
    BY <2>1, <1>2, Followed
  <2> QED BY <2>2, <2>3
<1> HIDE DEF p
<1>8. Follows(q, A \cup B, {}, C, p, c) /\ Consists(q, {}, (A \cup B) \cup C)
  <2>1. p \in Seq(A \cup B)
    BY <1>7 DEF Consists
  <2>2. Consists(q, {}, (A \cup B) \cup C)
    BY <1>7, <1>2, ConsistsJoined
  <2>3. Follows(q, A \cup B, {}, C, p, c)
    BY <2>1, <1>2, Followed
  <2> QED BY <2>2, <2>3
<1> HIDE DEF q
<1> DEFINE G == ((A \cup B) \cup C) \cup D
<1>9. Follows(r, (A \cup B) \cup C, {}, D, q, d) /\ Consists(r, {}, G)
  <2>1. q \in Seq((A \cup B) \cup C)
    BY <1>8 DEF Consists
  <2>2. Consists(r, {}, G)
    BY <1>8, <1>3, ConsistsJoined
  <2>3. Follows(r, (A \cup B) \cup C, {}, D, q, d)
    BY <2>1, <1>3, Followed
  <2> QED BY <2>2, <2>3
<1> HIDE DEF r, G
<1>10. Follows(u, G, {}, E, r, e)
  <2>1. r \in Seq(G)
    BY <1>9 DEF Consists
  <2> QED BY <2>1, <1>4, Followed
<1> HIDE DEF u
<1>11. /\ Len(u) = Len(r) + 1 /\ Len(r) >= 1 /\ Len(r) \in Nat
       /\ u[1] = r[1] /\ r[1] = q[1] /\ q[1] = p[1] /\ p[1] = a[1]
  BY <1>1, <1>4, <1>7, <1>8, <1>9, <1>10 DEF Follows
<1>12. a[1] = UndoOf(Active) /\ E = {UndoOf(Provenance)}
  <2>1. E = {UndoOf(Provenance)}
    BY DEF E, Undoings
  <2>2. A = {UndoOf(Active)}
    BY DEF A, Undoings
  <2> QED BY <2>1, <2>2, <1>1 DEF Consists
<1>13. G = Undoings(Objects \ {Provenance}) /\ G \cup {} \cup E = Undoings(Objects)
  BY <1>6, <1>12 DEF G, Undoings, Objects
<1>14. \A i \in 1 .. Len(u) : i = Len(u) \/ u[i] \in Undoings(Objects \ {Provenance})
  <2> SUFFICES ASSUME NEW i \in 1 .. Len(u), i # Len(u)
               PROVE  u[i] \in Undoings(Objects \ {Provenance})
    OBVIOUS
  <2>1. i \in 1 .. Len(r)
    BY <1>11
  <2>2. u[i] = r[i] /\ r[i] \in G
    BY <2>1, <1>9, <1>10 DEF Follows, Consists
  <2> QED BY <2>2, <1>13
<1>15. \A o \in Objects \ {Provenance} : \E i \in 1 .. Len(u) : i < Len(u) /\ u[i] = UndoOf(o)
  <2> SUFFICES ASSUME NEW o \in Objects \ {Provenance}
               PROVE  \E i \in 1 .. Len(u) : i < Len(u) /\ u[i] = UndoOf(o)
    OBVIOUS
  <2>1. UndoOf(o) \in G
    BY <1>13 DEF Undoings
  <2>2. PICK i \in 1 .. Len(r) : r[i] = UndoOf(o)
    BY <2>1, <1>9 DEF Consists
  <2>3. i \in 1 .. Len(u) /\ i < Len(u) /\ u[i] = r[i]
    BY <1>10, <1>11 DEF Follows
  <2> QED BY <2>2, <2>3
<1>16. \A o : UndoOf(o).object = o
  BY DEF UndoOf, Undo, Unpublish
<1>17. u[Len(u)] = UndoOf(Provenance)
  BY <1>10, <1>11, <1>12 DEF Follows
<1> QED
  <2>1. u \in Seq(Undoings(Objects))
    BY <1>10, <1>13 DEF Follows
  <2>2. \A i \in 1 .. Len(u) : u[i].object = Provenance => i = Len(u)
    BY <1>14, <1>16 DEF Undoings
  <2> QED BY <1>5, <1>11, <1>12, <1>15, <1>17, <2>1, <2>2

------------------------------------------------------------------------------
(* The plans of a preparation and of its recoveries.                          *)

(* The parts of a preparation are told apart by their kind.                  *)
LEMMA PartObjects ==
    /\ \A a \in Authorities : /\ Reserved(a) \in Parts /\ Reserved(a)[1] = "reservation"
                              /\ Candidate(a) \in Parts /\ Candidate(a)[1] = "candidate"
    /\ \A k \in Keys : DbEntry(k) \in Parts /\ DbEntry(k)[1] = "database" /\ DbEntry(k)[2] = k
    /\ {BackupSession, State, Pointer, Stage, RootCopy, Directory} \subseteq Parts
    /\ BackupSession[1] = "session" /\ State[1] = "state" /\ Pointer[1] = "pointer"
    /\ Stage[1] = "stage" /\ RootCopy[1] = "root copy" /\ Directory[1] = "transaction"
<1>1. ASSUME NEW a \in Authorities
      PROVE  /\ Reserved(a) \in Parts /\ Reserved(a)[1] = "reservation"
             /\ Candidate(a) \in Parts /\ Candidate(a)[1] = "candidate"
  <2>1. {Reserved(a), Candidate(a)} \subseteq Parts
    BY DEF Parts
  <2> QED BY <2>1 DEF Reserved, Candidate
<1>2. ASSUME NEW k \in Keys
      PROVE  DbEntry(k) \in Parts /\ DbEntry(k)[1] = "database" /\ DbEntry(k)[2] = k
  BY DEF Parts, DbEntry
<1>3. {BackupSession, State, Pointer, Stage, RootCopy, Directory} \subseteq Parts
  BY DEF Parts
<1> QED BY <1>1, <1>2, <1>3 DEF BackupSession, State, Pointer, Stage, RootCopy, Directory

(* The entries of the database that the type of the preparation publishes.    *)
LEMMA IssuedIs ==
    ASSUME type \in Types
    PROVE  /\ Issued \in Seq(Database \ Kept) /\ Len(Issued) \in Nat /\ Database \subseteq Keys
           /\ \A i \in 1 .. Len(Issued) : Issued[i] \in Database \ Kept
           /\ \A k \in Database \ Kept : \E i \in 1 .. Len(Issued) : Issued[i] = k
BY DatabaseFacts DEF Issued, Database, Types

(* What a part of a preparation becomes after staging.                        *)
FinalPart(o) ==
    CASE o[1] = "reservation" -> "consumed"
      [] o[1] = "database" -> "after"
      [] o[1] = "root copy" -> "absent"
      [] OTHER -> "published"
Changes(O) == {Change(o, FinalPart(o)) : o \in O}

(* Where a preparation leaves each part.                                     *)
LEMMA FinalPartIs ==
    /\ \A a \in Authorities : /\ FinalPart(Candidate(a)) = "published"
                              /\ FinalPart(Reserved(a)) = "consumed"
    /\ \A k \in Keys : FinalPart(DbEntry(k)) = "after"
    /\ FinalPart(RootCopy) = "absent" /\ FinalPart(State) = "published"
BY PartObjects DEF FinalPart

DatabaseParts == {DbEntry(k) : k \in Database \ Kept}
Candidates == {Candidate(a) : a \in TypeAuthorities}
Reservations == {Reserved(a) : a \in TypeAuthorities}
CopyParts == IF type = "intermediate" THEN {RootCopy} ELSE {}
CandidateParts == Candidates \cup Reservations \cup DatabaseParts \cup CopyParts \cup {State}
Notes == {Note(phase) : phase \in PreparationPhases}

(* The candidates and the reservations are parts of their kind.               *)
LEMMA AuthorityParts ==
    /\ \A o \in Candidates : o \in Parts /\ o[1] = "candidate"
    /\ \A o \in Reservations : o \in Parts /\ o[1] = "reservation"
<1>1. \A a \in TypeAuthorities : a \in Authorities
  BY DEF TypeAuthorities, Authorities
<1>2. \A a \in TypeAuthorities : /\ Candidate(a) \in Parts /\ Candidate(a)[1] = "candidate"
                                  /\ Reserved(a) \in Parts /\ Reserved(a)[1] = "reservation"
  BY <1>1, PartObjects
<1> QED BY <1>2 DEF Candidates, Reservations

(* The staging of a preparation, entry by entry.                             *)
LEMMA StagingIs ==
    ASSUME type \in Types
    PROVE  /\ Len(PreparationStaging) = IF type = "root" THEN 11 ELSE 10
           /\ PreparationStaging[1] = Note("planned")
           /\ PreparationStaging[2] = Change(Directory, "staged")
           /\ PreparationStaging[3] = Change(State, "staged")
           /\ PreparationStaging[4] = Fill
           /\ PreparationStaging[5] = Note("transaction-staged")
           /\ PreparationStaging[6] = Change(BackupSession, "published")
           /\ type = "root" => /\ PreparationStaging[7] = Change(Reserved("root"), "reserved")
                               /\ PreparationStaging[8] = Change(Reserved("intermediate"), "reserved")
                               /\ PreparationStaging[9] = Note("reserved")
                               /\ PreparationStaging[10] = Change(Stage, "staged")
                               /\ PreparationStaging[11] = Note("staged")
           /\ type # "root" => /\ PreparationStaging[7] = Change(Reserved("intermediate"), "reserved")
                               /\ PreparationStaging[8] = Note("reserved")
                               /\ PreparationStaging[9] = Change(Stage, "staged")
                               /\ PreparationStaging[10] = Note("staged")
BY DEF PreparationStaging, ForRoot, Types

StagingEntries ==
    Notes \cup {Fill, Change(Directory, "staged"), Change(State, "staged"), Change(Stage, "staged"),
                Change(BackupSession, "published"), Change(Reserved("root"), "reserved"),
                Change(Reserved("intermediate"), "reserved")}

(* Each entry of the staging is a note, a fill or a change.                  *)
LEMMA StagingTyped ==
    ASSUME type \in Types
    PROVE  PreparationStaging \in Seq(StagingEntries)
<1>1. \A phase \in PreparationPhases : Note(phase) \in StagingEntries
  BY DEF StagingEntries, Notes
<1>2. /\ Note("planned") \in StagingEntries /\ Note("transaction-staged") \in StagingEntries
      /\ Note("reserved") \in StagingEntries /\ Note("staged") \in StagingEntries
  BY <1>1 DEF PreparationPhases
<1>3. /\ Change(Directory, "staged") \in StagingEntries /\ Change(State, "staged") \in StagingEntries
      /\ Fill \in StagingEntries /\ Change(BackupSession, "published") \in StagingEntries
      /\ Change(Reserved("root"), "reserved") \in StagingEntries
      /\ Change(Reserved("intermediate"), "reserved") \in StagingEntries
      /\ Change(Stage, "staged") \in StagingEntries
  BY DEF StagingEntries
<1>4. CASE type = "root"
  BY <1>2, <1>3, <1>4 DEF PreparationStaging, ForRoot
<1>5. CASE type = "intermediate"
  BY <1>2, <1>3, <1>5 DEF PreparationStaging, ForRoot
<1> QED BY <1>4, <1>5 DEF Types

(* What follows the staging up to the pointer.                                *)
LEMMA PublicationIs ==
    ASSUME type \in Types
    PROVE  Consists(CandidatePublication, {}, Changes(CandidateParts))
<1> DEFINE a == ForRoot(<< Change(Candidate("root"), "published") >>)
           b == << Change(Candidate("intermediate"), "published") >>
           c == [i \in 1 .. Len(Issued) |-> Change(DbEntry(Issued[i]), "after")]
           d == ForRoot(<< Change(Reserved("root"), "consumed") >>)
           e == << Change(Reserved("intermediate"), "consumed") >>
           f == IF type = "intermediate" THEN << Change(RootCopy, "absent") >> ELSE << >>
           g == << Change(State, "published") >>
           R == IF type = "root" THEN {"root"} ELSE {}
           A == Changes({Candidate(x) : x \in R})
           B == Changes({Candidate("intermediate")})
           C == Changes(DatabaseParts)
           D == Changes({Reserved(x) : x \in R})
           E == Changes({Reserved("intermediate")})
           F == Changes(CopyParts)
           G == Changes({State})
<1>1. /\ \A x \in Authorities : /\ FinalPart(Candidate(x)) = "published"
                                /\ FinalPart(Reserved(x)) = "consumed"
      /\ \A k \in Keys : FinalPart(DbEntry(k)) = "after"
      /\ FinalPart(RootCopy) = "absent" /\ FinalPart(State) = "published"
  BY FinalPartIs
<1>2. Consists(a, {}, A) /\ Consists(d, {}, D)
  <2>1. CASE type = "root"
    <3>1. A = {Change(Candidate("root"), "published")} /\ D = {Change(Reserved("root"), "consumed")}
      BY <2>1, <1>1 DEF Changes, Authorities
    <3>2. a = << Change(Candidate("root"), "published") >> /\ d = << Change(Reserved("root"), "consumed") >>
      BY <2>1 DEF ForRoot
    <3> HIDE DEF a, d, A, D
    <3> QED BY <3>1, <3>2 DEF Consists
  <2>2. CASE type # "root"
    <3>1. A = {} /\ D = {}
      BY <2>2 DEF Changes
    <3>2. a = << >> /\ d = << >>
      BY <2>2 DEF ForRoot
    <3> HIDE DEF a, d, A, D
    <3> QED BY <3>1, <3>2 DEF Consists
  <2> QED BY <2>1, <2>2
<1>3. Consists(b, {}, B) /\ Consists(e, {}, E) /\ Consists(g, {}, G)
  BY <1>1 DEF Consists, Changes, Authorities
<1>4. Consists(f, {}, F)
  <2>1. CASE type = "intermediate"
    <3>1. F = {Change(RootCopy, "absent")} /\ f = << Change(RootCopy, "absent") >>
      BY <2>1, <1>1 DEF Changes, CopyParts
    <3> HIDE DEF f, F
    <3> QED BY <3>1 DEF Consists
  <2>2. CASE type # "intermediate"
    <3>1. F = {} /\ f = << >>
      BY <2>2 DEF Changes, CopyParts
    <3> HIDE DEF f, F
    <3> QED BY <3>1 DEF Consists
  <2> QED BY <2>1, <2>2
<1>5. Consists(c, {}, C)
  <2>1. \A k \in Database \ Kept : Change(DbEntry(k), "after") \in C
    BY <1>1, IssuedIs DEF Changes, DatabaseParts
  <2>2. c \in [1 .. Len(Issued) -> C] /\ Len(Issued) \in Nat
    BY <2>1, IssuedIs
  <2>3. \A x \in C : \E k \in Database \ Kept : x = Change(DbEntry(k), "after")
    BY <1>1, IssuedIs DEF Changes, DatabaseParts
  <2>4. \A x \in C : \E i \in 1 .. Len(Issued) : c[i] = x
    BY <2>3, IssuedIs
  <2> HIDE DEF c, C
  <2>5. c \in Seq(C) /\ Len(c) = Len(Issued)
    BY <2>2, Tabulated
  <2> QED BY <2>4, <2>5 DEF Consists
<1>6. CandidatePublication = (((((a \o b) \o c) \o d) \o e) \o f) \o g
  BY DEF CandidatePublication
<1>7. (((((A \cup B) \cup C) \cup D) \cup E) \cup F) \cup G = Changes(CandidateParts)
  BY DEF Changes, CandidateParts, Candidates, Reservations, TypeAuthorities, Authorities
<1> HIDE DEF a, b, c, d, e, f, g, A, B, C, D, E, F, G
<1>8. Consists((a \o b) \o c, {}, (A \cup B) \cup C)
  <2>1. Consists(a \o b, {}, A \cup B)
    BY <1>2, <1>3, ConsistsJoined
  <2> QED BY <2>1, <1>5, ConsistsJoined
<1>9. Consists((((a \o b) \o c) \o d) \o e, {}, (((A \cup B) \cup C) \cup D) \cup E)
  <2>1. Consists(((a \o b) \o c) \o d, {}, ((A \cup B) \cup C) \cup D)
    BY <1>2, <1>8, ConsistsJoined
  <2> QED BY <2>1, <1>3, ConsistsJoined
<1>10. Consists((((((a \o b) \o c) \o d) \o e) \o f) \o g, {},
                (((((A \cup B) \cup C) \cup D) \cup E) \cup F) \cup G)
  <2>1. Consists(((((a \o b) \o c) \o d) \o e) \o f, {}, ((((A \cup B) \cup C) \cup D) \cup E) \cup F)
    BY <1>4, <1>9, ConsistsJoined
  <2> QED BY <2>1, <1>3, ConsistsJoined
<1> QED BY <1>6, <1>7, <1>10

(* The plan of the command: the staging, the candidate, last the pointer.     *)
LEMMA PreparationPlanIs ==
    ASSUME type \in Types
    PROVE  /\ Len(PreparationStaging) \in {10, 11} /\ Len(PreparationPlan) \in Nat
           /\ Len(PreparationPlan) > Len(PreparationStaging)
           /\ \A i \in 1 .. Len(PreparationStaging) :
                 /\ PreparationPlan[i] = PreparationStaging[i]
                 /\ PreparationPlan[i] \in StagingEntries
           /\ \A i \in 1 .. Len(PreparationPlan) : i > Len(PreparationStaging) =>
                 IF i = Len(PreparationPlan) THEN PreparationPlan[i] = Change(Pointer, "published")
                 ELSE PreparationPlan[i] \in Changes(CandidateParts)
           /\ \A o \in CandidateParts : \E i \in 1 .. Len(PreparationPlan) :
                 /\ i > Len(PreparationStaging) /\ i < Len(PreparationPlan)
                 /\ PreparationPlan[i] = Change(o, FinalPart(o))
<1> DEFINE a == PreparationStaging
           b == CandidatePublication
           c == << Change(Pointer, "published") >>
           ab == a \o b
           p == ab \o c
           C == Changes(CandidateParts)
           Z == {Change(Pointer, "published")}
<1>1. a \in Seq(StagingEntries) /\ Len(a) \in {10, 11}
  BY StagingIs, StagingTyped
<1>2. Consists(b, {}, C) /\ Consists(c, {}, Z) /\ Len(c) = 1
  <2>1. Consists(c, {}, Z) /\ Len(c) = 1
    BY DEF Consists
  <2> QED BY <2>1, PublicationIs
<1>3. PreparationPlan = p
  BY DEF PreparationPlan
<1> HIDE DEF a, b, c, C, Z
<1>4. Follows(ab, StagingEntries, {}, C, a, b)
  BY <1>1, <1>2, Followed
<1> HIDE DEF ab
<1>5. Follows(p, StagingEntries \cup {} \cup C, {}, Z, ab, c)
  <2>1. ab \in Seq(StagingEntries \cup {} \cup C)
    BY <1>4 DEF Follows
  <2> QED BY <2>1, <1>2, Followed
<1> HIDE DEF p
<1>6. /\ Len(p) = Len(ab) + 1 /\ Len(ab) = Len(a) + Len(b) /\ Len(a) \in Nat /\ Len(b) \in Nat
  BY <1>2, <1>4, <1>5 DEF Follows
<1>7. ASSUME NEW i \in 1 .. Len(a) PROVE p[i] = a[i] /\ p[i] \in StagingEntries
  <2>1. p[i] = ab[i] /\ ab[i] = a[i]
    BY <1>4, <1>5, <1>6 DEF Follows
  <2> QED BY <2>1, <1>1
<1>8. ASSUME NEW i \in 1 .. Len(p), i > Len(a)
      PROVE  IF i = Len(p) THEN p[i] = Change(Pointer, "published") ELSE p[i] \in C
  <2>1. CASE i = Len(p)
    BY <2>1, <1>5, <1>6 DEF Follows, Z
  <2>2. CASE i # Len(p)
    <3>1. i \in 1 .. Len(ab)
      BY <2>2, <1>6
    <3>2. p[i] = ab[i] /\ ab[i] \in C
      BY <3>1, <1>8, <1>4, <1>5 DEF Follows
    <3> QED BY <2>2, <3>2
  <2> QED BY <2>1, <2>2
<1>9. ASSUME NEW o \in CandidateParts
      PROVE  \E i \in 1 .. Len(p) : i > Len(a) /\ i < Len(p) /\ p[i] = Change(o, FinalPart(o))
  <2>1. Change(o, FinalPart(o)) \in C
    BY DEF C, Changes
  <2>2. PICK i \in 1 .. Len(ab) : i > Len(a) /\ ab[i] = Change(o, FinalPart(o))
    BY <2>1, <1>4 DEF Follows
  <2>3. i \in 1 .. Len(p) /\ i < Len(p) /\ p[i] = ab[i]
    BY <2>2, <1>5, <1>6 DEF Follows
  <2> QED BY <2>2, <2>3
<1>10. Len(p) \in Nat /\ Len(p) > Len(a)
  BY <1>6
<1> QED BY <1>1, <1>3, <1>7, <1>8, <1>9, <1>10 DEF a, C

(* The states of the parts.                                                   *)
LEMMA StatesOfParts ==
    /\ \A a \in Authorities :
          /\ PartStates(Reserved(a)) = {"absent", "reserved", "consumed", "abandoned"}
          /\ PartStates(Candidate(a)) = {"absent", "staged", "published", "partial"}
    /\ \A k \in Keys : PartStates(DbEntry(k)) = {"before", "after", "restored"}
    /\ PartStates(BackupSession) = {"absent", "published"}
    /\ PartStates(Pointer) = {"absent", "published"}
    /\ \A o \in {State, Stage, RootCopy, Directory} :
          PartStates(o) = {"absent", "staged", "published", "partial"}
BY PartObjects DEF PartStates

(* The entries of the plan.                                                   *)
LEMMA PreparationEntryKinds ==
    ASSUME type \in Types, NEW i \in 1 .. Len(PreparationPlan)
    PROVE  LET e == PreparationPlan[i]
           IN  \/ e.kind = "note" /\ e.phase \in PreparationPhases
               \/ e.kind = "fill"
               \/ /\ e.kind = "change" /\ e.object \in Parts /\ e.to \in PartStates(e.object)
                  /\ e.to \notin {"before", "restored", "abandoned", "partial"}
<1> DEFINE e == PreparationPlan[i]
           Good(o, to) == /\ o \in Parts /\ to \in PartStates(o)
                          /\ to \notin {"before", "restored", "abandoned", "partial"}
<1>1. CASE e \in Notes
  BY <1>1 DEF Notes, Note
<1>2. \A o, to : Good(o, to) /\ e = Change(o, to) => e.kind = "change" /\ Good(e.object, e.to)
  BY DEF Change
<1>3. /\ Good(Directory, "staged") /\ Good(State, "staged") /\ Good(Stage, "staged")
      /\ Good(BackupSession, "published") /\ Good(Reserved("root"), "reserved")
      /\ Good(Reserved("intermediate"), "reserved") /\ Good(Pointer, "published")
  BY PartObjects, StatesOfParts DEF Authorities
<1>4. \A o \in CandidateParts : Good(o, FinalPart(o))
  <2>1. ASSUME NEW a \in Authorities
        PROVE  Good(Candidate(a), FinalPart(Candidate(a))) /\ Good(Reserved(a), FinalPart(Reserved(a)))
    <3>1. FinalPart(Candidate(a)) = "published" /\ FinalPart(Reserved(a)) = "consumed"
      BY FinalPartIs
    <3>2. Candidate(a) \in Parts /\ Reserved(a) \in Parts
      BY PartObjects
    <3>3. /\ PartStates(Reserved(a)) = {"absent", "reserved", "consumed", "abandoned"}
          /\ PartStates(Candidate(a)) = {"absent", "staged", "published", "partial"}
      BY StatesOfParts
    <3> QED BY <3>1, <3>2, <3>3
  <2>2. ASSUME NEW k \in Keys PROVE Good(DbEntry(k), FinalPart(DbEntry(k)))
    <3>1. FinalPart(DbEntry(k)) = "after" /\ DbEntry(k) \in Parts
      BY FinalPartIs, PartObjects
    <3>2. PartStates(DbEntry(k)) = {"before", "after", "restored"}
      BY StatesOfParts
    <3> QED BY <3>1, <3>2
  <2>3. Good(RootCopy, FinalPart(RootCopy)) /\ Good(State, FinalPart(State))
    BY PartObjects, StatesOfParts, FinalPartIs
  <2> HIDE DEF Good
  <2> QED BY <2>1, <2>2, <2>3, IssuedIs DEF CandidateParts, Candidates, Reservations,
             DatabaseParts, CopyParts, TypeAuthorities, Authorities
<1>5. CASE e \in Changes(CandidateParts)
  <2>1. PICK o \in CandidateParts : e = Change(o, FinalPart(o))
    BY <1>5 DEF Changes
  <2> QED BY <2>1, <1>2, <1>4
<1>6. CASE e \in StagingEntries
  <2>1. CASE e = Fill
    BY <2>1 DEF Fill
  <2> QED BY <2>1, <1>1, <1>2, <1>3, <1>6 DEF StagingEntries
<1> QED BY <1>2, <1>3, <1>5, <1>6, PreparationPlanIs

(* x is the first entry of s.                                                *)
Leads(s, x) == Len(s) \in Nat /\ Len(s) >= 1 /\ s[1] = x

(* What leads a sequence leads what it is joined to.                         *)
LEMMA LeadsJoined ==
    ASSUME NEW J, NEW Q, NEW P, NEW s, NEW t, NEW x, Leads(s, x),
           Consists(s, J, Q), Consists(t, J, P)
    PROVE  Leads(s \o t, x)
<1> DEFINE r == s \o t
<1>1. s \in Seq(J \cup Q)
  BY DEF Consists
<1>2. Follows(r, J \cup Q, J, P, s, t)
  BY <1>1, Followed
<1> HIDE DEF r
<1>3. Leads(r, x)
  BY <1>2 DEF Leads, Follows
<1> QED BY <1>3 DEF r

(* How a rollback takes each part back.                                       *)
RepairOf(o) ==
    CASE o[1] = "database" -> Fix(o, {"after"}, IF o[2] \in Created THEN "before" ELSE "restored")
      [] o[1] = "reservation" -> Fix(o, {"absent", "reserved", "consumed"}, "abandoned")
      [] o[1] = "state" -> Fix(o, {"staged", "published"}, "absent")
      [] o[1] = "stage" -> Fix(o, {"staged", "partial"}, "absent")
      [] OTHER -> Fix(o, {"published"}, "absent")
Repairings(O) == {RepairOf(o) : o \in O}

(* How each part is rolled back.                                             *)
LEMMA RepairIs ==
    /\ \A a \in Authorities : /\ RepairOf(Reserved(a)) = Release(a)
                              /\ RepairOf(Candidate(a)) = Fix(Candidate(a), {"published"}, "absent")
    /\ \A k \in Keys : RepairOf(DbEntry(k)) = Restore(k)
    /\ RepairOf(State) = Fix(State, {"staged", "published"}, "absent")
    /\ RepairOf(Stage) = Fix(Stage, {"staged", "partial"}, "absent")
    /\ RepairOf(Pointer) = Fix(Pointer, {"published"}, "absent")
    /\ RepairOf(BackupSession) = Fix(BackupSession, {"published"}, "absent")
BY PartObjects DEF RepairOf, Release, Restore

RolledBack == {Pointer, State, Stage} \cup Candidates \cup DatabaseParts

(* The rollback of a candidate, in its order.                                *)
LEMMA CandidateRollbackIs ==
    ASSUME type \in Types
    PROVE  /\ Consists(CandidateRollback, {}, Repairings(RolledBack))
           /\ Leads(CandidateRollback, RepairOf(Pointer))
<1> DEFINE a == << Fix(Pointer, {"published"}, "absent") >>
           b == [i \in 1 .. Len(Issued) |-> Restore(Issued[i])]
           c == << Fix(Candidate("intermediate"), {"published"}, "absent") >>
           d == ForRoot(<< Fix(Candidate("root"), {"published"}, "absent") >>)
           e == << Fix(State, {"staged", "published"}, "absent"),
                   Fix(Stage, {"staged", "partial"}, "absent") >>
           R == IF type = "root" THEN {"root"} ELSE {}
           A == Repairings({Pointer})
           B == Repairings(DatabaseParts)
           C == Repairings({Candidate("intermediate")})
           D == Repairings({Candidate(x) : x \in R})
           E == Repairings({State, Stage})
<1>1. Consists(a, {}, A) /\ Leads(a, RepairOf(Pointer))
  BY RepairIs DEF Consists, Repairings, Leads
<1>2. Consists(c, {}, C) /\ Consists(e, {}, E)
  BY RepairIs DEF Consists, Repairings, Authorities
<1>3. Consists(d, {}, D)
  <2>1. CASE type = "root"
    <3>1. D = {Fix(Candidate("root"), {"published"}, "absent")}
      BY <2>1, RepairIs DEF Repairings, Authorities
    <3>2. d = << Fix(Candidate("root"), {"published"}, "absent") >>
      BY <2>1 DEF ForRoot
    <3> HIDE DEF d, D
    <3> QED BY <3>1, <3>2 DEF Consists
  <2>2. CASE type # "root"
    <3>1. D = {} /\ d = << >>
      BY <2>2 DEF Repairings, ForRoot
    <3> HIDE DEF d, D
    <3> QED BY <3>1 DEF Consists
  <2> QED BY <2>1, <2>2
<1>4. Consists(b, {}, B)
  <2>1. \A k \in Database \ Kept : Restore(k) \in B
    BY RepairIs, IssuedIs DEF Repairings, DatabaseParts
  <2>2. b \in [1 .. Len(Issued) -> B] /\ Len(Issued) \in Nat
    BY <2>1, IssuedIs
  <2>3. \A x \in B : \E k \in Database \ Kept : x = Restore(k)
    BY RepairIs, IssuedIs DEF Repairings, DatabaseParts
  <2>4. \A x \in B : \E i \in 1 .. Len(Issued) : b[i] = x
    BY <2>3, IssuedIs
  <2> HIDE DEF b, B
  <2>5. b \in Seq(B) /\ Len(b) = Len(Issued)
    BY <2>2, Tabulated
  <2> QED BY <2>4, <2>5 DEF Consists
<1>5. CandidateRollback = (((a \o b) \o c) \o d) \o e
  BY DEF CandidateRollback
<1>6. (((A \cup B) \cup C) \cup D) \cup E = Repairings(RolledBack)
  BY DEF Repairings, RolledBack, Candidates, TypeAuthorities, Authorities
<1> HIDE DEF a, b, c, d, e, A, B, C, D, E
<1>7. Consists(a \o b, {}, A \cup B) /\ Leads(a \o b, RepairOf(Pointer))
  BY <1>1, <1>4, ConsistsJoined, LeadsJoined
<1>8. /\ Consists((a \o b) \o c, {}, (A \cup B) \cup C)
      /\ Leads((a \o b) \o c, RepairOf(Pointer))
  BY <1>2, <1>7, ConsistsJoined, LeadsJoined
<1>9. /\ Consists(((a \o b) \o c) \o d, {}, ((A \cup B) \cup C) \cup D)
      /\ Leads(((a \o b) \o c) \o d, RepairOf(Pointer))
  BY <1>3, <1>8, ConsistsJoined, LeadsJoined
<1>10. /\ Consists((((a \o b) \o c) \o d) \o e, {}, (((A \cup B) \cup C) \cup D) \cup E)
       /\ Leads((((a \o b) \o c) \o d) \o e, RepairOf(Pointer))
  BY <1>2, <1>9, ConsistsJoined, LeadsJoined
<1> QED BY <1>5, <1>6, <1>10

(* Both reservations are released, or one.                                   *)
LEMMA ReleasesAre ==
    ASSUME type \in Types
    PROVE  Consists(Releases, {}, Repairings(Reservations))
<1>1. RepairOf(Reserved("root")) = Release("root")
      /\ RepairOf(Reserved("intermediate")) = Release("intermediate")
  BY RepairIs DEF Authorities
<1>2. CASE type = "root"
  <2>1. Repairings(Reservations) = {Release("root"), Release("intermediate")}
    BY <1>1, <1>2 DEF Repairings, Reservations, TypeAuthorities, Authorities
  <2> QED BY <2>1, <1>2 DEF Consists, Releases, ForRoot
<1>3. CASE type = "intermediate"
  <2>1. Repairings(Reservations) = {Release("intermediate")}
    BY <1>1, <1>3 DEF Repairings, Reservations, TypeAuthorities
  <2>2. Releases = << Release("intermediate") >>
    BY <1>3 DEF Releases, ForRoot
  <2> QED BY <2>1, <2>2 DEF Consists
<1> QED BY <1>2, <1>3 DEF Types

EndingParts == Reservations \cup {BackupSession}

(* A rollback of a staged preparation: the pointer first, then what it names,  *)
(* the reservations only when the state is gone.                              *)
LEMMA StagedRollbackIs ==
    ASSUME type \in Types
    PROVE  /\ Len(StagedRollback) \in Nat /\ Len(CandidateRollback) \in Nat
           /\ StagedRollback[1] = RepairOf(Pointer) /\ Len(CandidateRollback) >= 1
           /\ Len(StagedRollback) > Len(CandidateRollback)
           /\ \A i \in 1 .. Len(StagedRollback) :
                 IF i <= Len(CandidateRollback) THEN StagedRollback[i] \in Repairings(RolledBack)
                 ELSE StagedRollback[i] \in Repairings(EndingParts)
           /\ \A o \in RolledBack :
                 \E i \in 1 .. Len(CandidateRollback) : StagedRollback[i] = RepairOf(o)
           /\ \A o \in EndingParts :
                 \E i \in 1 .. Len(StagedRollback) : StagedRollback[i] = RepairOf(o)
<1> DEFINE a == CandidateRollback
           b == Releases
           c == EndSession
           ab == a \o b
           p == ab \o c
           A == Repairings(RolledBack)
           B == Repairings(Reservations)
           C == Repairings({BackupSession})
<1>1. Consists(a, {}, A) /\ Leads(a, RepairOf(Pointer))
  BY CandidateRollbackIs
<1>2. Consists(b, {}, B) /\ Consists(c, {}, C) /\ Len(c) = 1
  <2>1. Consists(c, {}, C) /\ Len(c) = 1
    BY RepairIs DEF Consists, Repairings, EndSession
  <2> QED BY <2>1, ReleasesAre
<1>3. StagedRollback = p
  BY DEF StagedRollback
<1>4. B \cup C = Repairings(EndingParts)
  BY DEF Repairings, EndingParts
<1> HIDE DEF a, b, c, A, B, C
<1>5. Follows(ab, A, {}, B, a, b)
  <2>1. a \in Seq(A)
    BY <1>1 DEF Consists
  <2> QED BY <2>1, <1>2, Followed
<1> HIDE DEF ab
<1>6. Follows(p, A \cup {} \cup B, {}, C, ab, c)
  <2>1. ab \in Seq(A \cup {} \cup B)
    BY <1>5 DEF Follows
  <2> QED BY <2>1, <1>2, Followed
<1> HIDE DEF p
<1>7. /\ Len(p) = Len(ab) + 1 /\ Len(ab) = Len(a) + Len(b) /\ Len(a) \in Nat /\ Len(b) \in Nat
      /\ Len(a) >= 1 /\ p[1] = RepairOf(Pointer)
  BY <1>1, <1>2, <1>5, <1>6 DEF Follows, Leads
<1>8. ASSUME NEW i \in 1 .. Len(p)
      PROVE  IF i <= Len(a) THEN p[i] \in A ELSE p[i] \in B \cup C
  <2>1. CASE i <= Len(a)
    <3>1. p[i] = ab[i] /\ ab[i] = a[i] /\ i \in 1 .. Len(a)
      BY <2>1, <1>5, <1>6, <1>7 DEF Follows
    <3> QED BY <2>1, <3>1, <1>1 DEF Consists
  <2>2. CASE Len(a) < i /\ i <= Len(ab)
    <3>1. p[i] = ab[i] /\ ab[i] \in B
      BY <2>2, <1>5, <1>6, <1>7 DEF Follows
    <3> QED BY <2>2, <3>1
  <2>3. CASE i > Len(ab)
    BY <2>3, <1>6, <1>7 DEF Follows
  <2> QED BY <2>1, <2>2, <2>3, <1>7
<1>9. ASSUME NEW o \in RolledBack PROVE \E i \in 1 .. Len(a) : p[i] = RepairOf(o)
  <2>1. RepairOf(o) \in A
    BY DEF A, Repairings
  <2>2. PICK i \in 1 .. Len(a) : a[i] = RepairOf(o)
    BY <2>1, <1>1 DEF Consists
  <2>3. p[i] = ab[i] /\ ab[i] = a[i]
    BY <1>5, <1>6, <1>7 DEF Follows
  <2> QED BY <2>2, <2>3
<1>10. ASSUME NEW o \in EndingParts PROVE \E i \in 1 .. Len(p) : p[i] = RepairOf(o)
  <2>1. RepairOf(o) \in B \cup C
    BY <1>4 DEF Repairings
  <2>2. CASE RepairOf(o) \in B
    <3>1. PICK i \in 1 .. Len(ab) : ab[i] = RepairOf(o)
      BY <2>2, <1>5 DEF Follows
    <3>2. i \in 1 .. Len(p) /\ p[i] = ab[i]
      BY <1>6, <1>7 DEF Follows
    <3> QED BY <3>1, <3>2
  <2>3. CASE RepairOf(o) \in C
    BY <2>3, <1>6 DEF Follows
  <2> QED BY <2>1, <2>2, <2>3
<1>11. Len(p) \in Nat /\ Len(p) > Len(a)
  BY <1>7
<1> QED BY <1>3, <1>4, <1>7, <1>8, <1>9, <1>10, <1>11 DEF a, A

(* And of one that is not staged, whose reservations are there once it is filed. *)
LEMMA UnstagedRollbackIs ==
    ASSUME type \in Types
    PROVE  /\ Len(UnstagedRollback) \in Nat
           /\ \A i \in 1 .. Len(UnstagedRollback) :
                 UnstagedRollback[i] \in Repairings(IF Evidence.filed THEN EndingParts ELSE {BackupSession})
           /\ \A o \in (IF Evidence.filed THEN EndingParts ELSE {BackupSession}) :
                 \E i \in 1 .. Len(UnstagedRollback) : UnstagedRollback[i] = RepairOf(o)
<1> DEFINE O == IF Evidence.filed THEN EndingParts ELSE {BackupSession}
           B == Repairings(IF Evidence.filed THEN Reservations ELSE {})
           C == Repairings({BackupSession})
           b == IF Evidence.filed THEN Releases ELSE << >>
           c == EndSession
           p == b \o c
<1>1. Consists(b, {}, B) /\ Consists(c, {}, C)
  <2>1. Consists(c, {}, C)
    BY RepairIs DEF Consists, Repairings, EndSession
  <2>2. CASE Evidence.filed
    BY <2>1, <2>2, ReleasesAre
  <2>3. CASE ~Evidence.filed
    <3>1. B = {} /\ b = << >>
      BY <2>3 DEF Repairings
    <3> HIDE DEF B, b
    <3>2. Consists(b, {}, B)
      BY <3>1 DEF Consists
    <3> QED BY <2>1, <3>2
  <2> QED BY <2>2, <2>3
<1>2. UnstagedRollback = p
  BY DEF UnstagedRollback
<1>3. B \cup C = Repairings(O)
  BY DEF Repairings, EndingParts
<1> HIDE DEF b, c, B, C, O
<1>4. Consists(p, {}, Repairings(O))
  BY <1>1, <1>3, ConsistsJoined
<1> HIDE DEF p
<1>5. /\ Len(p) \in Nat /\ \A i \in 1 .. Len(p) : p[i] \in Repairings(O)
      /\ \A o \in O : \E i \in 1 .. Len(p) : p[i] = RepairOf(o)
  BY <1>4 DEF Consists, Repairings
<1> QED BY <1>2, <1>5 DEF O

(* How a resume completes each part.                                          *)
CompletionOf(o) ==
    CASE o[1] = "database" -> Fix(o, {"before"}, "after")
      [] o[1] = "reservation" -> Fix(o, {"reserved"}, "consumed")
      [] o[1] = "root copy" -> Fix(o, {"staged", "partial"}, "absent")
      [] OTHER -> Move(o)
CompletionsOf(O) == {CompletionOf(o) : o \in O}

(* How each part is carried forward.                                         *)
LEMMA CompletionIs ==
    /\ \A a \in Authorities : /\ CompletionOf(Reserved(a)) = Spend(a)
                              /\ CompletionOf(Candidate(a)) = Move(Candidate(a))
    /\ \A k \in Keys : CompletionOf(DbEntry(k)) = Fix(DbEntry(k), {"before"}, "after")
    /\ CompletionOf(State) = Move(State)
    /\ CompletionOf(RootCopy) = Fix(RootCopy, {"staged", "partial"}, "absent")
BY PartObjects DEF CompletionOf, Spend

Renewals ==
    {Fix(BackupSession, {"absent"}, "published")} \cup {Renew(a) : a \in TypeAuthorities}

(* A resume first renews the backup and the reservations.                    *)
LEMMA RenewalIs == ASSUME type \in Types PROVE Consists(Renewal, {}, Renewals)
<1>1. CASE type = "root"
  <2>1. Renewals = {Fix(BackupSession, {"absent"}, "published"), Renew("root"), Renew("intermediate")}
    BY <1>1 DEF Renewals, TypeAuthorities, Authorities
  <2> QED BY <2>1, <1>1 DEF Consists, Renewal, ForRoot
<1>2. CASE type = "intermediate"
  <2>1. Renewals = {Fix(BackupSession, {"absent"}, "published"), Renew("intermediate")}
    BY <1>2 DEF Renewals, TypeAuthorities, Authorities
  <2> QED BY <2>1, <1>2 DEF Consists, Renewal, ForRoot
<1> QED BY <1>1, <1>2 DEF Types

(* And then carries the candidate forward.                                   *)
LEMMA CandidateResumptionIs ==
    ASSUME type \in Types
    PROVE  Consists(CandidateResumption, {}, CompletionsOf(CandidateParts))
<1> DEFINE a == ForRoot(<< Move(Candidate("root")) >>)
           b == << Move(Candidate("intermediate")) >>
           c == [i \in 1 .. Len(Issued) |-> Fix(DbEntry(Issued[i]), {"before"}, "after")]
           d == ForRoot(<< Spend("root") >>)
           e == << Spend("intermediate") >>
           f == IF type = "intermediate"
                THEN << Fix(RootCopy, {"staged", "partial"}, "absent") >> ELSE << >>
           g == << Move(State) >>
           R == IF type = "root" THEN {"root"} ELSE {}
           A == CompletionsOf({Candidate(x) : x \in R})
           B == CompletionsOf({Candidate("intermediate")})
           C == CompletionsOf(DatabaseParts)
           D == CompletionsOf({Reserved(x) : x \in R})
           E == CompletionsOf({Reserved("intermediate")})
           F == CompletionsOf(CopyParts)
           G == CompletionsOf({State})
<1>2. Consists(a, {}, A) /\ Consists(d, {}, D)
  <2>1. CASE type = "root"
    <3>1. A = {Move(Candidate("root"))} /\ D = {Spend("root")}
      BY <2>1, CompletionIs DEF CompletionsOf, Authorities
    <3>2. a = << Move(Candidate("root")) >> /\ d = << Spend("root") >>
      BY <2>1 DEF ForRoot
    <3> HIDE DEF a, d, A, D
    <3> QED BY <3>1, <3>2 DEF Consists
  <2>2. CASE type # "root"
    <3>1. A = {} /\ D = {} /\ a = << >> /\ d = << >>
      BY <2>2 DEF CompletionsOf, ForRoot
    <3> HIDE DEF a, d, A, D
    <3> QED BY <3>1 DEF Consists
  <2> QED BY <2>1, <2>2
<1>3. Consists(b, {}, B) /\ Consists(e, {}, E) /\ Consists(g, {}, G)
  BY CompletionIs DEF Consists, CompletionsOf, Authorities
<1>4. Consists(f, {}, F)
  <2>1. CASE type = "intermediate"
    <3>1. /\ F = {Fix(RootCopy, {"staged", "partial"}, "absent")}
          /\ f = << Fix(RootCopy, {"staged", "partial"}, "absent") >>
      BY <2>1, CompletionIs DEF CompletionsOf, CopyParts
    <3> HIDE DEF f, F
    <3> QED BY <3>1 DEF Consists
  <2>2. CASE type # "intermediate"
    <3>1. F = {} /\ f = << >>
      BY <2>2 DEF CompletionsOf, CopyParts
    <3> HIDE DEF f, F
    <3> QED BY <3>1 DEF Consists
  <2> QED BY <2>1, <2>2
<1>5. Consists(c, {}, C)
  <2>1. \A k \in Database \ Kept : Fix(DbEntry(k), {"before"}, "after") \in C
    BY CompletionIs, IssuedIs DEF CompletionsOf, DatabaseParts
  <2>2. c \in [1 .. Len(Issued) -> C] /\ Len(Issued) \in Nat
    BY <2>1, IssuedIs
  <2>3. \A x \in C : \E k \in Database \ Kept : x = Fix(DbEntry(k), {"before"}, "after")
    BY CompletionIs, IssuedIs DEF CompletionsOf, DatabaseParts
  <2>4. \A x \in C : \E i \in 1 .. Len(Issued) : c[i] = x
    BY <2>3, IssuedIs
  <2> HIDE DEF c, C
  <2>5. c \in Seq(C) /\ Len(c) = Len(Issued)
    BY <2>2, Tabulated
  <2> QED BY <2>4, <2>5 DEF Consists
<1>6. CandidateResumption = (((((a \o b) \o c) \o d) \o e) \o f) \o g
  BY DEF CandidateResumption
<1>7. (((((A \cup B) \cup C) \cup D) \cup E) \cup F) \cup G = CompletionsOf(CandidateParts)
  BY DEF CompletionsOf, CandidateParts, Candidates, Reservations, TypeAuthorities, Authorities
<1> HIDE DEF a, b, c, d, e, f, g, A, B, C, D, E, F, G
<1>8. Consists((a \o b) \o c, {}, (A \cup B) \cup C)
  <2>1. Consists(a \o b, {}, A \cup B)
    BY <1>2, <1>3, ConsistsJoined
  <2> QED BY <2>1, <1>5, ConsistsJoined
<1>9. Consists((((a \o b) \o c) \o d) \o e, {}, (((A \cup B) \cup C) \cup D) \cup E)
  <2>1. Consists(((a \o b) \o c) \o d, {}, ((A \cup B) \cup C) \cup D)
    BY <1>2, <1>8, ConsistsJoined
  <2> QED BY <2>1, <1>3, ConsistsJoined
<1>10. Consists((((((a \o b) \o c) \o d) \o e) \o f) \o g, {},
                (((((A \cup B) \cup C) \cup D) \cup E) \cup F) \cup G)
  <2>1. Consists(((((a \o b) \o c) \o d) \o e) \o f, {}, ((((A \cup B) \cup C) \cup D) \cup E) \cup F)
    BY <1>4, <1>9, ConsistsJoined
  <2> QED BY <2>1, <1>3, ConsistsJoined
<1> QED BY <1>6, <1>7, <1>10

(* A resume renews the reservations, then completes the candidate and last     *)
(* publishes the pointer.                                                    *)
LEMMA ResumptionIs ==
    ASSUME type \in Types
    PROVE  /\ Len(Resumption) \in Nat /\ Len(Resumption) >= 1
           /\ Resumption[Len(Resumption)] = Fix(Pointer, {"absent"}, "published")
           /\ \A i \in 1 .. Len(Resumption) :
                 \/ i = Len(Resumption)
                 \/ Resumption[i] \in Renewals
                 \/ Resumption[i] \in CompletionsOf(CandidateParts)
           /\ Len(Renewal) \in Nat
           /\ \A i \in 1 .. Len(Resumption) :
                 IF i <= Len(Renewal) THEN Resumption[i] \in Renewals
                 ELSE i # Len(Resumption) => Resumption[i] \in CompletionsOf(CandidateParts)
           /\ \A e \in Renewals \cup CompletionsOf(CandidateParts) :
                 \E i \in 1 .. Len(Resumption) : i < Len(Resumption) /\ Resumption[i] = e
<1> DEFINE a == Renewal
           b == CandidateResumption
           c == << Fix(Pointer, {"absent"}, "published") >>
           ab == a \o b
           p == ab \o c
           A == Renewals
           B == CompletionsOf(CandidateParts)
           C == {Fix(Pointer, {"absent"}, "published")}
<1>1. Consists(a, {}, A) /\ Consists(b, {}, B) /\ Consists(c, {}, C) /\ Len(c) = 1
  <2>1. Consists(c, {}, C) /\ Len(c) = 1
    BY DEF Consists
  <2> QED BY <2>1, RenewalIs, CandidateResumptionIs
<1>2. Resumption = p
  BY DEF Resumption
<1> HIDE DEF a, b, c, A, B, C
<1>3. Consists(ab, {}, A \cup B)
  BY <1>1, ConsistsJoined
<1>10. Follows(ab, A, {}, B, a, b)
  <2>1. a \in Seq(A)
    BY <1>1 DEF Consists
  <2> QED BY <2>1, <1>1, Followed
<1>11. /\ Len(a) \in Nat /\ Len(ab) \in Nat /\ Len(a) <= Len(ab)
       /\ \A i \in 1 .. Len(ab) : IF i <= Len(a) THEN ab[i] \in A ELSE ab[i] \in B
  <2>1. Len(a) \in Nat /\ Len(b) \in Nat /\ Len(ab) = Len(a) + Len(b)
    BY <1>10 DEF Follows
  <2>2. ASSUME NEW i \in 1 .. Len(ab), i <= Len(a) PROVE ab[i] \in A
    <3>1. i \in 1 .. Len(a)
      BY <2>1, <2>2
    <3>2. ab[i] = a[i] /\ a[i] \in A
      BY <3>1, <1>1, <1>10 DEF Follows, Consists
    <3> QED BY <3>2
  <2>3. ASSUME NEW i \in 1 .. Len(ab), ~(i <= Len(a)) PROVE ab[i] \in B
    BY <1>10, <2>1, <2>3 DEF Follows
  <2> QED BY <2>1, <2>2, <2>3
<1> HIDE DEF ab
<1>4. Follows(p, A \cup B, {}, C, ab, c)
  <2>1. ab \in Seq(A \cup B)
    BY <1>3 DEF Consists
  <2> QED BY <2>1, <1>1, Followed
<1> HIDE DEF p
<1>5. Len(p) = Len(ab) + 1 /\ Len(ab) \in Nat
  BY <1>1, <1>4 DEF Follows
<1>6. p[Len(p)] = Fix(Pointer, {"absent"}, "published")
  BY <1>4, <1>5 DEF Follows, C
<1>7. ASSUME NEW i \in 1 .. Len(p), i # Len(p) PROVE p[i] \in A \cup B
  <2>1. i \in 1 .. Len(ab)
    BY <1>5, <1>7
  <2>2. p[i] = ab[i] /\ ab[i] \in A \cup B
    BY <2>1, <1>3, <1>4 DEF Follows, Consists
  <2> QED BY <2>2
<1>8. ASSUME NEW e \in A \cup B PROVE \E i \in 1 .. Len(p) : i < Len(p) /\ p[i] = e
  <2>1. PICK i \in 1 .. Len(ab) : ab[i] = e
    BY <1>3 DEF Consists
  <2>2. i \in 1 .. Len(p) /\ i < Len(p) /\ p[i] = ab[i]
    BY <1>4, <1>5 DEF Follows
  <2> QED BY <2>1, <2>2
<1>12. ASSUME NEW i \in 1 .. Len(p)
       PROVE  IF i <= Len(a) THEN p[i] \in A ELSE i # Len(p) => p[i] \in B
  <2>1. CASE i = Len(p)
    BY <1>5, <1>11, <2>1
  <2>2. CASE i # Len(p)
    <3>1. i \in 1 .. Len(ab)
      BY <1>5, <2>2
    <3>2. p[i] = ab[i]
      BY <3>1, <1>4 DEF Follows
    <3> QED BY <1>11, <3>1, <3>2
  <2> QED BY <2>1, <2>2
<1>13. Len(a) = Len(Renewal) /\ Len(a) \in Nat
  BY <1>11 DEF a
<1>9. Len(p) \in Nat /\ Len(p) >= 1
  BY <1>5
<1> QED BY <1>2, <1>6, <1>7, <1>8, <1>9, <1>12, <1>13 DEF A, B

------------------------------------------------------------------------------
(* Types.                                                                     *)

EvidenceType ==
    [directory : BOOLEAN, filed : BOOLEAN, staged : BOOLEAN, posted : SUBSET (Keys \ Kept),
     restored : SUBSET (Keys \ (Kept \cup Created)), known : SUBSET Creations]
JournalType ==
    [operation : Operations \cup {"none"}, phase : Phases, committed : BOOLEAN,
     action : Actions \cup {"none"}, step : StepType, evidence : EvidenceType]
Marks == {"none", "pending", "made", "done", "committed", "marked", "receipted", "dropped"}
ProcessType ==
    [command : Commands, operation : Operations \cup {"none"}, at : Nat,
     action : Actions \cup {"none"}, step : StepType, mark : Marks]

JournalTyped ==
    /\ journal \in JournalType /\ marker \in BOOLEAN /\ receipt \in BOOLEAN
    /\ process \in ProcessType /\ failures \in 0 .. MaxFailures

CreationTyped ==
    /\ creating \in Authorities \cup {"none"}
    /\ made \in [Creations -> UNION {MadeStates(o) : o \in Creations}]
    /\ \A o \in Creations : made[o] \in MadeStates(o)
    /\ creations \in 0 .. MaxCreations

MigrationTyped ==
    /\ place \in [Objects -> UNION {Places(o) : o \in Objects}]
    /\ \A o \in Objects : place[o] \in Places(o)
    /\ staged \subseteq Staged
    /\ migrations \in 0 .. MaxMigrations

PreparationTyped ==
    /\ type \in Types \cup {"none"}
    /\ part \in [Parts -> UNION {PartStates(o) : o \in Parts}]
    /\ \A o \in Parts : part[o] \in PartStates(o)
    /\ workspace \subseteq Filed \cup StageFiles /\ covered \in BOOLEAN
    /\ \A f \in displaced : f[1] \in Parts /\ f[2] \in PartStates(f[1])
    /\ preparations \in 0 .. MaxPreparations

(* Which command works on what, and whose journal it continues.               *)
Control ==
    /\ process.command = "none" => process = Idle
    /\ process.command # "none" => process.operation \in Operations /\ process.at >= 1
    /\ process.command \in {"create", "abort"} => process.operation \in Bootstraps
    /\ process.command = "migrate" => process.operation = "legacy-migrate"
    /\ process.command = "prepare" => process.operation = "rollover-prepare"
    /\ process.operation \in Bootstraps =>
          creating \in Authorities /\ process.operation = Operation(creating)
    /\ process.operation = "rollover-prepare" => type \in Types
    /\ process.action = IF process.command \in Actions THEN process.command ELSE "none"
    /\ process.command \in Actions /\ process.mark # "dropped" =>
          journal.operation = process.operation
    /\ journal.operation = "none" => journal = NoJournal
    /\ journal.operation \in Bootstraps /\ ~journal.committed =>
          creating \in Authorities /\ journal.operation = Operation(creating)
    /\ journal.operation = "rollover-prepare" => type \in Types

(* How far a command is in its plan.                                          *)
Bounded ==
    /\ Creating => process.at <= Len(CreationPlan) + 2 /\ process.mark = "none"
    /\ Withdrawing => /\ process.at <= Len(Withdrawal) + 2
                      /\ process.mark \in {"none", "pending", "made"}
    /\ Completing => /\ process.at = 1
                     /\ process.mark \in {"none", "pending", "made", "done", "committed", "marked"}
    /\ Writing => process.at <= Len(Plan) + 2 /\ process.mark = "none"
    /\ Recovering => /\ process.at <= Len(RecoveryPlan) + 2
                     /\ process.mark \in {"none", "pending", "made", "done"}
                     /\ process.mark # "none" => RecoveryPlan[process.at].kind = "publish"
    /\ Preparing => /\ process.at <= Len(PreparationPlan) + 1
                    /\ process.mark # "none" => process.at > 1
                    /\ process.mark \in {"committed", "marked", "receipted", "dropped"} =>
                          process.at = Len(PreparationPlan) + 1
                    /\ process.at > 1 /\ process.mark # "dropped" =>
                          journal.operation = process.operation
    /\ Repairing /\ process.mark # "dropped" => process.at <= Len(RepairPlan(process.command)) + 1
    /\ Preparing \/ Repairing => process.mark # "done"

Typed ==
    JournalTyped /\ CreationTyped /\ MigrationTyped /\ PreparationTyped /\ Control /\ Bounded

(* The inductive invariant is at least the type invariant.                   *)
LEMMA TypedImplies == ASSUME Typed PROVE TypeOK
<1>1. /\ journal \in
         [operation : Operations \cup {"none"}, phase : Phases, committed : BOOLEAN,
          action : Actions \cup {"none"}, step : StepType,
          evidence : [directory : BOOLEAN, filed : BOOLEAN, staged : BOOLEAN,
                      posted : SUBSET (Keys \ Kept),
                      restored : SUBSET (Keys \ (Kept \cup Created)),
                      known : SUBSET Creations]]
      /\ process \in [command : Commands, operation : Operations \cup {"none"},
                    at : Nat, action : Actions \cup {"none"}, step : StepType,
                    mark : {"none", "pending", "made", "done", "committed", "marked",
                            "receipted", "dropped"}]
  BY DEF Typed, JournalTyped, JournalType, EvidenceType, ProcessType, Marks
<1>2. process.at \in Nat /\ (process.command = "none" => process.at = 0)
  BY DEF Typed, JournalTyped, ProcessType, Control, Idle
<1>3. process.mark # "dropped" => process.at <= PlanLength + 2
  <2> SUFFICES ASSUME process.mark # "dropped" PROVE process.at <= PlanLength + 2
    OBVIOUS
  <2>0. process.command \in Commands /\ process.operation \in Operations \cup {"none"}
    BY DEF Typed, JournalTyped, ProcessType
  <2>1. CASE Creating
    <3>1. PlanLength = Len(CreationPlan)
      BY <2>1 DEF PlanLength, Creating, Withdrawing, Writing, Recovering, Preparing, Repairing,
        Actions
    <3> QED BY <2>1, <3>1 DEF Typed, Bounded
  <2>2. CASE Withdrawing
    <3>1. PlanLength = Len(Withdrawal)
      BY <2>2 DEF PlanLength, Creating, Withdrawing, Writing, Recovering, Preparing, Repairing,
        Actions,
                  Bootstraps
    <3> QED BY <2>2, <3>1 DEF Typed, Bounded
  <2>3. CASE Writing
    <3>1. PlanLength = Len(Plan)
      BY <2>3 DEF PlanLength, Creating, Withdrawing, Writing, Recovering, Preparing, Repairing,
        Actions
    <3> QED BY <2>3, <3>1 DEF Typed, Bounded
  <2>4. CASE Recovering
    <3>1. PlanLength = Len(RecoveryPlan)
      BY <2>4 DEF PlanLength, Creating, Withdrawing, Writing, Recovering, Preparing, Repairing,
        Actions,
                  Bootstraps
    <3> QED BY <2>4, <3>1 DEF Typed, Bounded
  <2>5. CASE Preparing
    <3>1. PlanLength = Len(PreparationPlan)
      BY <2>5 DEF PlanLength, Creating, Withdrawing, Writing, Recovering, Preparing, Repairing,
        Actions
    <3>2. type \in Types
      BY <2>5 DEF Typed, Control, Preparing
    <3> QED BY <2>5, <3>1, <3>2, <1>2, PreparationPlanIs DEF Typed, Bounded
  <2>6. CASE Repairing
    <3>1. PlanLength = Len(RepairPlan(process.command))
      BY <2>6 DEF PlanLength, Creating, Withdrawing, Writing, Recovering, Preparing, Repairing,
        Actions,
                  Bootstraps
    <3>2. type \in Types
      BY <2>6 DEF Typed, Control, Repairing
    <3>3. Len(RepairPlan(process.command)) \in Nat
      BY <3>2, StagedRollbackIs, UnstagedRollbackIs, ResumptionIs DEF RepairPlan
    <3> QED BY <2>6, <3>1, <3>3, <1>2 DEF Typed, Bounded
  <2>7. CASE process.command = "none" \/ Completing
    <3>1. PlanLength = 0
      BY <2>7 DEF PlanLength, Creating, Withdrawing, Writing, Recovering, Preparing, Repairing,
        Actions,
                  Bootstraps, Completing
    <3> QED BY <2>7, <3>1, <1>2 DEF Typed, Bounded
  <2>8. process.command # "none" => process.operation \in Operations
    BY DEF Typed, Control
  <2>9. /\ process.command \in {"create", "abort"} => process.operation \in Bootstraps
    BY DEF Typed, Control
  <2> QED BY <2>0, <2>1, <2>2, <2>3, <2>4, <2>5, <2>6, <2>7, <2>8, <2>9
          DEF Commands, Actions, Operations, Bootstraps,
              Creating, Withdrawing, Writing, Recovering, Preparing, Repairing, Completing
<1> QED BY <1>1, <1>3
    DEF Typed, JournalTyped, CreationTyped, MigrationTyped, PreparationTyped, TypeOK

(* A command that begins is typed.                                            *)
LEMMA BegunTyped ==
    ASSUME JournalTyped, NEW command \in Commands, NEW operation \in Operations, NEW at \in Nat
    PROVE  /\ Begun(command, operation, at) \in ProcessType
           /\ Begun(command, operation, at).command = command
           /\ Begun(command, operation, at).operation = operation
           /\ Begun(command, operation, at).at = at
           /\ Begun(command, operation, at).mark = "none"
           /\ Begun(command, operation, at).action =
                  IF command \in Actions THEN command ELSE "none"
<1>1. NoStep \in StepType
  BY DEF NoStep, StepType, Commands
<1>2. journal.step \in StepType
  BY DEF JournalTyped, JournalType
<1> QED BY <1>1, <1>2 DEF Begun, Idle, ProcessType, Commands, Actions, Marks

(* A command that moves on in its plan, or in the change of one object.       *)
LEMMA ProcessMoved ==
    ASSUME process \in ProcessType, NEW at \in Nat, NEW mark \in Marks
    PROVE  /\ [process EXCEPT !.at = at] \in ProcessType
           /\ [process EXCEPT !.mark = mark] \in ProcessType
           /\ [process EXCEPT !.at = at, !.mark = mark] \in ProcessType
BY DEF ProcessType

(* What a command that moves on changes of its process.                      *)
LEMMA ProcessSteps ==
    ASSUME process \in ProcessType
    PROVE  /\ [process EXCEPT !.at = @ + 1] \in ProcessType
           /\ [process EXCEPT !.at = @ + 1, !.mark = "none"] \in ProcessType
           /\ \A mark \in Marks : [process EXCEPT !.mark = mark] \in ProcessType
<1>1. process.at + 1 \in Nat /\ "none" \in Marks
  BY DEF ProcessType, Marks
<1>2. [process EXCEPT !.at = @ + 1] \in ProcessType
  BY <1>1, ProcessMoved
<1>3. [process EXCEPT !.at = @ + 1, !.mark = "none"] \in ProcessType
  BY <1>1, ProcessMoved
<1>4. \A mark \in Marks : [process EXCEPT !.mark = mark] \in ProcessType
  BY <1>1, ProcessMoved
<1> QED BY <1>2, <1>3, <1>4

(* A command that ends leaves a typed process.                               *)
LEMMA IdleTyped ==
    /\ Idle \in ProcessType /\ Idle.command = "none" /\ Idle.operation = "none"
    /\ Idle.at = 0 /\ Idle.mark = "none" /\ Idle.action = "none"
BY DEF Idle, NoStep, ProcessType, Commands, StepType, Marks

(* A removed journal is typed.                                               *)
LEMMA NoJournalTyped ==
    /\ NoJournal \in JournalType /\ NoStep \in StepType /\ NoEvidence \in EvidenceType
    /\ NoJournal.operation = "none" /\ NoJournal.phase = "none" /\ NoJournal.committed = FALSE
    /\ NoJournal.action = "none" /\ NoJournal.step = NoStep /\ NoJournal.evidence = NoEvidence
BY DEF NoJournal, NoStep, NoEvidence, JournalType, StepType, EvidenceType, Commands, Phases

(* The plans of a creation are those of its authority.                        *)
LEMMA SameCreation ==
    ASSUME creating' = creating
    PROVE  CreationPlan' = CreationPlan /\ Withdrawal' = Withdrawal
BY DEF CreationPlan, CreationStaging, AuthorityPublication, ManifestPublication,
  ForIntermediate,
       Withdrawal

(* An idle process is within every bound.                                     *)
LEMMA IdleStep ==
    ASSUME process' = Idle
    PROVE  Bounded'
BY IdleTyped DEF Bounded, Creating, Withdrawing, Completing, Writing, Recovering, Preparing,
                 Repairing, Actions

(* The first state is typed.                                                 *)
LEMMA InitTyped == Init => Typed
<1> SUFFICES ASSUME Init PROVE Typed
  OBVIOUS
<1>1. JournalTyped
  <2>1. failures \in 0 .. MaxFailures
    BY MaxFailuresAssumption DEF Init
  <2> QED BY <2>1, NoJournalTyped, IdleTyped DEF Init, JournalTyped
<1>2. CreationTyped
  <2>1. \A o \in Creations : Uncreated[o] \in MadeStates(o)
    BY DEF Uncreated, MadeStates
  <2> QED BY <2>1, MaxCreationsAssumption DEF Init, CreationTyped, Uncreated
<1>3. MigrationTyped
  <2>1. \A o \in Objects : Unmigrated[o] \in Places(o) /\ Unfounded[o] \in Places(o)
    BY DEF Unmigrated, Unfounded, Places
  <2>2. place = Unmigrated \/ place = Unfounded
    BY DEF Init
  <2>3. place \in [Objects -> UNION {Places(o) : o \in Objects}]
    BY <2>1, <2>2 DEF Unmigrated, Unfounded
  <2> QED BY <2>1, <2>2, <2>3, MaxMigrationsAssumption DEF Init, MigrationTyped
<1>4. PreparationTyped
  <2>1. \A o \in Parts : Unprepared[o] \in PartStates(o)
    BY DEF Unprepared, PartStates
  <2> QED BY <2>1, MaxPreparationsAssumption DEF Init, PreparationTyped, Unprepared
<1>5. Control
  BY IdleTyped DEF Init, Control, Actions, NoJournal, Bootstraps
<1>6. Bounded
  BY IdleTyped
    DEF Init, Bounded, Creating, Withdrawing, Completing, Writing, Recovering, Preparing,
                   Repairing, Actions
<1> QED BY <1>1, <1>2, <1>3, <1>4, <1>5, <1>6 DEF Typed

(* What a change of an object of a creation leaves typed.                     *)
LEMMA LayTyped ==
    ASSUME CreationTyped, NEW o \in Creations, NEW to \in MadeStates(o), Lay(o, to)
    PROVE  /\ made' \in [Creations -> UNION {MadeStates(p) : p \in Creations}]
           /\ \A p \in Creations : made'[p] \in MadeStates(p)
<1>1. made' = [p \in Creations |->
                IF p = o THEN to
                ELSE IF \/ p = Room("root") /\ o = Authority("root")
                        \/ p = KeyCopy /\ o = Room("intermediate")
                     THEN "absent" ELSE made[p]]
  BY DEF Lay
<1>2. "absent" \in MadeStates(Room("root")) /\ "absent" \in MadeStates(KeyCopy)
  BY CreationObjects DEF MadeStates, Authorities
<1>3. \A p \in Creations : made'[p] \in MadeStates(p)
  BY <1>1, <1>2 DEF CreationTyped
<1> QED BY <1>1, <1>3

(* The journal of a creation.                                                 *)
LEMMA BootstrapTyped ==
    ASSUME CreationTyped, creating \in Authorities, NEW phase \in Phases,
           NEW entries \in SUBSET Creations
    PROVE  /\ Bootstrap(phase, entries) \in JournalType
           /\ Bootstrap(phase, entries).operation = Operation(creating)
           /\ Bootstrap(phase, entries).phase = phase
           /\ Bootstrap(phase, entries).committed = FALSE
           /\ Bootstrap(phase, entries).evidence.known = Witnessed(entries)
<1>1. Witnessed(entries) \in SUBSET Creations
  BY CreationObjects DEF Witnessed, Own, Authorities
<1>2. Operation(creating) \in Operations
  BY DEF Operation, Operations, Bootstraps
<1> DEFINE e == [NoEvidence EXCEPT !.known = Witnessed(entries)]
<1>3. e \in EvidenceType /\ e.known = Witnessed(entries)
  BY <1>1, NoJournalTyped DEF EvidenceType, NoEvidence
<1>4. Bootstrap(phase, entries) =
        [NoJournal EXCEPT !.operation = Operation(creating), !.phase = phase, !.evidence = e]
  BY DEF Bootstrap, NoJournal
<1> HIDE DEF e
<1>5. Bootstrap(phase, entries) \in JournalType
  BY <1>2, <1>3, <1>4, NoJournalTyped DEF JournalType
<1> QED BY <1>3, <1>4, <1>5, NoJournalTyped DEF JournalType

(* The entries a creation knows are objects of a creation.                   *)
LEMMA MutatedTyped ==
    ASSUME JournalTyped
    PROVE  Mutated \in SUBSET Creations /\ \A phase : Mutating(phase) \in SUBSET Creations
<1>1. journal.evidence.known \in SUBSET Creations
  BY DEF JournalTyped, JournalType, EvidenceType
<1> QED BY <1>1, CreationObjects DEF Mutated, Mutating

(* A step of a running command that writes its own journal or none.           *)
LEMMA ControlStep ==
    ASSUME Control, process.command # "none", process'.command = process.command,
           process'.operation = process.operation, process'.action = process.action,
           process'.at >= 1, creating' = creating, type' = type,
           \/ journal' = journal /\ (process.mark = "dropped" => process'.mark = "dropped")
           \/ journal'.operation = process.operation
           \/ journal' = NoJournal /\ process'.mark = "dropped"
    PROVE  Control'
<1>1. NoJournal.operation = "none"
  BY NoJournalTyped
<1> QED BY <1>1 DEF Control, Operations, Operation, Bootstraps

(* A step that ends the command.                                              *)
LEMMA ControlIdle ==
    ASSUME Control, process' = Idle, creating' = creating, type' = type, journal' = journal
    PROVE  Control'
BY IdleTyped DEF Control, Bootstraps, Actions

(* A step that begins a command.                                              *)
LEMMA ControlBegun ==
    ASSUME JournalTyped, Control, NEW command \in Commands \ {"none"}, NEW operation \in Operations,
           NEW at \in Nat, at >= 1, process' = Begun(command, operation, at),
           command \in {"create", "abort"} => operation \in Bootstraps,
           command = "migrate" => operation = "legacy-migrate",
           command = "prepare" => operation = "rollover-prepare",
           operation \in Bootstraps => creating' \in Authorities /\ operation = Operation(creating'),
           operation = "rollover-prepare" => type' \in Types,
           command \in Actions => journal.operation = operation,
           type' = type \/ type' \in Types,
           creating' = creating \/ journal.committed \/ journal = NoJournal,
           journal' = journal
    PROVE  Control'
<1>1. /\ process'.command = command /\ process'.operation = operation /\ process'.at = at
      /\ process'.action = IF command \in Actions THEN command ELSE "none"
  BY BegunTyped
<1>2. NoJournal.operation = "none"
  BY NoJournalTyped
<1>3. Operation(creating)' = Operation(creating')
  BY DEF Operation
<1> QED BY <1>1, <1>2, <1>3 DEF Control, Bootstraps, Operation

(* What a step leaves alone stays typed.                                      *)
LEMMA CreationKept == ASSUME CreationTyped, UNCHANGED creation_vars PROVE CreationTyped'
BY DEF CreationTyped, creation_vars

(* The same for a migration.                                                 *)
LEMMA MigrationKept == ASSUME MigrationTyped, UNCHANGED migration_vars PROVE MigrationTyped'
BY DEF MigrationTyped, migration_vars

(* The same for a preparation.                                               *)
LEMMA PreparationKept ==
    ASSUME PreparationTyped, UNCHANGED preparation_vars PROVE PreparationTyped'
BY DEF PreparationTyped, preparation_vars, Filed, StageFiles, TypeAuthorities, Database

(* The removal of a former file changes nothing else.                         *)
LEMMA Unlinked ==
    ASSUME PreparerUnlinks \/ RepairUnlinks
    PROVE  /\ UNCHANGED << journal, marker, receipt, process, failures, type, part, workspace,
                           covered, preparations >>
           /\ displaced' \subseteq displaced /\ process.mark = "made"
           /\ PreparerUnlinks => PreparerAt("change")
           /\ RepairUnlinks => RepairsOn
BY DEF PreparerUnlinks, RepairUnlinks, PreparerAt, RepairsOn, Unlink

LEMMA UnlinkTyped ==
    ASSUME PreparationTyped, UNCHANGED << type, part, workspace, covered, preparations >>,
           displaced' \subseteq displaced
    PROVE  PreparationTyped'
BY DEF PreparationTyped, Filed, StageFiles, TypeAuthorities, Database

(* Nothing is unresolved over a journal that is not committed.                 *)
LEMMA Resolved ==
    ASSUME NoUnresolvedState
    PROVE  ~marker /\ (journal = NoJournal \/ journal.committed)
BY DEF NoUnresolvedState, TerminalHistory, TerminalBootstrap, TerminalMigration

(* The lengths of the plans, for this state and the next one.                 *)
LEMMA Lengths ==
    /\ creating \in Authorities => Len(CreationPlan) \in Nat /\ Len(Withdrawal) \in Nat
    /\ type \in Types => Len(PreparationPlan) \in Nat
    /\ Len(Plan) \in Nat /\ Len(ResumePlan) \in Nat /\ Len(RollbackPlan) \in Nat
<1>1. Len(Plan) \in Nat /\ Len(ResumePlan) \in Nat /\ Len(RollbackPlan) \in Nat
  BY PlanIs, RemainingIs, ResumePlanIs, RollbackPlanIs DEF Ordered
<1>2. creating \in Authorities => Len(CreationPlan) \in Nat /\ Len(Withdrawal) \in Nat
  BY CreationPlanIs, WithdrawalIs DEF Consists
<1> QED BY <1>1, <1>2, PreparationPlanIs

(* The lengths of the plans in the next state.                                *)
LEMMA NextLengths ==
    /\ (creating \in Authorities => Len(CreationPlan) \in Nat /\ Len(Withdrawal) \in Nat)'
    /\ (type \in Types => Len(PreparationPlan) \in Nat)'
BY Lengths, PTL

(* The steps of a creation keep the types.                                    *)
LEMMA BeginCreationTyped ==
    ASSUME Typed, UNCHANGED << migration_vars, preparation_vars >>, NEW a \in Authorities,
           BeginCreation(a)
    PROVE  Typed'
<1> USE DEF BeginCreation
<1>0. JournalTyped /\ CreationTyped /\ Control
  BY DEF Typed
<1>1. Operation(a) \in Bootstraps /\ Operation(a) \in Operations /\ "create" \in Commands
  BY DEF Operation, Operations, Bootstraps, Commands
<1>2. process' = Begun("create", Operation(a), 1)
  OBVIOUS
<1>3. JournalTyped'
  BY <1>0, <1>1, <1>2, BegunTyped DEF JournalTyped
<1>4. CreationTyped'
  <2>1. Grant(a) \in Creations /\ Room(a) \in Creations
        /\ "absent" \in MadeStates(Grant(a)) /\ "absent" \in MadeStates(Room(a))
    BY CreationObjects DEF MadeStates
  <2>2. creations' \in 0 .. MaxCreations
    BY <1>0, MaxCreationsAssumption DEF CreationTyped
  <2>3. made' = [made EXCEPT ![Grant(a)] = "absent", ![Room(a)] = "absent"] /\ creating' = a
    OBVIOUS
  <2> QED BY <1>0, <2>1, <2>2, <2>3 DEF CreationTyped
<1>5. Control'
  <2>1. journal.committed \/ journal = NoJournal
    BY Resolved
  <2>2. Operation(a) = Operation(creating')
    OBVIOUS
  <2> QED BY <1>0, <1>1, <2>1, <2>2, ControlBegun
      DEF preparation_vars, Operations, Bootstraps, Operation,
          Actions
<1>6. Bounded'
  <2>1. process'.command = "create" /\ process'.at = 1 /\ process'.mark = "none"
    BY <1>0, <1>1, <1>2, BegunTyped
  <2>2. creating' \in Authorities
    OBVIOUS
  <2>3. Len(CreationPlan)' >= 0 /\ Len(CreationPlan)' \in Nat
    BY <2>2, NextLengths
  <2> QED BY <2>1, <2>3
      DEF Bounded, Creating, Withdrawing, Completing, Writing, Recovering, Preparing,
                   Repairing, Actions
<1>7. MigrationTyped' /\ PreparationTyped'
  BY MigrationKept, PreparationKept DEF Typed
<1> QED BY <1>3, <1>4, <1>5, <1>6, <1>7 DEF Typed

(* A running creation or its recovery moves on in its plan.                   *)
LEMMA CreationMoves ==
    ASSUME Typed, UNCHANGED << migration_vars, preparation_vars >>, creating' = creating,
           process.operation \in Bootstraps, process' \in ProcessType,
           process'.command = process.command, process'.operation = process.operation,
           process'.action = process.action, process'.at >= 1,
           Creating => process'.at <= Len(CreationPlan) + 2 /\ process'.mark = "none",
           Withdrawing => /\ process'.at <= Len(Withdrawal) + 2
                          /\ process'.mark \in {"none", "pending", "made"},
           Completing => /\ process'.at = process.at
                         /\ process'.mark \in {"none", "pending", "made", "done", "committed", "marked"},
           journal' = journal \/ journal'.operation = process.operation,
           journal' \in JournalType, marker' \in BOOLEAN, receipt' = receipt, failures' = failures,
           CreationTyped'
    PROVE  Typed'
<1>1. JournalTyped'
  BY DEF Typed, JournalTyped
<1>2. Control'
  <2>1. process.command # "none"
    BY IdleTyped DEF Typed, Control, Bootstraps
  <2>2. Creating \/ Withdrawing \/ Completing
    BY <2>1 DEF Typed, Control, JournalTyped, ProcessType, Commands, Actions, Bootstraps,
                Creating, Withdrawing, Completing
  <2>3. process.mark # "dropped"
    BY <2>2 DEF Typed, Bounded
  <2> QED BY <2>1, <2>3, ControlStep DEF Typed, preparation_vars
<1>3. Bounded'
  <2>1. CreationPlan' = CreationPlan /\ Withdrawal' = Withdrawal
    BY SameCreation
  <2>2. /\ process.operation # "legacy-migrate" /\ process.operation # "rollover-prepare"
        /\ process.command # "migrate" /\ process.command # "prepare"
    BY DEF Bootstraps, Typed, Control
  <2> QED BY <2>1, <2>2
      DEF Typed, Bounded, Creating, Withdrawing, Completing, Writing, Recovering,
                            Preparing, Repairing
<1>4. MigrationTyped' /\ PreparationTyped'
  BY MigrationKept, PreparationKept DEF Typed
<1> QED BY <1>1, <1>2, <1>3, <1>4 DEF Typed

(* It ends, and the next command may begin.                                  *)
LEMMA CreationEnds ==
    ASSUME Typed, UNCHANGED << migration_vars, preparation_vars >>, creating' = creating,
           process' = Idle, journal' = journal, marker' \in BOOLEAN, receipt' = receipt,
           failures' = failures, CreationTyped'
    PROVE  Typed'
<1>1. JournalTyped'
  BY IdleTyped DEF Typed, JournalTyped
<1>2. Control'
  BY ControlIdle DEF Typed, preparation_vars
<1>3. Bounded'
  BY IdleStep
<1>4. MigrationTyped' /\ PreparationTyped'
  BY MigrationKept, PreparationKept DEF Typed
<1> QED BY <1>1, <1>2, <1>3, <1>4 DEF Typed

(* The steps of a creation.                                                  *)
LEMMA CreatorTyped ==
    ASSUME Typed, UNCHANGED << migration_vars, preparation_vars >>, CreatorSteps
    PROVE  Typed'
<1>0. JournalTyped /\ CreationTyped /\ Control /\ Bounded
  BY DEF Typed
<1>1. Creating /\ creating' = creating /\ creations' = creations
  BY DEF CreatorSteps, CreatorJournals, CreatorPlaces, CreatorCommits, CreatorReturns,
    CreatorAt,
         creation_vars
<1>2. /\ creating \in Authorities /\ process.operation \in Bootstraps
      /\ process.operation = Operation(creating) /\ process.at \in Nat /\ process.at >= 1
      /\ ~Withdrawing /\ ~Completing /\ process.mark = "none"
  BY <1>0, <1>1
    DEF Bounded, Control, Creating, JournalTyped, ProcessType, Withdrawing, Completing
<1>3. Len(CreationPlan) \in Nat /\ CreationPlan \in Seq(CreationEntries)
  BY <1>2, CreationPlanIs
<1>4. ASSUME CreatorJournals PROVE Typed'
  <2> DEFINE phase == CreationPlan[process.at].phase
             entries == IF phase = "prepared" THEN {} ELSE Mutating(phase)
  <2>1. /\ CreatorAt("journal") /\ UNCHANGED made /\ journal' = Bootstrap(phase, entries)
    BY <1>4 DEF CreatorJournals
  <2>2. phase \in Phases
    <3>1. CreationPlan[process.at] \in CreationEntries /\ CreationPlan[process.at].kind = "journal"
      BY <2>1, <1>2, <1>3 DEF CreatorAt
    <3> QED BY <3>1, CreationEntryKinds DEF Phases
  <2>3. entries \in SUBSET Creations
    BY <1>0, MutatedTyped
  <2> HIDE DEF phase, entries
  <2>4. journal' \in JournalType /\ journal'.operation = process.operation
    BY <1>0, <1>2, <2>1, <2>2, <2>3, BootstrapTyped
  <2>5. CreationTyped'
    BY <1>0, <1>1, <2>1 DEF CreationTyped
  <2>6. /\ process' = [process EXCEPT !.at = @ + 1] /\ process.at <= Len(CreationPlan)
        /\ UNCHANGED << marker, receipt, failures >>
    BY <2>1 DEF CreatorAt
  <2> QED BY <1>0, <1>1, <1>2, <1>3, <2>4, <2>5, <2>6, CreationMoves
      DEF ProcessType, JournalTyped
<1>5. ASSUME CreatorPlaces PROVE Typed'
  <2> DEFINE o == CreationPlan[process.at].object
             to == CreationPlan[process.at].to
  <2>1. CreatorAt("place") /\ UNCHANGED journal /\ Lay(o, to)
    BY <1>5 DEF CreatorPlaces
  <2>2. o \in Creations /\ to \in MadeStates(o)
    <3>1. CreationPlan[process.at] \in CreationEntries /\ CreationPlan[process.at].kind = "place"
      BY <2>1, <1>2, <1>3 DEF CreatorAt
    <3> QED BY <3>1, CreationEntryKinds
  <2> HIDE DEF o, to
  <2>3. CreationTyped'
    BY <1>0, <1>1, <2>1, <2>2, LayTyped DEF CreationTyped
  <2>4. /\ process' = [process EXCEPT !.at = @ + 1] /\ process.at <= Len(CreationPlan)
        /\ UNCHANGED << marker, receipt, failures >>
    BY <2>1 DEF CreatorAt
  <2> QED BY <1>0, <1>1, <1>2, <1>3, <2>1, <2>3, <2>4, CreationMoves
      DEF ProcessType, JournalTyped
<1>6. ASSUME CreatorCommits PROVE Typed'
  <2>1. /\ process' = [process EXCEPT !.at = @ + 1] /\ process.at = Len(CreationPlan) + 1
        /\ journal' = [Bootstrap("complete", {}) EXCEPT !.committed = TRUE]
        /\ UNCHANGED << marker, receipt, failures, creation_vars >>
    BY <1>6 DEF CreatorCommits
  <2>2. journal' \in JournalType /\ journal'.operation = process.operation
    <3>1. "complete" \in Phases
      BY DEF Phases
    <3>2. /\ Bootstrap("complete", {}) \in JournalType
          /\ Bootstrap("complete", {}).operation = Operation(creating)
      BY <3>1, <1>0, <1>2, BootstrapTyped
    <3> QED BY <2>1, <3>2, <1>2 DEF JournalType
  <2>3. CreationTyped'
    BY <1>0, <2>1, CreationKept
  <2> QED BY <1>0, <1>1, <1>2, <1>3, <2>1, <2>2, <2>3, CreationMoves
      DEF ProcessType, JournalTyped
<1>7. ASSUME CreatorReturns PROVE Typed'
  <2>1. /\ Lay(Room(creating), "absent") /\ process' = Idle
        /\ UNCHANGED << journal, marker, receipt, failures >>
    BY <1>7 DEF CreatorReturns
  <2>2. Room(creating) \in Creations /\ "absent" \in MadeStates(Room(creating))
    BY <1>2, CreationObjects DEF MadeStates
  <2>3. CreationTyped'
    BY <1>0, <1>1, <2>1, <2>2, LayTyped DEF CreationTyped
  <2> QED BY <1>0, <1>1, <2>1, <2>3, CreationEnds DEF JournalTyped
<1> QED BY <1>4, <1>5, <1>6, <1>7 DEF CreatorSteps

(* The entries of a withdrawal.                                               *)
LEMMA WithdrawalKinds ==
    ASSUME creating \in Authorities, NEW i \in 1 .. Len(Withdrawal)
    PROVE  /\ Withdrawal[i].object \in Creations
           /\ Withdrawal[i].to \in MadeStates(Withdrawal[i].object)
           /\ \E o \in WithdrawnObjects : Withdrawal[i] = WithdrawalOf(o)
           /\ Withdrawal[i] = WithdrawalOf(Withdrawal[i].object)
           /\ Withdrawal[i].to \notin Withdrawal[i].from
<1>1. Withdrawal[i] \in Withdrawals(WithdrawnObjects)
  BY WithdrawalIs DEF Consists
<1>2. PICK o \in WithdrawnObjects : Withdrawal[i] = WithdrawalOf(o)
  BY <1>1 DEF Withdrawals
<1>3. o \in Creations
  BY CreationObjects DEF WithdrawnObjects
<1>4. WithdrawalOf(o).object = o /\ WithdrawalOf(o).to \notin WithdrawalOf(o).from
  BY DEF WithdrawalOf, Withdraw
<1>5. WithdrawalOf(o).to \in MadeStates(o)
  <2>1. ASSUME NEW k \in Keys, o = RootEntry(k) PROVE WithdrawalOf(o).to \in MadeStates(o)
    <3>1. WithdrawalOf(o) = Withdraw(o, {"after"}, "before")
      BY <2>1, WithdrawalsAre
    <3>2. MadeStates(o) = {"before", "after"}
      BY <2>1, CreationObjects DEF MadeStates
    <3> QED BY <3>1, <3>2 DEF Withdraw
  <2>2. CASE o = Grant(creating)
    <3>1. WithdrawalOf(o) = Withdraw(o, {"absent", "reserved", "consumed"}, "abandoned")
      BY <2>2, WithdrawalsAre
    <3>2. MadeStates(o) = {"absent", "reserved", "consumed", "abandoned"}
      BY <2>2, CreationObjects DEF MadeStates
    <3> QED BY <3>1, <3>2 DEF Withdraw
  <2>3. CASE o \in {Authority(creating), Room(creating), RootManifest, ActiveManifest}
    <3>1. MadeStates(o) = {"absent", "published"}
      BY <2>3, CreationObjects DEF MadeStates
    <3>2. WithdrawalOf(o).to \in {"absent", "published"}
      BY <2>3, WithdrawalsAre DEF Withdraw, Authorities
    <3> QED BY <3>1, <3>2
  <2> QED BY <2>1, <2>2, <2>3 DEF WithdrawnObjects
<1> QED BY <1>2, <1>3, <1>4, <1>5

(* The journal of a step of a recovery of a creation.                         *)
LEMMA RewriteTyped ==
    ASSUME JournalTyped, CreationTyped, creating \in Authorities, NEW phase \in Phases,
           NEW action \in Actions, NEW step \in StepType,
           journal.operation = Operation(creating) \/ Aborting, Rewrite(phase, action, step)
    PROVE  /\ journal' \in JournalType /\ journal'.operation = Operation(creating)
           /\ journal'.phase = phase /\ journal'.action = action /\ journal'.step = step
           /\ ~Aborting => /\ journal'.committed = journal.committed
                           /\ journal'.evidence = journal.evidence
           /\ Aborting => /\ journal'.committed = FALSE
                          /\ journal'.evidence.known = Witnessed(Mutated)
<1> DEFINE j == IF Aborting THEN Bootstrap(phase, Mutated) ELSE journal
<1>1. Mutated \in SUBSET Creations
  BY MutatedTyped
<1>2. /\ j \in JournalType /\ j.operation = Operation(creating)
      /\ ~Aborting => j.committed = journal.committed /\ j.evidence = journal.evidence
      /\ Aborting => j.committed = FALSE /\ j.evidence.known = Witnessed(Mutated)
  <2>1. CASE Aborting
    <3>1. /\ Bootstrap(phase, Mutated) \in JournalType
          /\ Bootstrap(phase, Mutated).operation = Operation(creating)
          /\ Bootstrap(phase, Mutated).committed = FALSE
          /\ Bootstrap(phase, Mutated).evidence.known = Witnessed(Mutated)
      BY <1>1, BootstrapTyped
    <3> QED BY <2>1, <3>1 DEF JournalType
  <2>2. CASE ~Aborting
    BY <2>2 DEF JournalTyped
  <2> QED BY <2>1, <2>2
<1>3. journal' = [j EXCEPT !.phase = phase, !.action = action, !.step = step]
  BY DEF Rewrite
<1> HIDE DEF j
<1> QED BY <1>2, <1>3 DEF JournalType

(* The steps of a withdrawal: they announce, make and record a change of an    *)
(* object, or pass it.                                                       *)
LEMMA StepTyped ==
    ASSUME NEW action \in Commands, NEW o \in Creations \cup Objects \cup Parts,
           NEW mark \in {"none", "pending", "done"}
    PROVE  Step(action, o, mark) \in StepType
BY DEF Step, StepType

(* The steps of a withdrawal.                                                *)
LEMMA WithdrawerTyped ==
    ASSUME Typed, UNCHANGED << migration_vars, preparation_vars >>,
           \/ WithdrawalAnnounces \/ WithdrawalChanges \/ WithdrawalRecords \/ WithdrawalPasses
           \/ WithdrawalCommits \/ WithdrawalReturns
    PROVE  Typed'
<1>0. JournalTyped /\ CreationTyped /\ Control /\ Bounded
  BY DEF Typed
<1>1. Withdrawing /\ creating' = creating /\ creations' = creations
  BY DEF WithdrawalAnnounces, WithdrawalChanges, WithdrawalRecords, WithdrawalPasses,
         WithdrawalCommits, WithdrawalReturns, WithdrawsOn, creation_vars
<1>2. /\ creating \in Authorities /\ process.operation \in Bootstraps
      /\ process.operation = Operation(creating) /\ process.at \in Nat /\ process.at >= 1
      /\ ~Creating /\ ~Completing /\ process.mark # "dropped"
      /\ process \in ProcessType /\ process.command \in Commands
      /\ process.mark \in {"none", "pending", "made"}
  BY <1>0, <1>1
    DEF Control, Bounded, Creating, JournalTyped, ProcessType, Withdrawing, Completing
<1>3. Len(Withdrawal) \in Nat
  BY <1>2, Lengths
<1>4. ASSUME process.at <= Len(Withdrawal)
      PROVE  Withdrawn.object \in Creations /\ Withdrawn.to \in MadeStates(Withdrawn.object)
  <2>1. process.at \in 1 .. Len(Withdrawal)
    BY <1>2, <1>3, <1>4
  <2> QED BY <1>2, <2>1, WithdrawalKinds DEF Withdrawn
<1>5. ASSUME WithdrawsOn, NEW mark \in {"pending", "done"},
             Rewrite("recovering", "rollback", Step("rollback", Withdrawn.object, mark))
      PROVE  journal' \in JournalType /\ journal'.operation = process.operation
  <2>1. "recovering" \in Phases /\ "rollback" \in Actions /\ "rollback" \in Commands
    BY DEF Phases, Actions, Commands
  <2>2. Step("rollback", Withdrawn.object, mark) \in StepType
    BY <1>4, <1>5, <2>1, StepTyped DEF WithdrawsOn
  <2>3. journal.operation = Operation(creating) \/ Aborting
    BY <1>0, <1>1, <1>2 DEF Control, Withdrawing, Aborting, Actions
  <2> QED BY <1>0, <1>2, <1>5, <2>1, <2>2, <2>3, RewriteTyped
<1>6. /\ [process EXCEPT !.mark = "pending"] \in ProcessType
      /\ [process EXCEPT !.mark = "made"] \in ProcessType
      /\ [process EXCEPT !.at = @ + 1, !.mark = "none"] \in ProcessType
      /\ [process EXCEPT !.at = @ + 1] \in ProcessType
  BY <1>2, ProcessSteps DEF Marks
<1>7. ASSUME \/ process' = [process EXCEPT !.mark = "pending"]
             \/ process' = [process EXCEPT !.mark = "made"]
             \/ process' = [process EXCEPT !.at = @ + 1, !.mark = "none"]
             \/ process' = [process EXCEPT !.at = @ + 1],
             process.at <= Len(Withdrawal) + 1
      PROVE  /\ process' \in ProcessType /\ process'.command = process.command
             /\ process'.operation = process.operation /\ process'.action = process.action
             /\ process'.at >= 1 /\ process'.at <= Len(Withdrawal) + 2
             /\ process'.mark \in {"none", "pending", "made"}
  <2>1. process' \in ProcessType
    BY <1>6, <1>7
  <2>2. /\ process'.command = process.command
        /\ process'.operation = process.operation /\ process'.action = process.action
        /\ process'.at \in {process.at, process.at + 1}
        /\ process'.mark \in {"none", "pending", "made"}
    BY <1>2, <1>7 DEF ProcessType
  <2> QED BY <1>2, <1>3, <1>7, <2>1, <2>2
<1>8. ASSUME WithdrawalAnnounces \/ WithdrawalRecords PROVE Typed'
  <2>1. WithdrawsOn /\ UNCHANGED made
    BY <1>8 DEF WithdrawalAnnounces, WithdrawalRecords
  <2>2. journal' \in JournalType /\ journal'.operation = process.operation
    BY <1>5, <1>8 DEF WithdrawalAnnounces, WithdrawalRecords
  <2>3. /\ process' \in ProcessType /\ process'.command = process.command
        /\ process'.operation = process.operation /\ process'.action = process.action
        /\ process'.at >= 1 /\ process'.at <= Len(Withdrawal) + 2
        /\ process'.mark \in {"none", "pending", "made"}
    BY <1>2, <1>3, <1>7, <1>8, <2>1 DEF WithdrawalAnnounces, WithdrawalRecords, WithdrawsOn
  <2>4. CreationTyped'
    BY <1>0, <1>1, <2>1, CreationKept DEF creation_vars
  <2> QED BY <1>0, <1>1, <1>2, <2>1, <2>2, <2>3, <2>4, CreationMoves
      DEF WithdrawsOn, JournalTyped
<1>9. ASSUME WithdrawalChanges \/ WithdrawalPasses PROVE Typed'
  <2>1. WithdrawsOn /\ journal' = journal
    BY <1>9 DEF WithdrawalChanges, WithdrawalPasses
  <2>2. /\ process' \in ProcessType /\ process'.command = process.command
        /\ process'.operation = process.operation /\ process'.action = process.action
        /\ process'.at >= 1 /\ process'.at <= Len(Withdrawal) + 2
        /\ process'.mark \in {"none", "pending", "made"}
    BY <1>2, <1>3, <1>7, <1>9, <2>1 DEF WithdrawalChanges, WithdrawalPasses, WithdrawsOn
  <2>3. CreationTyped'
    <3>1. CASE WithdrawalChanges
      <4>1. Withdrawn.object \in Creations /\ Withdrawn.to \in MadeStates(Withdrawn.object)
        BY <1>4, <2>1 DEF WithdrawsOn
      <4>2. Lay(Withdrawn.object, Withdrawn.to)
        BY <3>1 DEF WithdrawalChanges
      <4> QED BY <1>0, <1>1, <4>1, <4>2, LayTyped DEF CreationTyped
    <3>2. CASE WithdrawalPasses
      BY <1>0, <1>1, <3>2, CreationKept DEF WithdrawalPasses, creation_vars
    <3> QED BY <1>9, <3>1, <3>2
  <2> QED BY <1>0, <1>1, <1>2, <2>1, <2>2, <2>3, CreationMoves DEF WithdrawsOn, JournalTyped
<1>10. ASSUME WithdrawalCommits PROVE Typed'
  <2>1. /\ process.at = Len(Withdrawal) + 1 /\ process' = [process EXCEPT !.at = @ + 1]
        /\ journal' = [NoJournal EXCEPT !.operation = Operation(creating), !.phase = "rolled-back",
                                        !.committed = TRUE, !.action = "rollback"]
        /\ UNCHANGED << marker, receipt, failures, creation_vars >>
    BY <1>10 DEF WithdrawalCommits
  <2>2. /\ process' \in ProcessType /\ process'.command = process.command
        /\ process'.operation = process.operation /\ process'.action = process.action
        /\ process'.at >= 1 /\ process'.at <= Len(Withdrawal) + 2
        /\ process'.mark \in {"none", "pending", "made"}
    BY <1>2, <1>3, <1>7, <2>1
  <2>3. journal' \in JournalType /\ journal'.operation = process.operation
    BY <1>2, <2>1, NoJournalTyped DEF JournalType, Operations, Phases, Actions
  <2>4. CreationTyped'
    BY <1>0, <2>1, CreationKept
  <2> QED BY <1>0, <1>1, <1>2, <2>1, <2>2, <2>3, <2>4, CreationMoves DEF JournalTyped
<1>11. ASSUME WithdrawalReturns PROVE Typed'
  <2>1. CreationTyped'
    BY <1>0, <1>11, CreationKept DEF WithdrawalReturns
  <2> QED BY <1>0, <1>1, <1>11, <2>1, CreationEnds DEF WithdrawalReturns
<1> QED BY <1>8, <1>9, <1>10, <1>11

(* The steps of a completed cleanup.                                         *)
LEMMA CompleterTyped ==
    ASSUME Typed, UNCHANGED << migration_vars, preparation_vars >>,
           \/ CompletionAnnounces \/ CompletionChanges \/ CompletionRecords
           \/ CompletionCommits \/ CompletionUnmarks \/ CompletionReturns
    PROVE  Typed'
<1>0. JournalTyped /\ CreationTyped /\ Control /\ Bounded
  BY DEF Typed
<1>1. Completing /\ UNCHANGED << receipt, failures, creating, creations >>
  BY DEF CompletionAnnounces, CompletionChanges, CompletionRecords, CompletionCommits,
         CompletionUnmarks, CompletionReturns, CompletesAt
<1>2. /\ creating \in Authorities /\ process.operation \in Bootstraps
      /\ process.operation = Operation(creating) /\ process.at = 1
      /\ ~Creating /\ ~Withdrawing /\ ~Aborting
      /\ process \in ProcessType /\ journal.operation = process.operation
  BY <1>0, <1>1
    DEF Control, Bounded, Creating, JournalTyped, ProcessType, Withdrawing, Completing,
                    Aborting, Actions
<1>3. ASSUME NEW mark \in {"pending", "made", "done", "committed", "marked"}, Completed(mark)
      PROVE  /\ process' \in ProcessType /\ process'.command = process.command
             /\ process'.operation = process.operation /\ process'.action = process.action
             /\ process'.at >= 1 /\ process'.at = process.at /\ process'.mark = mark
  <2>1. process' \in ProcessType
    BY <1>2, <1>3, ProcessSteps DEF Completed, Marks
  <2> QED BY <1>2, <1>3, <2>1 DEF Completed, ProcessType
<1>4. ASSUME NEW mark \in {"pending", "done"},
             Rewrite("recovering", "rollback", Step("resume", KeyCopy, mark))
      PROVE  journal' \in JournalType /\ journal'.operation = process.operation
  <2>1. "recovering" \in Phases /\ "rollback" \in Actions /\ "resume" \in Commands
    BY DEF Phases, Actions, Commands
  <2>2. Step("resume", KeyCopy, mark) \in StepType
    BY <2>1, CreationObjects, StepTyped
  <2> QED BY <1>0, <1>2, <1>4, <2>1, <2>2, RewriteTyped
<1>5. CASE CompletionAnnounces \/ CompletionRecords
  <2>1. \E mark \in {"pending", "done"} :
           Completed(mark) /\ Rewrite("recovering", "rollback", Step("resume", KeyCopy, mark))
    BY <1>5 DEF CompletionAnnounces, CompletionRecords
  <2>2. UNCHANGED << marker, made >>
    BY <1>5 DEF CompletionAnnounces, CompletionRecords
  <2>3. CreationTyped'
    BY <1>0, <1>1, <2>2, CreationKept DEF creation_vars
  <2> QED BY <1>0, <1>1, <1>2, <1>3, <1>4, <2>1, <2>2, <2>3, CreationMoves DEF JournalTyped
<1>6. CASE CompletionChanges
  <2>1. KeyCopy \in Creations /\ "absent" \in MadeStates(KeyCopy)
    BY CreationObjects DEF MadeStates
  <2>2. Lay(KeyCopy, "absent") /\ UNCHANGED << journal, marker >> /\ Completed("made")
    BY <1>6 DEF CompletionChanges
  <2>3. CreationTyped'
    BY <1>0, <1>1, <2>1, <2>2, LayTyped DEF CreationTyped
  <2> QED BY <1>0, <1>1, <1>2, <1>3, <2>2, <2>3, CreationMoves DEF JournalTyped
<1>7. CASE CompletionCommits
  <2>1. /\ journal' = [journal EXCEPT !.phase = "complete", !.committed = TRUE]
        /\ UNCHANGED << marker, made >> /\ Completed("committed")
    BY <1>7 DEF CompletionCommits
  <2>2. journal' \in JournalType /\ journal'.operation = process.operation
    BY <1>0, <1>2, <2>1 DEF JournalTyped, JournalType, Phases
  <2>3. CreationTyped'
    BY <1>0, <1>1, <2>1, CreationKept DEF creation_vars
  <2> QED BY <1>0, <1>1, <1>2, <1>3, <2>1, <2>2, <2>3, CreationMoves DEF JournalTyped
<1>8. CASE CompletionUnmarks
  <2>1. /\ UNCHANGED << journal, made >> /\ marker' = FALSE /\ Completed("marked")
    BY <1>8 DEF CompletionUnmarks
  <2>3. CreationTyped'
    BY <1>0, <1>1, <2>1, CreationKept DEF creation_vars
  <2> QED BY <1>0, <1>1, <1>2, <1>3, <2>1, <2>3, CreationMoves DEF JournalTyped
<1>9. CASE CompletionReturns
  <2>1. /\ process' = Idle /\ Lay(Room("intermediate"), "absent") /\ UNCHANGED << journal, marker >>
    BY <1>9 DEF CompletionReturns
  <2>2. Room("intermediate") \in Creations /\ "absent" \in MadeStates(Room("intermediate"))
    BY CreationObjects DEF MadeStates, Authorities
  <2>3. CreationTyped'
    BY <1>0, <1>1, <2>1, <2>2, LayTyped DEF CreationTyped
  <2> QED BY <1>0, <1>1, <2>1, <2>3, CreationEnds DEF JournalTyped
<1> QED BY <1>5, <1>6, <1>7, <1>8, <1>9

(* A recovery begins with the operation of the journal.                       *)
LEMMA CreationBegins ==
    ASSUME Typed, UNCHANGED << migration_vars, preparation_vars >>,
           NEW command \in {"abort"} \cup Actions,
           process' = Begun(command, Operation(creating), 1), creating \in Authorities,
           command \in Actions => journal.operation = Operation(creating),
           UNCHANGED << journal, receipt, creation_vars >>, marker' \in BOOLEAN,
           failures' \in 0 .. MaxFailures
    PROVE  Typed'
<1>0. JournalTyped /\ CreationTyped /\ Control /\ Bounded
  BY DEF Typed
<1>1. /\ Operation(creating) \in Bootstraps /\ Operation(creating) \in Operations
      /\ command \in Commands \ {"none"} /\ creating' = creating /\ type' = type
  BY DEF Operation, Operations, Bootstraps, Commands, Actions, creation_vars, preparation_vars
<1>2. JournalTyped'
  <2>1. process' \in ProcessType
    BY <1>0, <1>1, BegunTyped
  <2> QED BY <1>0, <2>1 DEF JournalTyped
<1>3. CreationTyped'
  BY <1>0, CreationKept
<1>4. Control'
  <2>1. command # "migrate" /\ command # "prepare" /\ Operation(creating) # "rollover-prepare"
    BY DEF Actions, Operation
  <2>2. Operation(creating) = Operation(creating')
    BY <1>1
  <2> QED BY <1>0, <1>1, <2>1, <2>2, ControlBegun
<1>5. Bounded'
  <2>1. /\ process'.command = command /\ process'.at = 1 /\ process'.mark = "none"
        /\ process'.operation = Operation(creating)
    BY <1>0, <1>1, BegunTyped
  <2>2. Withdrawal' = Withdrawal /\ Len(Withdrawal) \in Nat
    BY <1>1, SameCreation, Lengths
  <2>3. Operation(creating) # "legacy-migrate" /\ Operation(creating) # "rollover-prepare"
    BY DEF Operation
  <2>4. command # "create" /\ command # "migrate" /\ command # "prepare"
    BY DEF Actions
  <2> QED BY <2>1, <2>2, <2>3, <2>4
      DEF Bounded, Creating, Withdrawing, Completing, Writing, Recovering,
                   Preparing, Repairing
<1>6. MigrationTyped' /\ PreparationTyped'
  BY MigrationKept, PreparationKept DEF Typed
<1> QED BY <1>2, <1>3, <1>4, <1>5, <1>6 DEF Typed

(* The steps of a creation and of its recoveries keep the types.             *)
LEMMA CreatesTyped == ASSUME Typed, Creates PROVE Typed'
<1>0. /\ UNCHANGED << migration_vars, preparation_vars >>
      /\ JournalTyped /\ CreationTyped /\ Control /\ Bounded
  BY DEF Creates, Typed
<1>1. ASSUME NEW a \in Authorities, BeginCreation(a) PROVE Typed'
  BY <1>0, <1>1, BeginCreationTyped
<1>2. CASE BootstrapSteps
  <2>1. CASE CreatorSteps
    BY <1>0, <2>1, CreatorTyped
  <2>2. CASE \/ WithdrawalAnnounces \/ WithdrawalChanges \/ WithdrawalRecords \/ WithdrawalPasses
             \/ WithdrawalCommits \/ WithdrawalReturns
    BY <1>0, <2>2, WithdrawerTyped
  <2>3. CASE \/ CompletionAnnounces \/ CompletionChanges \/ CompletionRecords
             \/ CompletionCommits \/ CompletionUnmarks \/ CompletionReturns
    BY <1>0, <2>3, CompleterTyped
  <2> QED BY <1>2, <2>1, <2>2, <2>3 DEF BootstrapSteps
<1>3. CASE CreationFails
  <2>1. creating \in Authorities
    BY <1>0, <1>3 DEF CreationFails, Creating, Control
  <2>2. failures' \in 0 .. MaxFailures
    BY <1>0, <1>3, MaxFailuresAssumption DEF CreationFails, JournalTyped
  <2>3. /\ marker' = TRUE /\ process' = Begun("abort", Operation(creating), 1)
        /\ UNCHANGED << journal, receipt, creation_vars >>
    BY <1>3 DEF CreationFails
  <2>4. "abort" \in {"abort"} \cup Actions /\ "abort" \notin Actions
    BY DEF Actions
  <2> QED BY <1>0, <2>1, <2>2, <2>3, <2>4, CreationBegins
<1>4. ASSUME NEW action \in Actions, BeginBootstrapRecovery(action) PROVE Typed'
  <2>1. creating \in Authorities /\ journal.operation = Operation(creating)
    BY <1>0, <1>4 DEF BeginBootstrapRecovery, Control
  <2>2. /\ process' = Begun(action, Operation(creating), 1)
        /\ UNCHANGED << journal, marker, receipt, failures, creation_vars >>
    BY <2>1, <1>4 DEF BeginBootstrapRecovery
  <2> QED BY <1>0, <2>1, <2>2, CreationBegins DEF JournalTyped
<1> QED BY <1>1, <1>2, <1>3, <1>4 DEF Creates

(* A running migration or its recovery moves on in its plan.                  *)
LEMMA MigrationMoves ==
    ASSUME Typed, UNCHANGED << creation_vars, preparation_vars >>,
           process.operation = "legacy-migrate", process' \in ProcessType,
           process'.command = process.command, process'.operation = process.operation,
           process'.action = process.action, process'.at >= 1,
           Writing => process'.at <= Len(Plan) + 2 /\ process'.mark = "none",
           Recovering => /\ process'.at <= Len(RecoveryPlan) + 2
                         /\ process'.mark \in {"none", "pending", "made", "done"}
                         /\ process'.mark # "none" => RecoveryPlan[process'.at].kind = "publish",
           journal' = journal \/ journal'.operation = process.operation,
           journal' \in JournalType, marker' = marker, receipt' = receipt, failures' = failures,
           MigrationTyped'
    PROVE  Typed'
<1>0. JournalTyped /\ CreationTyped /\ Control /\ Bounded
  BY DEF Typed
<1>1. JournalTyped'
  BY <1>0 DEF JournalTyped
<1>2. Writing \/ Recovering
  BY <1>0, IdleTyped
    DEF Control, JournalTyped, ProcessType, Commands, Actions, Bootstraps, Writing,
                         Recovering
<1>3. Control'
  <2>1. process.command # "none"
    BY <1>2 DEF Writing, Recovering, Actions
  <2>2. process.mark # "dropped"
    BY <1>0, <1>2 DEF Bounded
  <2> QED BY <1>0, <2>1, <2>2, ControlStep DEF creation_vars, preparation_vars
<1>4. Bounded'
  <2>1. RecoveryPlan' = RecoveryPlan
    BY DEF RecoveryPlan
  <2>2. /\ process.operation \notin Bootstraps /\ process.operation # "rollover-prepare"
        /\ process.command \notin {"create", "abort", "prepare"}
    BY <1>0 DEF Bootstraps, Control
  <2> QED BY <2>1, <2>2 DEF Bounded, Creating, Withdrawing, Completing, Writing, Recovering,
                            Preparing, Repairing, Bootstraps
<1>5. CreationTyped' /\ PreparationTyped'
  BY CreationKept, PreparationKept DEF Typed
<1> QED BY <1>1, <1>3, <1>4, <1>5 DEF Typed

(* It ends, or is stopped; so is any other command.                           *)
LEMMA CommandEnds ==
    ASSUME Typed, UNCHANGED << creation_vars, migration_vars, preparation_vars >>,
           process' = Idle, journal' = journal, marker' \in BOOLEAN, receipt' \in BOOLEAN,
           failures' \in 0 .. MaxFailures
    PROVE  Typed'
<1>1. JournalTyped'
  BY IdleTyped DEF Typed, JournalTyped
<1>2. Control'
  BY ControlIdle DEF Typed, creation_vars, preparation_vars
<1>3. Bounded'
  BY IdleStep
<1>4. CreationTyped' /\ MigrationTyped' /\ PreparationTyped'
  BY CreationKept, MigrationKept, PreparationKept DEF Typed
<1> QED BY <1>1, <1>2, <1>3, <1>4 DEF Typed

(* A failure is counted and ends the command.                                *)
LEMMA FailingTyped == ASSUME Typed, Failing PROVE failures' \in 0 .. MaxFailures /\ process' = Idle
BY MaxFailuresAssumption DEF Typed, JournalTyped, Failing

(* A migration or its recovery begins.                                        *)
LEMMA MigrationBegins ==
    ASSUME Typed, UNCHANGED << creation_vars, preparation_vars >>,
           NEW command \in {"migrate"} \cup Actions,
           process' = Begun(command, "legacy-migrate", 1),
           command \in Actions => journal.operation = "legacy-migrate",
           UNCHANGED << journal, marker, receipt, failures >>, MigrationTyped'
    PROVE  Typed'
<1>0. JournalTyped /\ CreationTyped /\ Control /\ Bounded
  BY DEF Typed
<1>1. /\ "legacy-migrate" \in Operations /\ command \in Commands \ {"none"}
      /\ creating' = creating /\ type' = type
  BY DEF Operations, Bootstraps, Commands, Actions, creation_vars, preparation_vars
<1>2. JournalTyped'
  <2>1. process' \in ProcessType
    BY <1>0, <1>1, BegunTyped
  <2> QED BY <1>0, <2>1 DEF JournalTyped
<1>3. Control'
  <2>1. command \notin {"create", "abort", "prepare"} /\ "legacy-migrate" \notin Bootstraps
    BY DEF Actions, Bootstraps
  <2> QED BY <1>0, <1>1, <2>1, ControlBegun
<1>4. Bounded'
  <2>1. /\ process'.command = command /\ process'.at = 1 /\ process'.mark = "none"
        /\ process'.operation = "legacy-migrate"
    BY <1>0, <1>1, BegunTyped
  <2>2. RecoveryPlan' = RollbackPlan \/ RecoveryPlan' = ResumePlan
    BY DEF RecoveryPlan
  <2>3. command \notin {"create", "abort", "prepare"} /\ "legacy-migrate" \notin Bootstraps
    BY DEF Actions, Bootstraps
  <2> QED BY <2>1, <2>2, <2>3, Lengths
      DEF Bounded, Creating, Withdrawing, Completing, Writing, Recovering,
                   Preparing, Repairing
<1>5. CreationTyped' /\ PreparationTyped'
  BY CreationKept, PreparationKept DEF Typed
<1> QED BY <1>2, <1>3, <1>4, <1>5 DEF Typed

(* A published object is typed.                                               *)
LEMMA PutTyped ==
    ASSUME MigrationTyped, NEW o \in Objects, NEW to \in Places(o), Put(o, to),
           migrations' = migrations
    PROVE  MigrationTyped'
<1>1. place' = [place EXCEPT ![o] = to] /\ staged' = staged \ {<< o, to >>}
  BY DEF Put
<1>2. \A p \in Objects : place'[p] \in Places(p)
  BY <1>1 DEF MigrationTyped
<1> QED BY <1>1, <1>2 DEF MigrationTyped

(* The journals of a migration.                                               *)
LEMMA WriteTyped ==
    ASSUME JournalTyped, NEW phase \in Phases, NEW committed \in BOOLEAN, Write(phase, committed)
    PROVE  /\ journal' \in JournalType /\ journal'.operation = "legacy-migrate"
           /\ journal'.phase = phase /\ journal'.committed = committed
           /\ journal'.action = process.action /\ journal'.step = process.step
<1>1. /\ process.action \in Actions \cup {"none"} /\ process.step \in StepType
      /\ "legacy-migrate" \in Operations
  BY DEF JournalTyped, ProcessType, Operations
<1> QED BY <1>1, NoJournalTyped DEF Write, JournalType

(* The steps of a migration.                                                 *)
LEMMA WriterTyped ==
    ASSUME Typed, UNCHANGED << creation_vars, preparation_vars >>, WriterSteps
    PROVE  Typed'
<1>0. JournalTyped /\ MigrationTyped /\ Control /\ Bounded
  BY DEF Typed
<1>1. Writing
  BY DEF WriterSteps, WriterRecords, WriterPublishes, WriterCommits, WriterReturns, Planned
<1>2. /\ process.operation = "legacy-migrate" /\ process.at \in Nat /\ process.at >= 1
      /\ ~Recovering /\ process \in ProcessType
  BY <1>0, <1>1 DEF Control, Writing, Recovering, JournalTyped, ProcessType, Actions
<1>3. Len(Plan) \in Nat /\ Plan \in Seq(MigrationEntries)
  BY PlanIs DEF Ordered
<1>4. [process EXCEPT !.at = @ + 1] \in ProcessType
  BY <1>2, ProcessSteps
<1>5. ASSUME WriterRecords PROVE Typed'
  <2>1. /\ process.at <= Len(Plan) /\ Plan[process.at].kind = "record"
        /\ process' = [process EXCEPT !.at = @ + 1] /\ Write(Plan[process.at].phase, FALSE)
        /\ UNCHANGED << failures, marker, receipt, migration_vars >>
    BY <1>5 DEF WriterRecords, Planned, migration_vars
  <2>2. Plan[process.at] \in MigrationEntries
    BY <1>2, <1>3, <2>1
  <2>3. Plan[process.at].phase \in Phases
    BY <2>1, <2>2, MigrationEntryKinds DEF Phases
  <2>4. journal' \in JournalType /\ journal'.operation = process.operation
    BY <1>0, <1>2, <2>1, <2>3, WriteTyped
  <2>5. MigrationTyped'
    BY <1>0, <2>1, MigrationKept
  <2> QED BY <1>0, <1>1, <1>2, <1>3, <1>4, <2>1, <2>4, <2>5, MigrationMoves
      DEF ProcessType, Bounded
<1>6. ASSUME WriterPublishes PROVE Typed'
  <2>1. /\ process.at <= Len(Plan) /\ Plan[process.at].kind = "publish"
        /\ process' = [process EXCEPT !.at = @ + 1]
        /\ Put(Plan[process.at].object, Plan[process.at].to)
        /\ UNCHANGED << failures, marker, receipt, journal, migrations >>
    BY <1>6 DEF WriterPublishes, Planned
  <2>2. Plan[process.at] \in MigrationEntries
    BY <1>2, <1>3, <2>1
  <2>3. Plan[process.at].object \in Objects /\ Plan[process.at].to \in Places(Plan[process.at].object)
    BY <2>1, <2>2, MigrationEntryKinds
  <2>5. MigrationTyped'
    BY <1>0, <2>1, <2>3, PutTyped
  <2> QED BY <1>0, <1>1, <1>2, <1>3, <1>4, <2>1, <2>5, MigrationMoves
      DEF ProcessType, Bounded, JournalTyped
<1>7. ASSUME WriterCommits PROVE Typed'
  <2>1. /\ process.at = Len(Plan) + 1 /\ process' = [process EXCEPT !.at = @ + 1]
        /\ Write("complete", TRUE) /\ UNCHANGED << marker, receipt, failures, migration_vars >>
    BY <1>7 DEF WriterCommits
  <2>2. "complete" \in Phases
    BY DEF Phases
  <2>4. journal' \in JournalType /\ journal'.operation = process.operation
    BY <1>0, <1>2, <2>1, <2>2, WriteTyped
  <2>5. MigrationTyped'
    BY <1>0, <2>1, MigrationKept
  <2> QED BY <1>0, <1>1, <1>2, <1>3, <1>4, <2>1, <2>4, <2>5, MigrationMoves
      DEF ProcessType, Bounded
<1>8. ASSUME WriterReturns PROVE Typed'
  BY <1>0, <1>8, CommandEnds DEF WriterReturns, JournalTyped
<1> QED BY <1>5, <1>6, <1>7, <1>8 DEF WriterSteps

(* The entries of a recovery's plan.                                          *)
LEMMA RecoveryEntryKinds ==
    ASSUME NEW i \in 1 .. Len(RecoveryPlan)
    PROVE  \/ RecoveryPlan[i].kind = "record" /\ RecoveryPlan[i].phase \in MigrationPhases
           \/ /\ RecoveryPlan[i].kind = "publish" /\ RecoveryPlan[i].object \in Objects
              /\ RecoveryPlan[i].to \in Places(RecoveryPlan[i].object)
              /\ RecoveryPlan[i].to = "removed" => RecoveryPlan[i].object = Provenance
<1>1. CASE process.command = "rollback"
  <2>1. RecoveryPlan = RollbackPlan /\ RollbackPlan[i] \in Undoings(Objects)
    BY <1>1, RollbackPlanIs DEF RecoveryPlan
  <2>2. PICK o \in Objects : RollbackPlan[i] = UndoOf(o)
    BY <2>1 DEF Undoings
  <2>3. /\ UndoOf(o).kind = "publish" /\ UndoOf(o).object = o /\ UndoOf(o).to \in Places(o)
        /\ UndoOf(o).to = "removed" => o = Provenance
    BY MigrationObjects
      DEF UndoOf, Undo, Unpublish, Places, Objects, Tree, Config, Reservation, Issuer,
                            Quarantine, Session, Active, Provenance
  <2> QED BY <2>1, <2>2, <2>3
<1>2. CASE process.command # "rollback"
  <2>1. RecoveryPlan = ResumePlan /\ Len(ResumePlan) = Len(Remaining)
    BY <1>2, ResumePlanIs DEF RecoveryPlan
  <2>2. Remaining[i] \in MigrationEntries
    BY <2>1, RemainingIs DEF Ordered
  <2>3. CASE Remaining[i] \in Records
    <3>1. ResumePlan[i] = Remaining[i]
      BY <2>1, <2>3, ResumePlanIs
    <3> QED BY <2>1, <2>2, <2>3, <3>1, MigrationEntryKinds
  <2>4. CASE Remaining[i] \notin Records
    <3>1. ResumePlan[i] = Undo(Remaining[i].object, {Remaining[i].from}, Remaining[i].to)
      BY <2>1, <2>4, ResumePlanIs
    <3>2. /\ Remaining[i].object \in Objects /\ Remaining[i].to \in Places(Remaining[i].object)
          /\ Remaining[i].to # "removed"
      BY <2>2, <2>4, MigrationEntryKinds
    <3> QED BY <2>1, <3>1, <3>2 DEF Undo
  <2> QED BY <2>3, <2>4
<1> QED BY <1>1, <1>2

(* The steps of a recovery of a migration.                                   *)
LEMMA RecoveryTyped ==
    ASSUME Typed, UNCHANGED << creation_vars, preparation_vars >>, RecoverySteps
    PROVE  Typed'
<1>0. JournalTyped /\ MigrationTyped /\ Control /\ Bounded
  BY DEF Typed
<1>1. Recovering
  BY DEF RecoverySteps, RecoveryRecords, AnnounceChange, MakeChange, RecordChange, PassChange,
    PassOver,
         RecoveryRefuses, RecoveryCommits, RecoveryReturns, Working
<1>2. /\ process.operation = "legacy-migrate" /\ process.at \in Nat /\ process.at >= 1
      /\ ~Writing /\ process \in ProcessType /\ process.command \in Actions
      /\ process.mark \in {"none", "pending", "made", "done"} /\ process.mark # "dropped"
  BY <1>0, <1>1 DEF Control, Writing, Recovering, JournalTyped, ProcessType, Actions, Bounded
<1>3. Len(RecoveryPlan) \in Nat
  BY Lengths DEF RecoveryPlan
<1>4. journal.operation = "legacy-migrate"
  BY <1>0, <1>2 DEF Control
<1>5. ASSUME Advance, process.at <= Len(RecoveryPlan) + 1
      PROVE  /\ process' \in ProcessType /\ process'.command = process.command
             /\ process'.operation = process.operation /\ process'.action = process.action
             /\ process'.at >= 1 /\ process'.at <= Len(RecoveryPlan) + 2 /\ process'.mark = "none"
  <2>1. process' \in ProcessType
    BY <1>2, <1>5, ProcessSteps DEF Advance
  <2> QED BY <1>2, <1>3, <1>5, <2>1 DEF Advance, ProcessType
<1>6. ASSUME Working, Entry.kind = "publish"
      PROVE  /\ Entry.object \in Objects /\ Entry.to \in Places(Entry.object)
             /\ Entry.to = "removed" => Entry.object = Provenance
  <2>1. process.at \in 1 .. Len(RecoveryPlan)
    BY <1>2, <1>3, <1>6 DEF Working
  <2> QED BY <1>6, <2>1, RecoveryEntryKinds DEF Entry
<1>7. ASSUME RecoveryRecords PROVE Typed'
  <2>1. /\ Working /\ Entry.kind = "record" /\ Write(Entry.phase, FALSE) /\ Advance
        /\ UNCHANGED << marker, receipt, failures, migration_vars >>
    BY <1>7 DEF RecoveryRecords
  <2>2. Entry.phase \in Phases
    <3>1. process.at \in 1 .. Len(RecoveryPlan)
      BY <1>2, <1>3, <2>1 DEF Working
    <3>2. Entry.phase \in MigrationPhases
      BY <2>1, <3>1, RecoveryEntryKinds DEF Entry
    <3> QED BY <3>2 DEF Phases
  <2>3. journal' \in JournalType /\ journal'.operation = process.operation
    BY <1>0, <1>2, <2>1, <2>2, WriteTyped
  <2>4. MigrationTyped'
    BY <1>0, <2>1, MigrationKept
  <2>5. process.at <= Len(RecoveryPlan) + 1
    BY <1>2, <1>3, <2>1 DEF Working
  <2> QED BY <1>2, <1>5, <2>1, <2>3, <2>4, <2>5, MigrationMoves
<1>8. ASSUME NEW mark \in {"pending", "done"}, Working, Entry.kind = "publish", Checkpoint(mark)
      PROVE  Typed'
  <2> DEFINE step == Step(process.command, Entry.object, mark)
  <2>1. /\ journal' = [journal EXCEPT !.phase = "recovering", !.action = process.command, !.step = step]
        /\ process' = [process EXCEPT !.mark = mark, !.step = step]
        /\ UNCHANGED << marker, receipt, failures, migration_vars >>
    BY <1>8 DEF Checkpoint
  <2>2. step \in StepType
    <3>1. process.command \in Commands /\ Entry.object \in Creations \cup Objects \cup Parts
      BY <1>2, <1>6, <1>8 DEF ProcessType
    <3> QED BY <3>1, StepTyped
  <2> HIDE DEF step
  <2>3. journal' \in JournalType /\ journal'.operation = process.operation
    BY <1>0, <1>2, <1>4, <2>1, <2>2 DEF JournalTyped, JournalType, Phases
  <2>4. /\ process' \in ProcessType /\ process'.command = process.command
        /\ process'.operation = process.operation /\ process'.action = process.action
        /\ process'.at = process.at /\ process'.mark = mark
    BY <1>2, <2>1, <2>2 DEF ProcessType, Marks
  <2>5. MigrationTyped'
    BY <1>0, <2>1, MigrationKept
  <2>6. process.at <= Len(RecoveryPlan) + 2
    BY <1>2, <1>3, <1>8 DEF Working
  <2>7. RecoveryPlan[process'.at].kind = "publish"
    BY <1>8, <2>4 DEF Entry
  <2> QED BY <1>1, <1>2, <2>1, <2>3, <2>4, <2>5, <2>6, <2>7, MigrationMoves
<1>9. Working /\ process.mark # "none" => Entry.kind = "publish"
  BY <1>0, <1>1 DEF Bounded, Entry
<1>10. ASSUME AnnounceChange \/ RecordChange PROVE Typed'
  <2>1. \E mark \in {"pending", "done"} : Working /\ Entry.kind = "publish" /\ Checkpoint(mark)
    BY <1>9, <1>10 DEF AnnounceChange, RecordChange, Due
  <2> QED BY <1>8, <2>1
<1>11. ASSUME MakeChange PROVE Typed'
  <2>1. /\ Working /\ Entry.kind = "publish" /\ process.mark = "pending"
        /\ UNCHANGED << journal, marker, receipt, failures, migrations >>
    BY <1>9, <1>11 DEF MakeChange
  <2>2. CASE process' = process /\ Put(Provenance, "partial")
    <3>1. Provenance \in Objects /\ "partial" \in Places(Provenance)
      BY MigrationObjects DEF Places
    <3>2. MigrationTyped'
      BY <1>0, <2>1, <2>2, <3>1, PutTyped
    <3> QED BY <1>0, <1>1, <1>2, <2>1, <2>2, <3>2, MigrationMoves DEF Bounded, JournalTyped
  <2>3. CASE process' = [process EXCEPT !.mark = "made"] /\ Put(Entry.object, Entry.to)
    <3>1. MigrationTyped'
      BY <1>0, <1>6, <2>1, <2>3, PutTyped
    <3>2. /\ process' \in ProcessType /\ process'.command = process.command
          /\ process'.operation = process.operation /\ process'.action = process.action
          /\ process'.at = process.at /\ process'.mark = "made"
      <4>1. process' \in ProcessType
        BY <1>2, <2>3, ProcessSteps DEF Marks
      <4> QED BY <1>2, <2>3, <4>1 DEF ProcessType
    <3> QED BY <1>0, <1>1, <1>2, <1>9, <2>1, <3>1, <3>2, MigrationMoves
        DEF Bounded, JournalTyped, Entry
  <2> QED BY <1>11, <2>2, <2>3 DEF MakeChange
<1>12. ASSUME PassChange \/ PassOver PROVE Typed'
  <2>1. Working /\ Advance /\ UNCHANGED << journal, marker, receipt, failures, migration_vars >>
    BY <1>12 DEF PassChange, PassOver
  <2>2. MigrationTyped'
    BY <1>0, <2>1, MigrationKept
  <2>3. process.at <= Len(RecoveryPlan) + 1
    BY <1>2, <1>3, <2>1 DEF Working
  <2> QED BY <1>0, <1>2, <1>5, <2>1, <2>2, <2>3, MigrationMoves DEF JournalTyped
<1>13. ASSUME RecoveryRefuses \/ RecoveryReturns PROVE Typed'
  BY <1>0, <1>13, CommandEnds DEF RecoveryRefuses, RecoveryReturns, JournalTyped
<1>14. ASSUME RecoveryCommits PROVE Typed'
  <2>1. /\ process.at = Len(RecoveryPlan) + 1 /\ Advance
        /\ \E phase \in {"rolled-back", "complete"} : Write(phase, TRUE)
        /\ UNCHANGED << marker, receipt, failures, migration_vars >>
    BY <1>14 DEF RecoveryCommits
  <2>2. journal' \in JournalType /\ journal'.operation = process.operation
    BY <1>0, <1>2, <2>1, WriteTyped DEF Phases
  <2>3. MigrationTyped'
    BY <1>0, <2>1, MigrationKept
  <2> QED BY <1>2, <1>3, <1>5, <2>1, <2>2, <2>3, MigrationMoves
<1> QED BY <1>7, <1>10, <1>11, <1>12, <1>13, <1>14 DEF RecoverySteps

(* The steps of a migration and of its recoveries keep the types.             *)
LEMMA MigratesTyped == ASSUME Typed, Migrates PROVE Typed'
<1>0. UNCHANGED << creation_vars, preparation_vars >> /\ MigrationTyped /\ JournalTyped
  BY DEF Migrates, Typed
<1>1. CASE BeginMigration
  <2>1. MigrationTyped'
    <3>1. migrations' \in 0 .. MaxMigrations
      BY <1>0, <1>1, MaxMigrationsAssumption DEF BeginMigration, MigrationTyped
    <3>2. \A o \in Objects : Unmigrated[o] \in Places(o)
      BY DEF Unmigrated, Places
    <3>3. place' = Unmigrated /\ staged' = Staged
      BY <1>1 DEF BeginMigration
    <3> QED BY <3>1, <3>2, <3>3 DEF MigrationTyped, Unmigrated
  <2> QED BY <1>0, <1>1, <2>1, MigrationBegins DEF BeginMigration, Actions
<1>2. CASE WriterSteps
  BY <1>0, <1>2, WriterTyped
<1>3. CASE RecoverySteps
  BY <1>0, <1>3, RecoveryTyped
<1>4. CASE MigrationFails
  <2>1. failures' \in 0 .. MaxFailures /\ process' = Idle
    BY <1>4, FailingTyped DEF MigrationFails
  <2>2. marker' \in BOOLEAN /\ UNCHANGED << journal, receipt, migration_vars >>
    BY <1>4 DEF MigrationFails
  <2> QED BY <1>0, <2>1, <2>2, CommandEnds DEF JournalTyped
<1>5. ASSUME NEW action \in Actions, BeginRecovery(action) PROVE Typed'
  <2>1. MigrationTyped'
    BY <1>0, <1>5, MigrationKept DEF BeginRecovery
  <2> QED BY <1>0, <1>5, <2>1, MigrationBegins DEF BeginRecovery, Actionable, migration_vars
<1> QED BY <1>1, <1>2, <1>3, <1>4, <1>5 DEF Migrates, CommandSteps

(* And so does a command that is killed.                                      *)
LEMMA StopsTyped ==
    ASSUME Typed, Stops, UNCHANGED << creation_vars, preparation_vars >> PROVE Typed'
<1>1. failures' \in 0 .. MaxFailures /\ process' = Idle
  BY FailingTyped DEF Stops
<1> QED BY <1>1, CommandEnds DEF Stops, Typed, JournalTyped

(* The plans of a preparation depend on its type and on what is staged.       *)
LEMMA SamePreparation ==
    ASSUME type' = type
    PROVE  /\ PreparationPlan' = PreparationPlan
           /\ Filed' = Filed /\ StageFiles' = StageFiles
           /\ \A action : Evidence'.staged = Evidence.staged /\ Evidence'.filed = Evidence.filed =>
                 RepairPlan(action)' = RepairPlan(action)
<1>1. PreparationPlan' = PreparationPlan /\ Filed' = Filed /\ StageFiles' = StageFiles
  BY DEF PreparationPlan, PreparationStaging, CandidatePublication, ForRoot, Issued, Filed,
    StageFiles,
         TypeAuthorities, Database
<1>2. Releases' = Releases
  BY DEF Releases, ForRoot
<1>3. Resumption' = Resumption /\ StagedRollback' = StagedRollback
  BY <1>2 DEF Resumption, Renewal, CandidateResumption, StagedRollback, CandidateRollback,
    Issued, ForRoot
<1>4. Evidence'.filed = Evidence.filed => UnstagedRollback' = UnstagedRollback
  BY <1>2 DEF UnstagedRollback
<1> QED BY <1>1, <1>3, <1>4 DEF RepairPlan

(* A change of a part leaves it typed.                                        *)
LEMMA ChangeTyped ==
    ASSUME PreparationTyped, NEW o \in Parts, NEW to \in PartStates(o), ChangePart(o, to),
           UNCHANGED << type, preparations >>
    PROVE  PreparationTyped'
<1>0. Filed' = Filed /\ StageFiles' = StageFiles
  BY SamePreparation
<1>1. /\ \A p \in Parts : part[p] \in PartStates(p)
      /\ part \in [Parts -> UNION {PartStates(p) : p \in Parts}]
      /\ workspace \subseteq Filed \cup StageFiles /\ covered \in BOOLEAN
      /\ \A f \in displaced : f[1] \in Parts /\ f[2] \in PartStates(f[1])
  BY DEF PreparationTyped
<1>2. ASSUME NEW p \in Parts, p \in Contents(Stage) \cup Contents(Directory)
      PROVE  PartStates(p) = {"absent", "staged", "published", "partial"}
  <2>1. p \in {Candidate(a) : a \in Authorities} \cup {RootCopy, Stage, State}
    BY <1>2 DEF Contents, TypeAuthorities, Authorities
  <2> QED BY <2>1, StatesOfParts
<1>3. CASE Make(o) /\ to = "staged"
  <2>1. /\ part' = [p \in Parts |-> IF p = o \/ (o = Stage /\ p \in Contents(Stage))
                                     THEN "staged" ELSE part[p]]
        /\ workspace' = workspace \cup (IF o = Stage THEN StageFiles ELSE {})
        /\ covered' = (o = Directory) /\ displaced' = displaced
    BY <1>3 DEF Make
  <2>2. \A p \in Parts : part'[p] \in PartStates(p)
    BY <1>1, <1>2, <1>3, <2>1
  <2> QED BY <1>0, <1>1, <2>1, <2>2 DEF PreparationTyped
<1>4. CASE Take(o) /\ IsTree(o)
  <2>1. /\ part' = [p \in Parts |->
                   IF p \notin Lost(o) THEN part[p]
                   ELSE IF part[o] = "partial" THEN "absent" ELSE "partial"]
        /\ workspace' \subseteq workspace /\ covered' = covered /\ displaced' = displaced
    BY <1>4 DEF Take
  <2>2. Contents(o) \subseteq Contents(Stage) \cup Contents(Directory)
    BY DEF Contents
  <2>3. PartStates(o) = {"absent", "staged", "published", "partial"}
    BY <1>4 DEF IsTree, PartStates
  <2>4. \A p \in Parts : p \in Lost(o) => PartStates(p) = {"absent", "staged", "published", "partial"}
    BY <1>2, <2>2, <2>3 DEF Lost
  <2>5. \A p \in Parts : part'[p] \in PartStates(p)
    BY <1>1, <2>1, <2>4
  <2> QED BY <1>0, <1>1, <2>1, <2>5 DEF PreparationTyped
<1>5. CASE PutPart(o, to)
  <2>1. /\ part' = [part EXCEPT ![o] = to] /\ workspace' \subseteq workspace /\ covered' = covered
        /\ displaced' \subseteq displaced \cup {<< o, to >>}
    BY <1>5 DEF PutPart
  <2>2. \A p \in Parts : part'[p] \in PartStates(p)
    BY <1>1, <2>1
  <2>3. \A f \in displaced' : f[1] \in Parts /\ f[2] \in PartStates(f[1])
    BY <1>1, <2>1
  <2> QED BY <1>0, <1>1, <2>1, <2>2, <2>3 DEF PreparationTyped
<1> QED BY <1>3, <1>4, <1>5 DEF ChangePart

(* The directory is taken as well.                                            *)
LEMMA TakeTyped ==
    ASSUME PreparationTyped, Take(Directory), UNCHANGED << type, preparations >>
    PROVE  PreparationTyped'
<1>1. ChangePart(Directory, "absent") /\ Directory \in Parts /\ "absent" \in PartStates(Directory)
  BY PartObjects, StatesOfParts DEF ChangePart, IsTree
<1> QED BY <1>1, ChangeTyped

(* The journal of a change: its evidence and its checkpoint.                  *)
LEMMA RecordedTyped ==
    ASSUME JournalTyped, NEW o, NEW to,
           \A k \in Keys : o = DbEntry(k) /\ to = "after" => k \notin Kept,
           \A k \in Keys : o = DbEntry(k) /\ to = "restored" => k \notin Kept \cup Created
    PROVE  /\ Recorded(o, to) \in EvidenceType
           /\ Recorded(o, to).filed = journal.evidence.filed
           /\ Recorded(o, to).staged = journal.evidence.staged
<1> DEFINE e == journal.evidence
           posted == {k \in Keys : o = DbEntry(k) /\ to = "after"}
           restored == {k \in Keys : o = DbEntry(k) /\ to = "restored"}
           laid == e.directory \/ o = Directory
<1>1. e \in EvidenceType
  BY DEF JournalTyped, JournalType
<1>2. posted \subseteq Keys \ Kept /\ restored \subseteq Keys \ (Kept \cup Created)
  OBVIOUS
<1>3. Recorded(o, to) = [e EXCEPT !.directory = @ \/ o = Directory, !.posted = @ \cup posted,
                                  !.restored = @ \cup restored]
  BY DEF Recorded
<1> HIDE DEF e, posted, restored, laid
<1> DEFINE p == e.posted \cup posted
           r == e.restored \cup restored
<1>4. /\ p \in SUBSET (Keys \ Kept) /\ r \in SUBSET (Keys \ (Kept \cup Created))
  BY <1>1, <1>2 DEF EvidenceType
<1>5. Recorded(o, to) = [e EXCEPT !.directory = laid, !.posted = p, !.restored = r]
  BY <1>3 DEF laid
<1>6. laid \in BOOLEAN
  BY DEF laid
<1> HIDE DEF p, r
<1>7. /\ Recorded(o, to) \in EvidenceType
      /\ Recorded(o, to).filed = e.filed /\ Recorded(o, to).staged = e.staged
  BY <1>1, <1>4, <1>5, <1>6 DEF EvidenceType
<1> QED BY <1>7 DEF e

(* The checkpoint of a change, by the command or by a recovery.              *)
LEMMA PartCheckpointTyped ==
    ASSUME JournalTyped, NEW o \in Parts, NEW mark \in {"pending", "done"},
           NEW evidence \in EvidenceType, PartCheckpoint(o, mark, evidence)
    PROVE  /\ journal' \in JournalType /\ journal'.operation = journal.operation
           /\ journal'.phase = "recovering" /\ journal'.committed = journal.committed
           /\ journal'.action = process.action /\ journal'.evidence = evidence
           /\ journal'.step = Step(process.command, o, mark)
<1>1. process.command \in Commands /\ process.action \in Actions \cup {"none"}
  BY DEF JournalTyped, ProcessType
<1>2. Step(process.command, o, mark) \in StepType
  BY <1>1, StepTyped
<1>3. \A s \in StepType, a \in Actions \cup {"none"} :
        LET j == [journal EXCEPT !.phase = "recovering", !.action = a, !.step = s,
                                 !.evidence = evidence]
        IN  /\ j \in JournalType /\ j.operation = journal.operation /\ j.phase = "recovering"
            /\ j.committed = journal.committed /\ j.action = a /\ j.step = s
            /\ j.evidence = evidence
  <2>1. journal \in JournalType /\ "recovering" \in Phases
    BY DEF JournalTyped, Phases
  <2> QED BY <2>1 DEF JournalType
<1> DEFINE s == Step(process.command, o, mark)
<1>4. journal' = [journal EXCEPT !.phase = "recovering", !.action = process.action, !.step = s,
                                 !.evidence = evidence]
  BY DEF PartCheckpoint
<1>5. s \in StepType
  BY <1>2
<1> HIDE DEF s
<1>6. /\ journal' \in JournalType /\ journal'.operation = journal.operation
      /\ journal'.phase = "recovering" /\ journal'.committed = journal.committed
      /\ journal'.action = process.action /\ journal'.evidence = evidence /\ journal'.step = s
  BY <1>1, <1>3, <1>4, <1>5
<1> QED BY <1>6 DEF s

(* What a change of a part may ask for: an entry of the database that is kept  *)
(* is never changed, and one that is created never restored.                  *)
Lawful(o, to) ==
    /\ o \in Parts /\ to \in PartStates(o)
    /\ \A k \in Keys : o = DbEntry(k) /\ to = "after" => k \notin Kept
    /\ \A k \in Keys : o = DbEntry(k) /\ to = "restored" => k \notin Kept \cup Created

(* A change of a rollback is lawful.                                         *)
LEMMA LawfulRepair ==
    ASSUME type \in Types, NEW o \in RolledBack \cup EndingParts
    PROVE  RepairOf(o).object = o /\ Lawful(o, RepairOf(o).to)
<1>1. Database \subseteq Keys
  BY IssuedIs
<1>2. ASSUME NEW k \in Database \ Kept, o = DbEntry(k)
      PROVE  RepairOf(o).object = o /\ Lawful(o, RepairOf(o).to)
  <2>1. RepairOf(o) = Fix(o, {"after"}, IF k \in Created THEN "before" ELSE "restored")
    BY <1>1, <1>2, RepairIs DEF Restore
  <2>2. o \in Parts /\ PartStates(o) = {"before", "after", "restored"}
    BY <1>1, <1>2, PartObjects, StatesOfParts
  <2>3. \A l \in Keys : o = DbEntry(l) => l = k
    BY <1>2 DEF DbEntry
  <2> QED BY <2>1, <2>2, <2>3 DEF Fix, Lawful
<1>3. ASSUME NEW a \in Authorities, o = Reserved(a)
      PROVE  RepairOf(o).object = o /\ Lawful(o, RepairOf(o).to)
  <2>1. RepairOf(o) = Fix(o, {"absent", "reserved", "consumed"}, "abandoned")
    BY <1>3, RepairIs DEF Release
  <2>2. o \in Parts /\ PartStates(o) = {"absent", "reserved", "consumed", "abandoned"}
    BY <1>3, PartObjects, StatesOfParts
  <2> QED BY <2>1, <2>2 DEF Fix, Lawful
<1>4. ASSUME o \in {State, Stage, Pointer, BackupSession} \cup {Candidate(a) : a \in Authorities}
      PROVE  RepairOf(o).object = o /\ Lawful(o, RepairOf(o).to)
  <2>1. RepairOf(o).object = o /\ RepairOf(o).to = "absent"
    BY <1>4, RepairIs DEF Fix
  <2>2. CASE o \in {State, Stage, Pointer, BackupSession}
    <3>1. o \in Parts /\ "absent" \in PartStates(o)
      BY <2>2, PartObjects, StatesOfParts
    <3> QED BY <2>1, <3>1 DEF Lawful
  <2>3. ASSUME NEW a \in Authorities, o = Candidate(a)
        PROVE  RepairOf(o).object = o /\ Lawful(o, RepairOf(o).to)
    <3>1. o \in Parts /\ PartStates(o) = {"absent", "staged", "published", "partial"}
      BY <2>3, PartObjects, StatesOfParts
    <3> QED BY <2>1, <3>1 DEF Lawful
  <2> QED BY <1>4, <2>2, <2>3
<1> QED BY <1>2, <1>3, <1>4
    DEF RolledBack, EndingParts, Candidates, Reservations, DatabaseParts,
                                TypeAuthorities, Authorities

(* A change of a resume is lawful.                                           *)
LEMMA LawfulCompletion ==
    ASSUME type \in Types, NEW o \in CandidateParts
    PROVE  CompletionOf(o).object = o /\ Lawful(o, CompletionOf(o).to)
<1>1. Database \subseteq Keys
  BY IssuedIs
<1>2. ASSUME NEW k \in Database \ Kept, o = DbEntry(k)
      PROVE  CompletionOf(o).object = o /\ Lawful(o, CompletionOf(o).to)
  <2>1. CompletionOf(o) = Fix(o, {"before"}, "after")
    BY <1>1, <1>2, CompletionIs
  <2>2. o \in Parts /\ PartStates(o) = {"before", "after", "restored"}
    BY <1>1, <1>2, PartObjects, StatesOfParts
  <2>3. \A l \in Keys : o = DbEntry(l) => l = k
    BY <1>2 DEF DbEntry
  <2> QED BY <2>1, <2>2, <2>3 DEF Fix, Lawful
<1>3. ASSUME NEW a \in Authorities, o = Reserved(a)
      PROVE  CompletionOf(o).object = o /\ Lawful(o, CompletionOf(o).to)
  <2>1. CompletionOf(o) = Fix(o, {"reserved"}, "consumed")
    BY <1>3, CompletionIs DEF Spend
  <2>2. o \in Parts /\ PartStates(o) = {"absent", "reserved", "consumed", "abandoned"}
    BY <1>3, PartObjects, StatesOfParts
  <2> QED BY <2>1, <2>2 DEF Fix, Lawful
<1>4. ASSUME o \in {State, RootCopy} \cup {Candidate(a) : a \in Authorities}
      PROVE  CompletionOf(o).object = o /\ Lawful(o, CompletionOf(o).to)
  <2>1. CompletionOf(o).object = o /\ CompletionOf(o).to \in {"published", "absent"}
    BY <1>4, CompletionIs DEF Fix, Move
  <2>2. CASE o \in {State, RootCopy}
    <3>1. o \in Parts /\ PartStates(o) = {"absent", "staged", "published", "partial"}
      BY <2>2, PartObjects, StatesOfParts
    <3> QED BY <2>1, <2>2, <3>1 DEF Lawful, DbEntry, State, RootCopy
  <2>3. ASSUME NEW a \in Authorities, o = Candidate(a)
        PROVE  CompletionOf(o).object = o /\ Lawful(o, CompletionOf(o).to)
    <3>1. o \in Parts /\ PartStates(o) = {"absent", "staged", "published", "partial"}
      BY <2>3, PartObjects, StatesOfParts
    <3> QED BY <2>1, <2>3, <3>1 DEF Lawful, DbEntry, Candidate
  <2> QED BY <1>4, <2>2, <2>3
<1> QED BY <1>2, <1>3, <1>4
    DEF CandidateParts, Candidates, Reservations, DatabaseParts, CopyParts,
                                TypeAuthorities, Authorities

(* The entries of either recovery.                                           *)
LEMMA RepairEntryKinds ==
    ASSUME type \in Types, NEW action \in Actions, NEW i \in 1 .. Len(RepairPlan(action))
    PROVE  Lawful(RepairPlan(action)[i].object, RepairPlan(action)[i].to)
<1>1. CASE action = "resume"
  <2>1. RepairPlan(action) = Resumption
    BY <1>1 DEF RepairPlan
  <2>2. CASE Resumption[i] = Fix(Pointer, {"absent"}, "published")
    <3>1. Pointer \in Parts /\ "published" \in PartStates(Pointer)
      BY PartObjects, StatesOfParts
    <3>2. \A k \in Keys : Pointer # DbEntry(k)
      BY DEF DbEntry, Pointer
    <3> QED BY <2>1, <2>2, <3>1, <3>2 DEF Fix, Lawful
  <2>3. CASE Resumption[i] \in Renewals
    <3>1. CASE Resumption[i] = Fix(BackupSession, {"absent"}, "published")
      <4>1. BackupSession \in Parts /\ "published" \in PartStates(BackupSession)
        BY PartObjects, StatesOfParts
      <4>2. \A k \in Keys : BackupSession # DbEntry(k)
        BY DEF DbEntry, BackupSession
      <4> QED BY <2>1, <3>1, <4>1, <4>2 DEF Fix, Lawful
    <3>2. ASSUME NEW a \in Authorities, Resumption[i] = Renew(a)
          PROVE  Lawful(RepairPlan(action)[i].object, RepairPlan(action)[i].to)
      <4>1. Reserved(a) \in Parts /\ "reserved" \in PartStates(Reserved(a))
        <5>1. Reserved(a) \in Parts
          BY PartObjects
        <5>2. PartStates(Reserved(a)) = {"absent", "reserved", "consumed", "abandoned"}
          BY StatesOfParts
        <5> QED BY <5>1, <5>2
      <4>2. \A k \in Keys : Reserved(a) # DbEntry(k)
        BY DEF DbEntry, Reserved
      <4> QED BY <2>1, <3>2, <4>1, <4>2 DEF Renew, Fix, Lawful
    <3> QED BY <2>3, <3>1, <3>2 DEF Renewals, TypeAuthorities, Authorities
  <2>4. CASE Resumption[i] \in CompletionsOf(CandidateParts)
    BY <2>1, <2>4, LawfulCompletion DEF CompletionsOf
  <2> QED BY <2>1, <2>2, <2>3, <2>4, ResumptionIs
<1>2. CASE action # "resume" /\ Evidence.staged
  <2>1. RepairPlan(action) = StagedRollback
    BY <1>2 DEF RepairPlan
  <2>2. StagedRollback[i] \in Repairings(RolledBack \cup EndingParts)
    BY <2>1, StagedRollbackIs DEF Repairings
  <2> QED BY <2>1, <2>2, LawfulRepair DEF Repairings
<1>3. CASE action # "resume" /\ ~Evidence.staged
  <2>1. RepairPlan(action) = UnstagedRollback
    BY <1>3 DEF RepairPlan
  <2>2. UnstagedRollback[i] \in Repairings(RolledBack \cup EndingParts)
    BY <2>1, UnstagedRollbackIs DEF Repairings, EndingParts
  <2> QED BY <2>1, <2>2, LawfulRepair DEF Repairings
<1> QED BY <1>1, <1>2, <1>3

(* A change that the command makes is lawful too.                             *)
LEMMA PreparationLawful ==
    ASSUME type \in Types, NEW i \in 1 .. Len(PreparationPlan), PreparationPlan[i].kind = "change"
    PROVE  Lawful(PreparationPlan[i].object, PreparationPlan[i].to)
<1> DEFINE e == PreparationPlan[i]
<1>1. /\ e.object \in Parts /\ e.to \in PartStates(e.object)
      /\ e.to \notin {"before", "restored", "abandoned", "partial"}
  <2>1. \A phase \in PreparationPhases : "note" # "change"
    OBVIOUS
  <2> QED BY PreparationEntryKinds
<1>2. ASSUME NEW k \in Keys, e.object = DbEntry(k), e.to = "after" PROVE k \notin Kept
  <2>1. CASE i <= Len(PreparationStaging)
    <3>1. e \in StagingEntries
      BY <2>1, PreparationPlanIs
    <3> QED BY <1>2, <3>1 DEF StagingEntries, Notes, Note, Fill, Change
  <2>2. CASE i > Len(PreparationStaging) /\ i < Len(PreparationPlan)
    <3>1. e \in Changes(CandidateParts)
      BY <2>2, PreparationPlanIs
    <3>2. PICK o \in CandidateParts : e = Change(o, FinalPart(o))
      BY <3>1 DEF Changes
    <3>3. o = DbEntry(k)
      BY <1>2, <3>2 DEF Change
    <3> QED BY <3>3
        DEF CandidateParts, Candidates, Reservations, DatabaseParts, CopyParts, DbEntry,
                        Candidate, Reserved, RootCopy, State
  <2>3. CASE i = Len(PreparationPlan)
    <3>1. e = Change(Pointer, "published")
      BY <2>3, PreparationPlanIs
    <3> QED BY <1>2, <3>1 DEF Change, Pointer, DbEntry
  <2> QED BY <2>1, <2>2, <2>3, PreparationPlanIs
<1> QED BY <1>1, <1>2 DEF Lawful

(* A running preparation or its recovery moves on, in its plan or to its end.  *)
LEMMA PreparationMoves ==
    ASSUME Typed, UNCHANGED << creation_vars, migration_vars >>,
           process.operation = "rollover-prepare", Preparing \/ Repairing, type' = type,
           process' \in ProcessType,
           process'.command = process.command, process'.operation = process.operation,
           process'.action = process.action, process'.at >= 1, process'.mark # "done",
           Preparing =>
               /\ process'.at <= Len(PreparationPlan) + 1 /\ process'.at > 1
               /\ process'.mark \in {"committed", "marked", "receipted", "dropped"} =>
                     process'.at = Len(PreparationPlan) + 1,
           Repairing /\ process'.mark # "dropped" =>
               process'.at <= Len(RepairPlan(process.command)) + 1,
           \/ journal' = NoJournal /\ process'.mark = "dropped"
           \/ /\ journal'.operation = "rollover-prepare"
              /\ Repairing => /\ journal'.evidence.staged = journal.evidence.staged
                              /\ journal'.evidence.filed = journal.evidence.filed,
           journal' \in JournalType, marker' \in BOOLEAN, receipt' \in BOOLEAN,
           failures' = failures, PreparationTyped'
    PROVE  Typed'
<1>0. JournalTyped /\ Control /\ Bounded
  BY DEF Typed
<1>1. JournalTyped'
  BY <1>0 DEF JournalTyped
<1>2. Control'
  <2>1. process.command # "none"
    BY DEF Preparing, Repairing, Actions
  <2> QED BY <1>0, <2>1, ControlStep DEF creation_vars
<1>3. Bounded'
  <2>1. PreparationPlan' = PreparationPlan
    BY SamePreparation
  <2>2. /\ process.operation \notin Bootstraps /\ process.operation # "legacy-migrate"
        /\ process.command \notin {"create", "abort", "migrate"}
    BY <1>0 DEF Bootstraps, Control
  <2>3. Repairing /\ process'.mark # "dropped" =>
           RepairPlan(process.command)' = RepairPlan(process.command)
    <3> SUFFICES ASSUME Repairing, process'.mark # "dropped"
                 PROVE  RepairPlan(process.command)' = RepairPlan(process.command)
      OBVIOUS
    <3>1. Evidence'.staged = Evidence.staged /\ Evidence'.filed = Evidence.filed
      BY DEF Evidence
    <3>2. /\ Resumption' = Resumption /\ StagedRollback' = StagedRollback
          /\ UnstagedRollback' = UnstagedRollback
      <4>1. Releases' = Releases
        BY DEF Releases, ForRoot
      <4> QED BY <3>1, <4>1 DEF UnstagedRollback, Resumption, Renewal, CandidateResumption,
                  StagedRollback, CandidateRollback, Issued, ForRoot
    <3> QED BY <3>1, <3>2 DEF RepairPlan
  <2>4. Repairing' <=> Repairing
    BY DEF Repairing
  <2>5. Preparing' <=> Preparing
    BY DEF Preparing
  <2>6. Repairing /\ process'.mark # "dropped" =>
           process'.at <= Len(RepairPlan(process.command)') + 1
    BY <2>3
  <2>7. Preparing /\ process'.mark # "dropped" => journal'.operation = process'.operation
    OBVIOUS
  <2> QED BY <2>1, <2>2, <2>4, <2>5, <2>6, <2>7
      DEF Bounded, Creating, Withdrawing, Completing, Writing,
                   Recovering, Bootstraps
<1>4. CreationTyped' /\ MigrationTyped'
  BY CreationKept, MigrationKept DEF Typed
<1> QED BY <1>1, <1>2, <1>3, <1>4 DEF Typed

(* The ways a running preparation goes on.                                    *)
LEMMA DoneTyped ==
    ASSUME JournalTyped, process.at >= 1
    PROVE  /\ Done => /\ process' \in ProcessType /\ process'.command = process.command
                      /\ process'.operation = process.operation /\ process'.action = process.action
                      /\ process'.at = process.at + 1 /\ process'.mark = "none"
                      /\ process'.step = process.step
           /\ \A mark \in Marks : process' = [process EXCEPT !.mark = mark] =>
                   /\ process' \in ProcessType /\ process'.command = process.command
                   /\ process'.operation = process.operation /\ process'.action = process.action
                   /\ process'.at = process.at /\ process'.mark = mark
                   /\ process'.step = process.step
<1>0. process \in ProcessType /\ process.at \in Nat
  BY DEF JournalTyped, ProcessType
<1>1. ASSUME Done
      PROVE  /\ process' \in ProcessType /\ process'.command = process.command
             /\ process'.operation = process.operation /\ process'.action = process.action
             /\ process'.at = process.at + 1 /\ process'.mark = "none" /\ process'.step = process.step
  <2>1. process' \in ProcessType
    BY <1>0, <1>1, ProcessSteps DEF Done
  <2> QED BY <1>0, <1>1, <2>1 DEF Done, ProcessType
<1>2. ASSUME NEW mark \in Marks, process' = [process EXCEPT !.mark = mark]
      PROVE  /\ process' \in ProcessType /\ process'.command = process.command
             /\ process'.operation = process.operation /\ process'.action = process.action
             /\ process'.at = process.at /\ process'.mark = mark /\ process'.step = process.step
  <2>1. process' \in ProcessType
    BY <1>0, <1>2, ProcessSteps
  <2> QED BY <1>0, <1>2, <2>1 DEF ProcessType
<1> QED BY <1>1, <1>2

(* The journal of a note.                                                     *)
LEMMA NotedTyped ==
    ASSUME JournalTyped, NEW phase \in PreparationPhases, NEW b \in BOOLEAN,
           journal' = [journal EXCEPT !.phase = phase, !.evidence.filed = TRUE, !.evidence.staged = b]
    PROVE  /\ journal' \in JournalType /\ journal'.operation = journal.operation
           /\ journal'.phase = phase /\ journal'.committed = journal.committed
           /\ journal'.action = journal.action /\ journal'.step = journal.step
           /\ journal'.evidence.directory = journal.evidence.directory
           /\ journal'.evidence.filed = TRUE /\ journal'.evidence.staged = b
           /\ journal'.evidence.posted = journal.evidence.posted
           /\ journal'.evidence.restored = journal.evidence.restored
<1> DEFINE e == [journal.evidence EXCEPT !.filed = TRUE, !.staged = b]
<1>1. journal.evidence \in EvidenceType
  BY DEF JournalTyped, JournalType
<1>2. /\ e \in EvidenceType /\ e.filed = TRUE /\ e.staged = b
      /\ e.directory = journal.evidence.directory /\ e.posted = journal.evidence.posted
      /\ e.restored = journal.evidence.restored
  BY <1>1 DEF EvidenceType
<1>3. journal' = [journal EXCEPT !.phase = phase, !.evidence = e]
  BY DEF JournalTyped, JournalType
<1> HIDE DEF e
<1> QED BY <1>2, <1>3 DEF JournalTyped, JournalType, Phases

(* The journal of a commit.                                                   *)
LEMMA CommitTyped ==
    ASSUME JournalTyped, NEW outcome \in Actions, NEW b \in BOOLEAN,
           journal' = [journal EXCEPT !.phase = "terminal-cleanup", !.committed = TRUE,
                                      !.action = outcome, !.step = NoStep, !.evidence.directory = b]
    PROVE  /\ journal' \in JournalType /\ journal'.operation = journal.operation
           /\ journal'.phase = "terminal-cleanup" /\ journal'.committed = TRUE
           /\ journal'.action = outcome /\ journal'.step = NoStep
           /\ journal'.evidence.directory = b
           /\ journal'.evidence.filed = journal.evidence.filed
           /\ journal'.evidence.staged = journal.evidence.staged
           /\ journal'.evidence.posted = journal.evidence.posted
           /\ journal'.evidence.restored = journal.evidence.restored
<1> DEFINE e == [journal.evidence EXCEPT !.directory = b]
<1>1. journal.evidence \in EvidenceType /\ NoStep \in StepType
  BY NoJournalTyped DEF JournalTyped, JournalType
<1>2. /\ e \in EvidenceType /\ e.directory = b /\ e.staged = journal.evidence.staged
      /\ e.filed = journal.evidence.filed /\ e.posted = journal.evidence.posted
      /\ e.restored = journal.evidence.restored
  BY <1>1 DEF EvidenceType
<1>3. journal' = [journal EXCEPT !.phase = "terminal-cleanup", !.committed = TRUE,
                                 !.action = outcome, !.step = NoStep, !.evidence = e]
  BY DEF JournalTyped, JournalType
<1> HIDE DEF e
<1>4. "terminal-cleanup" \in Phases
  BY DEF Phases, PreparationPhases
<1> QED BY <1>1, <1>2, <1>3, <1>4 DEF JournalTyped, JournalType

(* The steps of a preparation.                                               *)
LEMMA PreparerTyped ==
    ASSUME Typed, UNCHANGED << creation_vars, migration_vars >>, PreparerSteps
    PROVE  Typed'
<1>0. JournalTyped /\ PreparationTyped /\ Control /\ Bounded
  BY DEF Typed
<1>1. /\ Preparing /\ process.at <= Len(PreparationPlan)
      /\ UNCHANGED << marker, receipt, failures, type, preparations >>
  BY DEF PreparerSteps, PreparerNotes, PreparerFills, PreparerAnnounces, PreparerChanges,
         PreparerUnlinks, Unlink, PreparerRecords, PreparerAt
<1>2. /\ process.operation = "rollover-prepare" /\ type \in Types /\ ~Repairing
      /\ process.at \in Nat /\ process.at >= 1
  BY <1>0, <1>1 DEF Control, Preparing, Repairing, JournalTyped, ProcessType, Actions
<1>3. process.at \in 1 .. Len(PreparationPlan) /\ Len(PreparationPlan) \in Nat
  BY <1>1, <1>2, PreparationPlanIs
<1> DEFINE e == PreparationPlan[process.at]
<1>4. process.mark \in {"none", "pending", "made", "done"}
  BY <1>0, <1>1, <1>3 DEF Bounded, JournalTyped, ProcessType, Marks
<1>5. process.at = 1 => e = Note("planned")
  BY <1>2, <1>3, StagingIs, PreparationPlanIs
<1>6. e.kind # "note" => process.at > 1 /\ journal.operation = "rollover-prepare"
  <2>1. Note("planned").kind = "note"
    BY DEF Note
  <2>2. e.kind # "note" => process.at > 1
    BY <1>2, <1>5, <2>1
  <2> QED BY <1>0, <1>1, <1>2, <1>4, <2>2 DEF Bounded
<1>7. e.kind = "note" => e.phase \in PreparationPhases
  BY <1>2, <1>3, PreparationEntryKinds
<1>8. e.kind = "change" => Lawful(e.object, e.to)
  BY <1>2, <1>3, PreparationLawful
<1> HIDE DEF e
<1>9. ASSUME PreparerNotes PROVE Typed'
  <2>1. /\ e.kind = "note" /\ Done /\ UNCHANGED << part, workspace, displaced >>
        /\ journal' = IF e.phase = "planned"
                      THEN [NoJournal EXCEPT !.operation = "rollover-prepare", !.phase = e.phase]
                      ELSE [journal EXCEPT !.phase = e.phase, !.evidence.filed = TRUE,
                                           !.evidence.staged = (e.phase = "staged")]
        /\ covered' = (covered \/ e.phase = "transaction-staged")
    BY <1>9 DEF PreparerNotes, PreparerAt, e
  <2>2. journal' \in JournalType /\ journal'.operation = "rollover-prepare"
    <3>1. CASE e.phase = "planned"
      <4>1. "rollover-prepare" \in Operations /\ "planned" \in Phases
        BY DEF Operations, Phases, PreparationPhases
      <4> QED BY <2>1, <3>1, <4>1, NoJournalTyped DEF JournalType
    <3>2. CASE e.phase # "planned"
      <4>1. process.at > 1 /\ journal.operation = "rollover-prepare"
        BY <1>0, <1>1, <1>2, <1>4, <1>5, <3>2 DEF Bounded, Note
      <4>2. PICK b \in BOOLEAN :
               journal' = [journal EXCEPT !.phase = e.phase, !.evidence.filed = TRUE,
                                          !.evidence.staged = b]
        BY <2>1, <3>2
      <4> QED BY <1>0, <1>7, <2>1, <4>1, <4>2, NotedTyped
    <3> QED BY <3>1, <3>2
  <2>3. PreparationTyped'
    <3>1. Filed' = Filed /\ StageFiles' = StageFiles
      BY <1>1, SamePreparation
    <3>2. covered' \in BOOLEAN
      BY <2>1
    <3> QED BY <1>0, <1>1, <2>1, <3>1, <3>2 DEF PreparationTyped
  <2>4. /\ process' \in ProcessType /\ process'.command = process.command
        /\ process'.operation = process.operation /\ process'.action = process.action
        /\ process'.at = process.at + 1 /\ process'.mark = "none"
    BY <1>0, <1>2, <2>1, DoneTyped
  <2>5. marker' \in BOOLEAN /\ receipt' \in BOOLEAN
    BY <1>0, <1>1 DEF JournalTyped
  <2> QED BY <1>1, <1>2, <1>3, <2>2, <2>3, <2>4, <2>5, PreparationMoves
<1>10. ASSUME PreparerFills PROVE Typed'
  <2>1. /\ e.kind = "fill" /\ Done /\ UNCHANGED << journal, part, displaced >>
        /\ workspace' = Filed /\ covered' = FALSE
    BY <1>10 DEF PreparerFills, PreparerAt, e
  <2>2. PreparationTyped'
    <3>1. Filed' = Filed
      BY <1>1, SamePreparation
    <3> QED BY <1>0, <1>1, <2>1, <3>1 DEF PreparationTyped
  <2> QED BY <1>0, <1>1, <1>2, <1>3, <1>6, <2>1, <2>2, DoneTyped, PreparationMoves
      DEF JournalTyped
<1>11. ASSUME PreparerAnnounces PROVE Typed'
  <2>1. /\ e.kind = "change" /\ PartCheckpoint(e.object, "pending", journal.evidence)
        /\ process' = [process EXCEPT !.mark = "pending"]
        /\ covered' = TRUE /\ UNCHANGED << part, workspace, displaced >>
    BY <1>11 DEF PreparerAnnounces, PreparerAt, e
  <2>2. PreparationTyped'
    <3>1. Filed' = Filed /\ StageFiles' = StageFiles
      BY <1>1, SamePreparation
    <3> QED BY <1>0, <1>1, <2>1, <3>1 DEF PreparationTyped
  <2>3. journal' \in JournalType /\ journal'.operation = "rollover-prepare"
    BY <1>0, <1>6, <1>8, <2>1, PartCheckpointTyped DEF JournalTyped, JournalType, Lawful
  <2>4. "pending" \in Marks
    BY DEF Marks
  <2> QED BY <1>0, <1>1, <1>2, <1>3, <1>6, <2>1, <2>2, <2>3, <2>4, DoneTyped, PreparationMoves
          DEF JournalTyped
<1>12. ASSUME PreparerChanges PROVE Typed'
  <2>1. /\ e.kind = "change" /\ ChangePart(e.object, e.to) /\ UNCHANGED journal
        /\ \E mark \in {"pending", "made"} : process' = [process EXCEPT !.mark = mark]
    <3>1. /\ process.mark = "pending"
          /\ process' = [process EXCEPT !.mark =
                            IF part'[e.object] = "partial" THEN process.mark ELSE "made"]
      BY <1>12 DEF PreparerChanges, e
    <3> QED BY <1>12, <3>1 DEF PreparerChanges, PreparerAt, e
  <2>2. PreparationTyped'
    BY <1>0, <1>1, <1>8, <2>1, ChangeTyped DEF Lawful
  <2>4. {"pending", "made"} \subseteq Marks
    BY DEF Marks
  <2> QED BY <1>0, <1>1, <1>2, <1>3, <1>6, <2>1, <2>2, <2>4, DoneTyped, PreparationMoves
          DEF JournalTyped
<1>13. ASSUME PreparerRecords PROVE Typed'
  <2>1. /\ e.kind = "change" /\ PartCheckpoint(e.object, "done", Recorded(e.object, e.to))
        /\ Done /\ covered' = TRUE /\ UNCHANGED << part, workspace, displaced >>
    BY <1>13 DEF PreparerRecords, PreparerAt, e
  <2>2. PreparationTyped'
    <3>1. Filed' = Filed /\ StageFiles' = StageFiles
      BY <1>1, SamePreparation
    <3> QED BY <1>0, <1>1, <2>1, <3>1 DEF PreparationTyped
  <2>3. Recorded(e.object, e.to) \in EvidenceType
    BY <1>0, <1>8, <2>1, RecordedTyped DEF Lawful
  <2>4. journal' \in JournalType /\ journal'.operation = "rollover-prepare"
    BY <1>0, <1>6, <1>8, <2>1, <2>3, PartCheckpointTyped DEF Lawful
  <2> QED BY <1>0, <1>1, <1>2, <1>3, <1>6, <2>1, <2>2, <2>4, DoneTyped, PreparationMoves
          DEF JournalTyped
<1>14. ASSUME PreparerUnlinks PROVE Typed'
  <2>1. /\ UNCHANGED << journal, process, part, workspace, covered >> /\ displaced' \subseteq displaced
        /\ process.mark = "made" /\ e.kind = "change"
    BY <1>14, Unlinked DEF PreparerAt, e
  <2>2. PreparationTyped'
    BY <1>0, <1>1, <2>1, UnlinkTyped
  <2> QED BY <1>0, <1>1, <1>2, <1>3, <1>6, <2>1, <2>2, PreparationMoves DEF JournalTyped
<1> QED BY <1>9, <1>10, <1>11, <1>12, <1>13, <1>14 DEF PreparerSteps

(* The steps of a recovery of a preparation.                                 *)
LEMMA RepairerTyped ==
    ASSUME Typed, UNCHANGED << creation_vars, migration_vars >>, RepairSteps
    PROVE  Typed'
<1>0. JournalTyped /\ PreparationTyped /\ Control /\ Bounded
  BY DEF Typed
<1>1. /\ Repairing /\ process.at <= Len(RepairPlan(process.command))
      /\ UNCHANGED << marker, receipt, failures, type, preparations >>
      /\ process.mark \in {"none", "pending", "made"}
  BY DEF RepairSteps, RepairAnnounces, RepairChanges, RepairRefuses, RepairUnlinks, Unlink,
         RepairRecords, RepairPasses, RepairsOn
<1>2. /\ process.operation = "rollover-prepare" /\ type \in Types /\ ~Preparing
      /\ process.at \in Nat /\ process.at >= 1 /\ process.command \in Actions
      /\ journal.operation = "rollover-prepare"
  BY <1>0, <1>1 DEF Control, Preparing, Repairing, JournalTyped, ProcessType, Actions
<1>3. Len(RepairPlan(process.command)) \in Nat
  BY <1>2, StagedRollbackIs, UnstagedRollbackIs, ResumptionIs DEF RepairPlan
<1>4. Lawful(RepairEntry.object, RepairEntry.to)
  <2>1. process.at \in 1 .. Len(RepairPlan(process.command))
    BY <1>1, <1>2, <1>3
  <2> QED BY <1>2, <2>1, RepairEntryKinds DEF RepairEntry
<1>5. ASSUME Done \/ \E mark \in {"pending", "made"} : process' = [process EXCEPT !.mark = mark]
      PROVE  /\ process' \in ProcessType /\ process'.command = process.command
             /\ process'.operation = process.operation /\ process'.action = process.action
             /\ process'.at >= 1 /\ process'.at <= Len(RepairPlan(process.command)) + 1
             /\ process'.mark \in {"none", "pending", "made"}
  <2>1. {"pending", "made"} \subseteq Marks
    BY DEF Marks
  <2> QED BY <1>0, <1>1, <1>2, <1>3, <1>5, <2>1, DoneTyped
<1>6. ASSUME UNCHANGED << part, workspace, covered, displaced >> PROVE PreparationTyped'
  BY <1>0, <1>1, <1>6, PreparationKept DEF preparation_vars
<1>7. ASSUME NEW mark \in {"pending", "done"}, NEW evidence \in EvidenceType,
             PartCheckpoint(RepairEntry.object, mark, evidence),
             evidence.staged = journal.evidence.staged, evidence.filed = journal.evidence.filed
      PROVE  /\ journal' \in JournalType /\ journal'.operation = "rollover-prepare"
             /\ journal'.evidence.staged = journal.evidence.staged
             /\ journal'.evidence.filed = journal.evidence.filed
  BY <1>0, <1>2, <1>4, <1>7, PartCheckpointTyped DEF Lawful
<1>8. journal.evidence \in EvidenceType /\ journal \in JournalType
  BY <1>0 DEF JournalTyped, JournalType
<1>9. marker' \in BOOLEAN /\ receipt' \in BOOLEAN
  BY <1>0, <1>1 DEF JournalTyped
<1>10. ASSUME RepairAnnounces PROVE Typed'
  <2>1. /\ PartCheckpoint(RepairEntry.object, "pending", journal.evidence)
        /\ process' = [process EXCEPT !.mark = "pending"] /\ UNCHANGED << part, workspace, covered, displaced >>
    BY <1>10 DEF RepairAnnounces, Evidence
  <2>2. /\ journal' \in JournalType /\ journal'.operation = "rollover-prepare"
        /\ journal'.evidence.staged = journal.evidence.staged
        /\ journal'.evidence.filed = journal.evidence.filed
    BY <1>7, <1>8, <2>1
  <2> QED BY <1>1, <1>2, <1>5, <1>6, <1>9, <2>1, <2>2, PreparationMoves
<1>11. ASSUME RepairChanges PROVE Typed'
  <2>1. /\ ChangePart(RepairEntry.object, RepairEntry.to) /\ UNCHANGED journal
        /\ \E mark \in {"pending", "made"} : process' = [process EXCEPT !.mark = mark]
    <3>1. /\ process.mark = "pending"
          /\ process' = [process EXCEPT !.mark =
                            IF part'[RepairEntry.object] = "partial" THEN process.mark ELSE "made"]
      BY <1>11 DEF RepairChanges
    <3> QED BY <1>11, <3>1 DEF RepairChanges
  <2>2. PreparationTyped'
    BY <1>0, <1>1, <1>4, <2>1, ChangeTyped DEF Lawful
  <2> QED BY <1>1, <1>2, <1>5, <1>8, <1>9, <2>1, <2>2, PreparationMoves
<1>12. ASSUME RepairRefuses PROVE Typed'
  <2>1. process' = Idle /\ UNCHANGED << journal, preparation_vars >>
    BY <1>1, <1>12 DEF RepairRefuses, preparation_vars
  <2> QED BY <1>0, <1>1, <1>9, <2>1, CommandEnds DEF JournalTyped
<1>13. ASSUME RepairRecords PROVE Typed'
  <2>1. /\ PartCheckpoint(RepairEntry.object, "done", Recorded(RepairEntry.object, RepairEntry.to))
        /\ Done /\ UNCHANGED << part, workspace, covered, displaced >>
    BY <1>13 DEF RepairRecords
  <2>2. /\ Recorded(RepairEntry.object, RepairEntry.to) \in EvidenceType
        /\ Recorded(RepairEntry.object, RepairEntry.to).filed = journal.evidence.filed
        /\ Recorded(RepairEntry.object, RepairEntry.to).staged = journal.evidence.staged
    BY <1>0, <1>4, RecordedTyped DEF Lawful
  <2>3. /\ journal' \in JournalType /\ journal'.operation = "rollover-prepare"
        /\ journal'.evidence.staged = journal.evidence.staged
        /\ journal'.evidence.filed = journal.evidence.filed
    BY <1>7, <2>1, <2>2
  <2> QED BY <1>1, <1>2, <1>5, <1>6, <1>9, <2>1, <2>3, PreparationMoves
<1>14. ASSUME RepairPasses PROVE Typed'
  <2>1. Done /\ UNCHANGED << journal, part, workspace, covered, displaced >>
    BY <1>14 DEF RepairPasses
  <2> QED BY <1>1, <1>2, <1>5, <1>6, <1>8, <1>9, <2>1, PreparationMoves
<1>15. ASSUME RepairUnlinks PROVE Typed'
  <2>1. /\ UNCHANGED << journal, process, part, workspace, covered >> /\ displaced' \subseteq displaced
        /\ process.mark = "made"
    BY <1>15, Unlinked
  <2>2. PreparationTyped'
    BY <1>0, <1>1, <2>1, UnlinkTyped
  <2> QED BY <1>0, <1>1, <1>2, <1>8, <1>9, <2>1, <2>2, PreparationMoves DEF JournalTyped
<1> QED BY <1>10, <1>11, <1>12, <1>13, <1>14, <1>15 DEF RepairSteps

(* The terminal cleanup.                                                      *)
LEMMA EndTyped ==
    ASSUME Typed, UNCHANGED << creation_vars, migration_vars >>, EndSteps
    PROVE  Typed'
<1>0. JournalTyped /\ PreparationTyped /\ Control /\ Bounded
  BY DEF Typed
<1>1. PICK mark \in {"none", "committed", "marked", "receipted", "dropped"} : Ending(mark)
  BY DEF EndSteps, EndCommits, EndMarks, EndClears, EndRefuses, EndReceipts, EndDropsJournal,
    EndDropsMarker
<1>2. /\ process.operation = "rollover-prepare" /\ process.mark = mark /\ type \in Types
      /\ UNCHANGED << failures, type, preparations >>
  BY <1>0, <1>1 DEF Ending, Control
<1>3. Preparing \/ Repairing
  <2>1. process.command \in Commands
    BY <1>0 DEF JournalTyped, ProcessType
  <2>2. process.command \notin {"none", "create", "abort", "migrate"}
    BY <1>0, <1>2, IdleTyped DEF Control, Bootstraps
  <2> QED BY <1>2, <2>1, <2>2 DEF Commands, Preparing, Repairing
<1>4. process.at \in Nat /\ process.at >= 1 /\ process.command # "none"
  BY <1>0, <1>2, <1>3 DEF Control, Preparing, Repairing, Actions, JournalTyped, ProcessType
<1>5. Len(PreparationPlan) \in Nat /\ Len(PreparationPlan) > 1
  <2>1. /\ Len(PreparationPlan) \in Nat /\ Len(PreparationPlan) > Len(PreparationStaging)
        /\ Len(PreparationStaging) \in {10, 11}
    BY <1>2, PreparationPlanIs
  <2>2. Len(PreparationStaging) = 10 \/ Len(PreparationStaging) = 11
    BY <2>1
  <2>3. \A m, n : m \in Nat /\ (n = 10 \/ n = 11) /\ m > n => m > 1
    OBVIOUS
  <2> QED BY <2>1, <2>2, <2>3, Zenon
<1>6. Len(RepairPlan(process.command)) \in Nat
  BY <1>2, StagedRollbackIs, UnstagedRollbackIs, ResumptionIs DEF RepairPlan
<1>7. Preparing => process.at = Len(PreparationPlan) + 1
  BY <1>0, <1>1, <1>2 DEF Bounded, Ending
<1>8. Repairing /\ mark # "dropped" => process.at <= Len(RepairPlan(process.command)) + 1
  BY <1>0, <1>2 DEF Bounded
<1>9. mark # "dropped" => journal.operation = "rollover-prepare"
  BY <1>0, <1>2, <1>3, <1>5, <1>7 DEF Bounded, Control, Repairing
<1>10. journal \in JournalType /\ marker \in BOOLEAN /\ receipt \in BOOLEAN
       /\ failures \in 0 .. MaxFailures
  BY <1>0 DEF JournalTyped
<1>11. ASSUME UNCHANGED << part, workspace, covered, displaced >>
       PROVE  PreparationTyped' /\ UNCHANGED preparation_vars
  BY <1>0, <1>2, <1>11, PreparationKept DEF preparation_vars
<1>12. ASSUME NEW to \in {"committed", "marked", "receipted", "dropped"},
              Ended(to) \/ (process' = process /\ mark = to),
              mark # "dropped", marker' \in BOOLEAN, receipt' \in BOOLEAN, PreparationTyped',
              \/ journal' = NoJournal /\ to = "dropped"
              \/ journal' = journal
              \/ /\ journal' \in JournalType /\ journal'.operation = journal.operation
                 /\ journal'.evidence.staged = journal.evidence.staged
                 /\ journal'.evidence.filed = journal.evidence.filed
       PROVE  Typed'
  <2>1. to \in Marks
    BY DEF Marks
  <2>2. /\ process' \in ProcessType /\ process'.command = process.command
        /\ process'.operation = process.operation /\ process'.action = process.action
        /\ process'.at = process.at /\ process'.mark = to
    BY <1>0, <1>2, <1>4, <1>12, <2>1, DoneTyped DEF Ended, JournalTyped
  <2>3. journal' \in JournalType
    BY <1>10, <1>12, NoJournalTyped
  <2> QED BY <1>2, <1>3, <1>4, <1>5, <1>7, <1>8, <1>9, <1>12, <2>2, <2>3, PreparationMoves
<1>13. CASE EndCommits
  <2>1. /\ Ended("committed") /\ UNCHANGED << marker, receipt, part, workspace, covered, displaced >>
        /\ mark = "none"
    BY <1>2, <1>13 DEF EndCommits, Ending
  <2>2. PICK b \in BOOLEAN :
           journal' = [journal EXCEPT !.phase = "terminal-cleanup", !.committed = TRUE,
                                      !.action = Outcome, !.step = NoStep, !.evidence.directory = b]
    <3>1. journal' = [journal EXCEPT !.phase = "terminal-cleanup", !.committed = TRUE,
                          !.action = Outcome, !.step = NoStep,
                          !.evidence.directory = (journal.evidence.directory \/ part[Directory] # "absent")]
      BY <1>10, <1>13 DEF EndCommits, JournalType, EvidenceType
    <3> QED BY <3>1
  <2>3. Outcome \in Actions
    BY <1>3 DEF Outcome, Repairing, Actions
  <2>4. /\ journal' \in JournalType /\ journal'.operation = journal.operation
        /\ journal'.evidence.staged = journal.evidence.staged
        /\ journal'.evidence.filed = journal.evidence.filed
    BY <1>0, <2>2, <2>3, CommitTyped
  <2> QED BY <1>10, <1>11, <1>12, <2>1, <2>4
<1>14. CASE EndMarks
  <2>1. /\ Ended("marked") /\ marker' = TRUE /\ receipt' = FALSE /\ mark = "committed"
        /\ UNCHANGED << journal, part, workspace, covered, displaced >>
    BY <1>2, <1>14 DEF EndMarks, Ending
  <2> QED BY <1>11, <1>12, <2>1
<1>15. CASE EndClears
  <2>1. /\ Take(Directory) /\ UNCHANGED << journal, marker, receipt, process >> /\ mark = "marked"
    BY <1>2, <1>15 DEF EndClears, Ending
  <2>2. PreparationTyped'
    BY <1>0, <1>2, <2>1, TakeTyped
  <2> QED BY <1>10, <1>12, <2>1, <2>2
<1>16. CASE EndRefuses
  <2>1. process' = Idle /\ UNCHANGED << journal, marker, receipt, part, workspace, covered, displaced >>
    BY <1>16 DEF EndRefuses
  <2> QED BY <1>2, <1>10, <1>11, <2>1, CommandEnds
<1>17. CASE EndReceipts
  <2>1. /\ Ended("receipted") /\ receipt' = TRUE /\ mark = "marked"
        /\ UNCHANGED << journal, marker, part, workspace, covered, displaced >>
    BY <1>2, <1>17 DEF EndReceipts, Ending
  <2> QED BY <1>10, <1>11, <1>12, <2>1
<1>18. CASE EndDropsJournal
  <2>1. /\ Ended("dropped") /\ journal' = NoJournal /\ mark = "receipted"
        /\ UNCHANGED << marker, receipt, part, workspace, covered, displaced >>
    BY <1>2, <1>18 DEF EndDropsJournal, Ending
  <2> QED BY <1>10, <1>11, <1>12, <2>1
<1>19. CASE EndDropsMarker
  <2>1. process' = Idle /\ marker' = FALSE /\ UNCHANGED << journal, receipt, part, workspace, covered, displaced >>
    BY <1>19 DEF EndDropsMarker
  <2> QED BY <1>2, <1>10, <1>11, <2>1, CommandEnds
<1> QED BY <1>13, <1>14, <1>15, <1>16, <1>17, <1>18, <1>19 DEF EndSteps

(* A preparation begins, or its recovery.                                     *)
LEMMA BeginPreparationTyped ==
    ASSUME Typed, UNCHANGED << creation_vars, migration_vars >>, NEW kind \in Types,
           BeginPreparation(kind)
    PROVE  Typed'
<1>0. JournalTyped /\ PreparationTyped /\ Control /\ Bounded
  BY DEF Typed
<1>1. /\ type' = kind /\ part' = Unprepared /\ workspace' = {} /\ covered' = TRUE
      /\ displaced' = {} /\ preparations < MaxPreparations /\ preparations' = preparations + 1
      /\ process' = Begun("prepare", "rollover-prepare", 1) /\ receipt' = FALSE
      /\ UNCHANGED << journal, marker, failures >>
  BY DEF BeginPreparation
<1>2. /\ process' \in ProcessType /\ process'.command = "prepare" /\ process'.at = 1
      /\ process'.operation = "rollover-prepare" /\ process'.mark = "none"
  BY <1>0, <1>1, BegunTyped DEF Commands, Operations
<1>3. JournalTyped'
  BY <1>0, <1>1, <1>2 DEF JournalTyped
<1>4. PreparationTyped'
  <2>1. \A o \in Parts : Unprepared[o] \in PartStates(o)
    BY DEF Unprepared, PartStates
  <2>2. preparations' \in 0 .. MaxPreparations
    BY <1>0, <1>1, MaxPreparationsAssumption DEF PreparationTyped
  <2> QED BY <1>1, <2>1, <2>2 DEF PreparationTyped, Unprepared
<1>5. Control'
  <2>1. "rollover-prepare" \notin Bootstraps /\ "prepare" \notin Actions
        /\ "prepare" \in Commands \ {"none"} /\ "rollover-prepare" \in Operations
    BY DEF Bootstraps, Actions, Commands, Operations
  <2> QED BY <1>0, <1>1, <2>1, ControlBegun DEF creation_vars
<1>6. Bounded'
  <2>1. Len(PreparationPlan)' \in Nat
    BY <1>1, NextLengths
  <2> QED BY <1>2, <2>1
      DEF Bounded, Creating, Withdrawing, Completing, Writing, Recovering, Preparing,
                            Repairing, Actions, Bootstraps
<1> QED BY <1>3, <1>4, <1>5, <1>6, CreationKept, MigrationKept DEF Typed

(* A recovery of a preparation begins.                                       *)
LEMMA BeginRepairTyped ==
    ASSUME Typed, UNCHANGED << creation_vars, migration_vars >>, NEW action \in Actions,
           BeginRepair(action)
    PROVE  Typed'
<1>0. JournalTyped /\ PreparationTyped /\ Control /\ Bounded
  BY DEF Typed
<1> DEFINE at == IF journal.committed THEN Len(RepairPlan(action)) + 1 ELSE 1
<1>1. /\ process' = Begun(action, "rollover-prepare", at) /\ journal.operation = "rollover-prepare"
      /\ UNCHANGED << journal, marker, receipt, failures, preparation_vars >> /\ type \in Types
  BY <1>0 DEF BeginRepair, Control
<1>2. Len(RepairPlan(action)) \in Nat
  BY <1>1, StagedRollbackIs, UnstagedRollbackIs, ResumptionIs DEF RepairPlan
<1>3. at \in Nat /\ at >= 1 /\ at <= Len(RepairPlan(action)) + 1
  BY <1>2
<1> HIDE DEF at
<1>4. "rollover-prepare" \in Operations /\ action \in Commands \ {"none"}
  BY DEF Commands, Operations, Actions
<1>5. /\ process' \in ProcessType /\ process'.command = action /\ process'.at = at
      /\ process'.operation = "rollover-prepare" /\ process'.mark = "none"
  BY <1>0, <1>1, <1>3, <1>4, BegunTyped
<1>6. JournalTyped'
  BY <1>0, <1>1, <1>5 DEF JournalTyped
<1>7. Control'
  <2>1. "rollover-prepare" \notin Bootstraps /\ action \notin {"create", "abort", "migrate", "prepare"}
    BY DEF Bootstraps, Actions
  <2>2. type' = type /\ creating' = creating /\ journal' = journal
    BY <1>1 DEF creation_vars, preparation_vars
  <2> QED BY <1>0, <1>1, <1>3, <1>4, <2>1, <2>2, ControlBegun
<1>8. Bounded'
  <2>1. RepairPlan(action)' = RepairPlan(action)
    BY <1>1, SamePreparation DEF Evidence, preparation_vars
  <2>2. RepairPlan(process.command)' = RepairPlan(action)'
    BY <1>5 DEF RepairPlan
  <2> QED BY <1>3, <1>5, <2>1, <2>2
      DEF Bounded, Creating, Withdrawing, Completing, Writing, Recovering,
                            Preparing, Repairing, Actions, Bootstraps
<1>9. PreparationTyped'
  BY <1>0, <1>1, PreparationKept
<1> QED BY <1>6, <1>7, <1>8, <1>9, CreationKept, MigrationKept DEF Typed

(* The steps of a preparation and of its recoveries keep the types.          *)
LEMMA PreparesTyped == ASSUME Typed, Prepares PROVE Typed'
<1>0. UNCHANGED << creation_vars, migration_vars >> /\ JournalTyped /\ Control /\ Bounded
  BY DEF Prepares, Typed
<1>1. ASSUME NEW kind \in Types, BeginPreparation(kind) PROVE Typed'
  BY <1>0, <1>1, BeginPreparationTyped
<1>2. CASE PrepareSteps
  BY <1>0, <1>2, PreparerTyped, RepairerTyped, EndTyped DEF PrepareSteps
<1>3. CASE PreparationFails
  <2>1. failures' \in 0 .. MaxFailures /\ process' = Idle
    BY <1>3, FailingTyped DEF PreparationFails
  <2>2. /\ UNCHANGED << journal, preparation_vars >>
        /\ marker' \in BOOLEAN /\ receipt' \in BOOLEAN
    BY <1>0, <1>3 DEF PreparationFails, JournalTyped
  <2> QED BY <1>0, <2>1, <2>2, CommandEnds
<1>4. CASE DropMarkedReceipt
  <2>1. process' = process /\ process = Idle
    BY <1>0, <1>4 DEF DropMarkedReceipt, Running, Control
  <2> QED BY <1>0, <1>4, <2>1, CommandEnds DEF DropMarkedReceipt, JournalTyped
<1>5. ASSUME NEW action \in Actions, BeginRepair(action) PROVE Typed'
  BY <1>0, <1>5, BeginRepairTyped
<1> QED BY <1>1, <1>2, <1>3, <1>4, <1>5 DEF Prepares

(* A step that changes nothing.                                               *)
LEMMA StutterTyped == ASSUME Typed, UNCHANGED vars PROVE Typed'
<1>1. /\ journal' = journal /\ marker' = marker /\ receipt' = receipt /\ process' = process
      /\ failures' = failures /\ creating' = creating /\ type' = type
      /\ UNCHANGED << creation_vars, migration_vars, preparation_vars >>
  BY DEF vars, journal_vars, creation_vars, migration_vars, preparation_vars
<1>2. JournalTyped' /\ CreationTyped' /\ MigrationTyped' /\ PreparationTyped'
  BY <1>1, CreationKept, MigrationKept, PreparationKept DEF Typed, JournalTyped
<1>3. Control'
  BY <1>1 DEF Typed, Control, Operation
<1>4. Bounded'
  <2>1. CreationPlan' = CreationPlan /\ Withdrawal' = Withdrawal
    BY <1>1, SameCreation
  <2>2. PreparationPlan' = PreparationPlan
        /\ RepairPlan(process.command)' = RepairPlan(process.command)
    <3>1. Evidence' = Evidence
      BY <1>1 DEF Evidence
    <3>2. Releases' = Releases
      BY <1>1 DEF Releases, ForRoot
    <3> QED BY <1>1, <3>1, <3>2, SamePreparation
        DEF RepairPlan, UnstagedRollback, Resumption, Renewal,
              CandidateResumption, StagedRollback, CandidateRollback, Issued, ForRoot
  <2>3. RecoveryPlan' = RecoveryPlan
    BY <1>1 DEF RecoveryPlan
  <2> QED BY <1>1, <2>1, <2>2, <2>3
      DEF Typed, Bounded, Creating, Withdrawing, Completing, Writing,
                            Recovering, Preparing, Repairing
<1> QED BY <1>2, <1>3, <1>4 DEF Typed

(* Every step keeps the types.                                               *)
LEMMA StepIsTyped == ASSUME Typed, [Next]_vars PROVE Typed'
<1>1. CASE Stops /\ UNCHANGED << creation_vars, preparation_vars >>
  BY <1>1, StopsTyped
<1> QED BY <1>1, CreatesTyped, MigratesTyped, PreparesTyped, StutterTyped DEF Next

(* Whatever fails, is killed or recovered, the journal, the process and every   *)
(* object stay in the states that the code knows, and a command within its plan. *)
THEOREM TypesHold == Spec => []TypeOK
<1>1. Init => Typed
  BY InitTyped
<1>2. Typed /\ [Next]_vars => Typed'
  BY StepIsTyped
<1>3. Typed => TypeOK
  BY TypedImplies
<1> QED BY <1>1, <1>2, <1>3, PTL DEF Spec

------------------------------------------------------------------------------
(* Whose journal it is: a running command never works beside the journal that  *)
(* an unfinished operation of another kind left.                              *)

Outstanding == journal.operation # "none" /\ ~journal.committed
InCreation == journal.operation \in Bootstraps /\ ~journal.committed
InMigration == journal.operation = "legacy-migrate" /\ ~journal.committed
InPreparation == journal.operation = "rollover-prepare" /\ ~journal.committed
Owned == Running /\ Outstanding => journal.operation = process.operation

(* A step of the commands that work on one of the operations O: it writes the  *)
(* journal of its own operation or, at the end of a preparation, removes it;    *)
(* and it begins only what the journal on disk lets it begin.                  *)
Works(O) ==
    /\ \/ journal' = journal
       \/ Running /\ process.operation \in O /\ journal'.operation = process.operation
       \/ Running /\ process.operation = "rollover-prepare" /\ "rollover-prepare" \in O
            /\ journal' = NoJournal
    /\ \/ process' = Idle
       \/ ~Running /\ process' = process
       \/ Running /\ process.operation \in O /\ process'.operation = process.operation
       \/ /\ ~Running /\ process'.operation \in O /\ journal' = journal
          /\ ~Outstanding \/ journal.operation = process'.operation

(* Commands other than a recovery begin over nothing unresolved.               *)
LEMMA BeginsResolved ==
    ASSUME JournalTyped, NoUnresolvedState PROVE ~Outstanding
BY Resolved, NoJournalTyped DEF Outstanding

(* The record of a command that begins.                                       *)
LEMMA BegunIs ==
    ASSUME NEW command, NEW operation, NEW at
    PROVE  /\ Begun(command, operation, at).command = command
           /\ Begun(command, operation, at).operation = operation
           /\ Begun(command, operation, at).at = at
           /\ Begun(command, operation, at).mark = "none"
BY DEF Begun, Idle

(* A creation and its recoveries write no other journal than their own.        *)
LEMMA CreatesWorks == ASSUME Typed, Creates PROVE Works(Bootstraps)
<1>0. JournalTyped /\ CreationTyped /\ Control /\ Bounded /\ process \in ProcessType
  BY DEF Typed, JournalTyped
<1>1. ASSUME NEW a \in Authorities, BeginCreation(a) PROVE Works(Bootstraps)
  <2>1. /\ ~Running /\ NoUnresolvedState /\ journal' = journal
        /\ process' = Begun("create", Operation(a), 1)
    BY <1>1 DEF BeginCreation
  <2>2. process'.operation \in Bootstraps
    BY <2>1, BegunIs DEF Operation, Bootstraps
  <2> QED BY <1>0, <2>1, <2>2, BeginsResolved DEF Works
<1>2. ASSUME NEW action \in Actions, BeginBootstrapRecovery(action) PROVE Works(Bootstraps)
  BY <1>2, BegunIs DEF BeginBootstrapRecovery, Works
<1>3. ASSUME CreationFails PROVE Works(Bootstraps)
  <2>1. /\ process.command = "create" /\ journal' = journal
        /\ process' = Begun("abort", Operation(creating), 1)
    BY <1>3 DEF CreationFails, Creating
  <2>2. process.operation \in Bootstraps /\ process.operation = Operation(creating)
    BY <1>0, <2>1 DEF Control
  <2> QED BY <2>1, <2>2, BegunIs DEF Works, Running
<1>4. ASSUME Creating \/ Withdrawing \/ Completing
      PROVE  Running /\ process.operation \in Bootstraps /\ process.operation = Operation(creating)
             /\ creating \in Authorities
  BY <1>0, <1>4 DEF Control, Creating, Withdrawing, Completing, Running
<1>5. ASSUME Running, process.operation \in Bootstraps,
             process' = Idle \/ process'.operation = process.operation,
             journal' = journal \/ journal'.operation = process.operation
      PROVE  Works(Bootstraps)
  BY <1>5 DEF Works
<1>6. /\ [process EXCEPT !.at = @ + 1].operation = process.operation
      /\ [process EXCEPT !.at = @ + 1, !.mark = "none"].operation = process.operation
      /\ \A mark : [process EXCEPT !.mark = mark].operation = process.operation
  BY <1>0 DEF ProcessType
<1>7. \A phase, entries : Bootstrap(phase, entries).operation = Operation(creating)
  BY DEF Bootstrap, NoJournal
<1>8. ASSUME NEW phase, NEW action, NEW step, Rewrite(phase, action, step),
             Aborting \/ journal.operation = Operation(creating)
      PROVE  journal'.operation = Operation(creating)
  <2>1. journal \in JournalType /\ \A p, e : Bootstrap(p, e).operation = Operation(creating)
    BY <1>0, <1>7 DEF JournalTyped
  <2> QED BY <1>8, <2>1 DEF Rewrite, JournalType, Bootstrap, NoJournal
<1>9. CASE CreatorSteps
  <2>1. Creating /\ (process' = Idle \/ process' = [process EXCEPT !.at = @ + 1])
    BY <1>9 DEF CreatorSteps, CreatorJournals, CreatorPlaces, CreatorCommits, CreatorReturns,
      CreatorAt
  <2>2. journal' = journal \/ journal'.operation = Operation(creating)
    BY <1>7, <1>9
      DEF CreatorSteps, CreatorJournals, CreatorPlaces, CreatorCommits, CreatorReturns,
                      Bootstrap, NoJournal
  <2> QED BY <1>4, <1>5, <1>6, <2>1, <2>2
<1>10. CASE \/ WithdrawalAnnounces \/ WithdrawalChanges \/ WithdrawalRecords \/ WithdrawalPasses
            \/ WithdrawalCommits \/ WithdrawalReturns
  <2>1. /\ Withdrawing
        /\ \/ process' = Idle \/ process' = [process EXCEPT !.at = @ + 1]
           \/ process' = [process EXCEPT !.at = @ + 1, !.mark = "none"]
           \/ \E mark \in Marks : process' = [process EXCEPT !.mark = mark]
    BY <1>10 DEF WithdrawalAnnounces, WithdrawalChanges, WithdrawalRecords, WithdrawalPasses,
                 WithdrawalCommits, WithdrawalReturns, WithdrawsOn, Marks
  <2>2. Aborting \/ journal.operation = Operation(creating)
    BY <1>0, <1>4, <2>1 DEF Control, Withdrawing, Aborting, Actions, Bounded
  <2>3. journal' = journal \/ journal'.operation = Operation(creating)
    <3>1. CASE WithdrawalAnnounces \/ WithdrawalRecords
      BY <1>8, <2>2, <3>1 DEF WithdrawalAnnounces, WithdrawalRecords
    <3>2. CASE WithdrawalChanges \/ WithdrawalPasses \/ WithdrawalReturns
      BY <3>2 DEF WithdrawalChanges, WithdrawalPasses, WithdrawalReturns
    <3>3. CASE WithdrawalCommits
      BY <3>3 DEF WithdrawalCommits, NoJournal
    <3> QED BY <1>10, <3>1, <3>2, <3>3
  <2> QED BY <1>4, <1>5, <1>6, <2>1, <2>3
<1>11. CASE \/ CompletionAnnounces \/ CompletionChanges \/ CompletionRecords
            \/ CompletionCommits \/ CompletionUnmarks \/ CompletionReturns
  <2>1. /\ Completing
        /\ \/ process' = Idle
           \/ \E mark \in Marks : process' = [process EXCEPT !.mark = mark]
    BY <1>11 DEF CompletionAnnounces, CompletionChanges, CompletionRecords,
                 CompletionCommits, CompletionUnmarks, CompletionReturns, CompletesAt,
                   Completed, Marks
  <2>2. journal.operation = Operation(creating)
    BY <1>0, <1>4, <2>1 DEF Control, Completing, Actions, Bounded
  <2>3. journal' = journal \/ journal'.operation = Operation(creating)
    <3>1. CASE CompletionAnnounces \/ CompletionRecords
      BY <1>8, <2>2, <3>1 DEF CompletionAnnounces, CompletionRecords
    <3>2. CASE CompletionChanges \/ CompletionUnmarks \/ CompletionReturns
      BY <3>2 DEF CompletionChanges, CompletionUnmarks, CompletionReturns
    <3>3. CASE CompletionCommits
      BY <1>0, <2>2, <3>3 DEF CompletionCommits, JournalTyped, JournalType
    <3> QED BY <1>11, <3>1, <3>2, <3>3
  <2> QED BY <1>4, <1>5, <1>6, <2>1, <2>3
<1> QED BY <1>1, <1>2, <1>3, <1>9, <1>10, <1>11 DEF Creates, BootstrapSteps

(* Nor do a migration and its recoveries.                                     *)
LEMMA MigratesWorks == ASSUME Typed, Migrates PROVE Works({"legacy-migrate"})
<1>0. JournalTyped /\ Control /\ Bounded /\ process \in ProcessType
  BY DEF Typed, JournalTyped
<1>1. CASE BeginMigration
  BY <1>0, <1>1, BeginsResolved, BegunIs DEF BeginMigration, Works
<1>2. ASSUME NEW action \in Actions, BeginRecovery(action) PROVE Works({"legacy-migrate"})
  BY <1>2, BegunIs DEF BeginRecovery, Actionable, Works
<1>3. CASE MigrationFails
  BY <1>3 DEF MigrationFails, Failing, Works
<1>4. ASSUME Writing \/ Recovering, process' = Idle \/ process'.operation = process.operation,
             journal' = journal \/ journal'.operation = "legacy-migrate"
      PROVE  Works({"legacy-migrate"})
  <2>1. process.operation = "legacy-migrate" /\ process.command # "none"
    BY <1>0, <1>4 DEF Control, Writing, Recovering, Actions
  <2> QED BY <1>4, <2>1 DEF Works, Running
<1>5. /\ [process EXCEPT !.at = @ + 1].operation = process.operation
      /\ [process EXCEPT !.at = @ + 1, !.mark = "none"].operation = process.operation
      /\ [process EXCEPT !.mark = "made"].operation = process.operation
      /\ \A mark, step : [process EXCEPT !.mark = mark, !.step = step].operation = process.operation
  BY <1>0 DEF ProcessType
<1>6. \A phase, committed : Write(phase, committed) => journal'.operation = "legacy-migrate"
  BY DEF Write, NoJournal
<1>7. CASE WriterSteps
  <2>1. Writing /\ (process' = Idle \/ process' = [process EXCEPT !.at = @ + 1])
    BY <1>7 DEF WriterSteps, WriterRecords, WriterPublishes, WriterCommits, WriterReturns,
      Planned
  <2>2. journal' = journal \/ journal'.operation = "legacy-migrate"
    BY <1>6, <1>7 DEF WriterSteps, WriterRecords, WriterPublishes, WriterCommits, WriterReturns
  <2> QED BY <1>4, <1>5, <2>1, <2>2
<1>8. CASE RecoverySteps
  <2>0. /\ Recovering
        /\ \/ process' = Idle \/ process' = process \/ Advance \/ Checkpoint("pending")
           \/ Checkpoint("done") \/ process' = [process EXCEPT !.mark = "made"]
    BY <1>8 DEF RecoverySteps, RecoveryRecords, AnnounceChange, MakeChange, RecordChange,
           PassChange, PassOver, RecoveryRefuses, RecoveryCommits, RecoveryReturns, Working
  <2>1. Recovering /\ (process' = Idle \/ process'.operation = process.operation)
    <3>1. ASSUME NEW mark, Checkpoint(mark) PROVE process'.operation = process.operation
      BY <1>0, <3>1 DEF Checkpoint, ProcessType
    <3> QED BY <1>5, <2>0, <3>1 DEF Advance
  <2>2. journal.operation = "legacy-migrate" /\ journal \in JournalType
    BY <1>0, <2>1 DEF Control, Bounded, Recovering, JournalTyped
  <2>3. \A mark : Checkpoint(mark) => journal'.operation = "legacy-migrate"
    BY <2>2 DEF Checkpoint, JournalType
  <2>4. journal' = journal \/ journal'.operation = "legacy-migrate"
    BY <1>6, <2>3, <1>8
      DEF RecoverySteps, RecoveryRecords, AnnounceChange, MakeChange, RecordChange,
           PassChange, PassOver, RecoveryRefuses, RecoveryCommits, RecoveryReturns
  <2> QED BY <1>4, <2>1, <2>4
<1> QED BY <1>1, <1>2, <1>3, <1>7, <1>8 DEF Migrates, CommandSteps

(* Nor do a preparation, its recoveries and their terminal cleanup.            *)
LEMMA PreparesWorks == ASSUME Typed, Prepares PROVE Works({"rollover-prepare"})
<1>0. JournalTyped /\ Control /\ Bounded /\ process \in ProcessType /\ journal \in JournalType
  BY DEF Typed, JournalTyped
<1>1. ASSUME NEW kind \in Types, BeginPreparation(kind) PROVE Works({"rollover-prepare"})
  BY <1>0, <1>1, BeginsResolved, BegunIs DEF BeginPreparation, Works
<1>2. ASSUME NEW action \in Actions, BeginRepair(action) PROVE Works({"rollover-prepare"})
  BY <1>2, BegunIs DEF BeginRepair, Works
<1>3. CASE PreparationFails
  BY <1>3 DEF PreparationFails, Failing, Works
<1>4. CASE DropMarkedReceipt
  BY <1>4 DEF DropMarkedReceipt, Works
<1>5. ASSUME Preparing \/ Repairing \/ process.operation = "rollover-prepare",
             process' = Idle \/ process'.operation = process.operation,
             \/ journal' = journal \/ journal'.operation = "rollover-prepare"
             \/ journal' = NoJournal
      PROVE  Works({"rollover-prepare"})
  <2>1. Running /\ process.operation = "rollover-prepare"
    BY <1>0, <1>5, IdleTyped DEF Control, Preparing, Repairing, Running, Actions
  <2> QED BY <1>5, <2>1 DEF Works
<1>6. /\ [process EXCEPT !.at = @ + 1, !.mark = "none"].operation = process.operation
      /\ \A mark : [process EXCEPT !.mark = mark].operation = process.operation
  BY <1>0 DEF ProcessType
<1>7. \A o, mark, evidence : PartCheckpoint(o, mark, evidence) => journal'.operation = journal.operation
  BY <1>0 DEF PartCheckpoint, JournalType
<1>8. CASE PreparerSteps
  <2>1. Preparing /\ process'.operation = process.operation /\ process.at <= Len(PreparationPlan)
    BY <1>6, <1>8
      DEF PreparerSteps, PreparerNotes, PreparerFills, PreparerAnnounces, PreparerChanges,
           PreparerUnlinks, Unlink, PreparerRecords, PreparerAt, Done
  <2>2. CASE PreparerNotes
    <3> DEFINE phase == PreparationPlan[process.at].phase
    <3>1. \/ journal' = [NoJournal EXCEPT !.operation = "rollover-prepare", !.phase = phase]
          \/ journal' = [journal EXCEPT !.phase = phase, !.evidence.filed = TRUE,
                                        !.evidence.staged = (phase = "staged")]
      BY <2>2 DEF PreparerNotes
    <3>2. ASSUME journal' = [journal EXCEPT !.phase = phase, !.evidence.filed = TRUE,
                                            !.evidence.staged = (phase = "staged")],
                 process.at = 1
          PROVE  journal' = [NoJournal EXCEPT !.operation = "rollover-prepare", !.phase = phase]
      <4>1. PreparationPlan[1] = Note("planned")
        BY <1>0, <2>1, PreparationPlanIs, StagingIs DEF Control, Preparing
      <4>2. phase = "planned"
        BY <3>2, <4>1 DEF Note
      <4> QED BY <2>2, <4>2 DEF PreparerNotes
    <3>3. process.at > 1 => journal.operation = "rollover-prepare"
      <4>1. process.mark # "dropped" /\ process.operation = "rollover-prepare"
        BY <1>0, <2>1 DEF Bounded, Control, Preparing, ProcessType
      <4> QED BY <1>0, <2>1, <4>1 DEF Bounded
    <3>4. process.at \in Nat /\ process.at >= 1
      BY <1>0, <2>1 DEF Control, Preparing, ProcessType
    <3> HIDE DEF phase
    <3>5. journal'.operation = "rollover-prepare"
      <4>1. CASE journal' = [NoJournal EXCEPT !.operation = "rollover-prepare", !.phase = phase]
        BY <4>1 DEF NoJournal
      <4>2. CASE process.at > 1
        BY <1>0, <3>1, <3>3, <4>1, <4>2 DEF JournalType
      <4> QED BY <3>1, <3>2, <3>4, <4>1, <4>2
    <3> QED BY <1>5, <2>1, <3>5
  <2>3. CASE PreparerFills \/ PreparerChanges \/ PreparerUnlinks
    BY <1>5, <2>1, <2>3 DEF PreparerFills, PreparerChanges, PreparerUnlinks, Unlink
  <2>4. CASE PreparerAnnounces \/ PreparerRecords
    <3>1. process.at > 1 /\ process.mark # "dropped"
      <4>1. process.at # 1
        <5>1. PreparationPlan[1] = Note("planned")
          BY <1>0, <2>1, PreparationPlanIs, StagingIs DEF Control, Preparing
        <5> QED BY <2>4, <5>1 DEF PreparerAnnounces, PreparerRecords, PreparerAt, Note
      <4>2. process.mark # "dropped"
        BY <2>4 DEF PreparerAnnounces, PreparerRecords
      <4> QED BY <1>0, <2>1, <4>1, <4>2 DEF Control, Preparing, ProcessType
    <3>2. journal.operation = "rollover-prepare"
      BY <1>0, <2>1, <3>1 DEF Bounded, Control, Preparing
    <3>3. journal'.operation = "rollover-prepare"
      BY <1>7, <2>4, <3>2 DEF PreparerAnnounces, PreparerRecords
    <3> QED BY <1>5, <2>1, <3>3
  <2> QED BY <1>8, <2>2, <2>3, <2>4 DEF PreparerSteps
<1>9. CASE RepairSteps
  <2>1. Repairing /\ process.mark # "dropped" /\ (process' = Idle \/ process'.operation = process.operation)
    BY <1>6, <1>9 DEF RepairSteps, RepairAnnounces, RepairChanges, RepairRefuses, RepairUnlinks,
           Unlink, RepairRecords, RepairPasses, RepairsOn, Done
  <2>2. journal.operation = "rollover-prepare"
    BY <1>0, <2>1 DEF Control, Repairing
  <2>3. journal' = journal \/ journal'.operation = "rollover-prepare"
    BY <1>7, <1>9, <2>2
      DEF RepairSteps, RepairAnnounces, RepairChanges, RepairRefuses, RepairUnlinks,
           Unlink, RepairRecords, RepairPasses
  <2> QED BY <1>5, <2>1, <2>3
<1>10. CASE EndSteps
  <2>1. /\ process.operation = "rollover-prepare"
        /\ process' = Idle \/ process' = process \/ \E mark : process' = [process EXCEPT !.mark = mark]
    BY <1>10
      DEF EndSteps, EndCommits, EndMarks, EndClears, EndRefuses, EndReceipts, EndDropsJournal,
           EndDropsMarker, Ending, Ended
  <2>2. process' = Idle \/ process'.operation = process.operation
    BY <1>6, <2>1
  <2>3. CASE EndCommits
    <3>1. process.mark = "none"
      BY <2>3 DEF EndCommits, Ending
    <3>2. journal.operation = "rollover-prepare"
      <4>1. CASE Preparing
        <5>1. process.at = 1 + Len(PreparationPlan)
          BY <2>3, <4>1 DEF EndCommits, Ending
        <5>2. process.at > 1
          BY <1>0, <2>1, <5>1, PreparationPlanIs DEF Control
        <5> QED BY <1>0, <2>1, <3>1, <4>1, <5>2 DEF Bounded
      <4>2. CASE ~Preparing
        <5>1. process.command \in Actions
          BY <1>0, <2>1, <4>2, IdleTyped
            DEF Control, Preparing, ProcessType, Commands, Bootstraps
        <5> QED BY <1>0, <2>1, <3>1, <5>1 DEF Control
      <4> QED BY <4>1, <4>2
    <3>3. journal'.operation = "rollover-prepare"
      BY <1>0, <2>3, <3>2 DEF EndCommits, JournalType
    <3> QED BY <1>5, <2>1, <2>2, <3>3
  <2>4. CASE EndMarks \/ EndClears \/ EndRefuses \/ EndReceipts \/ EndDropsMarker
    BY <1>5, <2>1, <2>2, <2>4 DEF EndMarks, EndClears, EndRefuses, EndReceipts, EndDropsMarker
  <2>5. CASE EndDropsJournal
    BY <1>5, <2>1, <2>2, <2>5 DEF EndDropsJournal
  <2> QED BY <1>10, <2>3, <2>4, <2>5 DEF EndSteps
<1> QED BY <1>1, <1>2, <1>3, <1>4, <1>8, <1>9, <1>10 DEF Prepares, PrepareSteps

(* Every step is of one kind, or a kill, or nothing happens.                   *)
LEMMA StepWorks ==
    ASSUME Typed, [Next]_vars
    PROVE  \/ Creates /\ Works(Bootstraps) /\ UNCHANGED << migration_vars, preparation_vars >>
           \/ Migrates /\ Works({"legacy-migrate"}) /\ UNCHANGED << creation_vars, preparation_vars >>
           \/ Prepares /\ Works({"rollover-prepare"}) /\ UNCHANGED << creation_vars, migration_vars >>
           \/ /\ process' = Idle \/ process' = process
              /\ UNCHANGED << journal, marker, receipt, creation_vars, migration_vars, preparation_vars >>
<1>1. CASE Creates
  BY <1>1, CreatesWorks DEF Creates
<1>2. CASE Migrates
  BY <1>2, MigratesWorks DEF Migrates
<1>3. CASE Prepares
  BY <1>3, PreparesWorks DEF Prepares
<1>4. CASE Stops /\ UNCHANGED << creation_vars, preparation_vars >>
  BY <1>4 DEF Stops, Failing
<1>5. CASE UNCHANGED vars
  BY <1>5 DEF vars, journal_vars
<1> QED BY <1>1, <1>2, <1>3, <1>4, <1>5 DEF Next

(* A command works under its own journal, or none is outstanding.              *)
LEMMA OwnedKept == ASSUME Typed, Owned, [Next]_vars PROVE Owned'
<1>1. JournalTyped
  BY DEF Typed
<1>2. ASSUME NEW O, Works(O) PROVE Owned'
  BY <1>1, <1>2, IdleTyped, NoJournalTyped DEF Works, Owned, Running, Outstanding
<1>3. ASSUME process' = Idle \/ process' = process, journal' = journal PROVE Owned'
  BY <1>3, IdleTyped DEF Owned, Running, Outstanding
<1> QED BY <1>2, <1>3, StepWorks

------------------------------------------------------------------------------
(* A migration: whatever is interrupted, the active manifest is published last  *)
(* and taken back first, and the provenance is removed last.                  *)

AsFound == \A o \in Objects \ {Provenance} : place[o] \in {"none", "original", "rollback"}
AllFinal == \A o \in Objects : place[o] \in {"published", "consumed"}

ActiveIsLast ==
    place[Active] = "published" =>
        \A o \in Objects \ {Active, Provenance} : place[o] \in {"published", "consumed"}
ProvenanceGoesLast ==
    place[Provenance] \in {"partial", "removed"} =>
        \A a \in Authorities : place[Reservation(a)] = "rollback"

(* With no migration unfinished, all is as it was or all is done; and only the  *)
(* authorities of a legacy layout are ever migrated.                         *)
Rests == ~InMigration => AsFound \/ AllFinal
Grounded ==
    "legacy-migrate" \in {process.operation, journal.operation} =>
        \A a \in Authorities : place[Tree(a)] # "none"

(* What the command has done so far, entry by entry of its plan.               *)
Finished(e) == e.kind = "publish" /\ e.to \in {"published", "consumed"} => place[e.object] = e.to
WriterInv ==
    Writing =>
        /\ process.at > 1 => journal.operation = "legacy-migrate"
        /\ process.at > 1 /\ process.at <= Len(Plan) + 1 => ~journal.committed
        /\ place[Provenance] \in {"original", "published"}
        /\ \A i \in 1 .. Len(Plan) : i < process.at => Finished(Plan[i])
        /\ place[Active] = "published" => process.at > Len(Forward) + 1

(* And what a recovery has: undone is what its entry no longer applies to.     *)
Passed(e) ==
    e.kind = "publish" =>
        IF process.command = "rollback" THEN place[e.object] \notin e.from ELSE Finished(e)
RecovererInv ==
    Recovering =>
        /\ process.at <= Len(RecoveryPlan) + 1 => ~journal.committed
        /\ process.mark # "none" => process.at <= Len(RecoveryPlan)
        /\ process.mark = "pending" => Due(Entry)
        /\ process.mark \in {"made", "done"} => place[Entry.object] = Entry.to
        /\ \A i \in 1 .. Len(RecoveryPlan) : i < process.at => Passed(RecoveryPlan[i])

MigrationInv ==
    ActiveIsLast /\ ProvenanceGoesLast /\ Rests /\ Grounded /\ WriterInv /\ RecovererInv

------------------------------------------------------------------------------
(* What the states of an object can be, by its kind.                         *)
LEMMA StatesOfObjects ==
    /\ \A a \in Authorities :
          /\ Tree(a) \in Objects /\ Places(Tree(a)) = {"none", "original", "published"}
          /\ Config(a) \in Objects /\ Places(Config(a)) = {"original", "published", "rollback"}
          /\ Reservation(a) \in Objects
          /\ Places(Reservation(a)) = {"original", "reserved", "consumed", "rollback"}
    /\ \A s \in Services : Issuer(s) \in Objects /\ Places(Issuer(s)) = {"original", "published"}
    /\ \A q \in QuarantineNames :
          Quarantine(q) \in Objects /\ Places(Quarantine(q)) = {"original", "published"}
    /\ {Session, Active, Provenance} \subseteq Objects
    /\ Places(Session) = {"original", "published"} /\ Places(Active) = {"original", "published"}
    /\ Places(Provenance) = {"original", "published", "partial", "removed"}
<1>1. \A o \in Objects :
        /\ o[1] = "tree" => Places(o) = {"none", "original", "published"}
        /\ o[1] = "config" => Places(o) = {"original", "published", "rollback"}
        /\ o[1] = "reservation" => Places(o) = {"original", "reserved", "consumed", "rollback"}
        /\ o[1] = "provenance" => Places(o) = {"original", "published", "partial", "removed"}
        /\ o[1] \in {"issuer", "quarantine", "session", "active"} => Places(o) = {"original", "published"}
  BY DEF Places
<1>2. /\ \A a \in Authorities : {Tree(a), Config(a), Reservation(a)} \subseteq Objects
      /\ \A s \in Services : Issuer(s) \in Objects
      /\ \A q \in QuarantineNames : Quarantine(q) \in Objects
      /\ {Session, Active, Provenance} \subseteq Objects
  BY DEF Objects
<1> QED BY <1>1, <1>2, MigrationObjects

(* What undoes an object does not apply to it afterwards.                      *)
LEMMA UndoneStays ==
    ASSUME NEW o \in Objects
    PROVE  /\ UndoOf(o).kind = "publish" /\ UndoOf(o).object = o /\ UndoOf(o).to \notin UndoOf(o).from
           /\ UndoOf(o).to \notin {"published", "consumed", "partial"}
           /\ UndoOf(o).to = "removed" <=> o = Provenance
           /\ o # Provenance => \A s \in Places(o) : s \notin UndoOf(o).from =>
                                   s \in {"none", "original", "rollback"}
<1>1. o[1] = "provenance" <=> o = Provenance
  BY MigrationObjects
    DEF Objects, Tree, Config, Reservation, Issuer, Quarantine, Session, Active
<1>2. o[1] \in {"tree", "config", "reservation", "issuer", "quarantine", "session", "active", "provenance"}
  BY MigrationObjects DEF Objects
<1> QED BY <1>1, <1>2 DEF UndoOf, Undo, Unpublish, Places

(* A migration's entry at its position: a reservation, or the publication of its *)
(* object, before the active manifest, that manifest, or the provenance.       *)
LEMMA OrderedAt ==
    ASSUME NEW p, NEW c, NEW l, Ordered(p, c, l), NEW i \in 1 .. Len(p), p[i] \notin Records
    PROVE  /\ p[i].kind = "publish" /\ p[i].object \in Objects
           /\ \/ /\ i <= c /\ \E a \in Authorities : p[i] = Reserve(a)
                 /\ p[i].from = "original" /\ p[i].to = "reserved"
              \/ p[i] = Publication(p[i].object) /\ p[i].to = FinalPlace(p[i].object)
           /\ p[i] = Publication(p[i].object) /\ p[i].object[1] = "reservation" => i > c
           /\ p[i].object = Active => i = l
           /\ p[i].object = Provenance => i > l
           /\ i > l => p[i].object = Provenance
           /\ i = l => p[i].object = Active
<1>1. p[i] \in MigrationEntries
  BY DEF Ordered
<1>2. p[i].kind = "publish" /\ p[i].object \in Objects /\ p[i] \in Reserves \cup {Publication(p[i].object)}
  BY <1>1, MigrationEntryKinds
<1>3. \A a \in Authorities : /\ Reserve(a).object = Reservation(a) /\ Reserve(a).to = "reserved"
                             /\ Reserve(a).from = "original"
  BY DEF Reserve, Publish
<1>4. \A o : Publication(o).object = o /\ Publication(o).to = FinalPlace(o)
  BY DEF Publication, FinalPlace, Publish, Consume
<1>5. /\ \A o \in PublishedObjects : o # Active /\ o # Provenance /\ o # Session
      /\ \A a \in Authorities : Reservation(a) \in PublishedObjects
      /\ Active # Session /\ Active # Provenance /\ Session # Provenance
      /\ Active[1] # "reservation" /\ Provenance[1] # "reservation" /\ Session[1] # "reservation"
  BY MigrationObjects DEF PublishedObjects
<1>6. /\ \A a \in Authorities : FinalPlace(Reservation(a)) = "consumed"
      /\ FinalPlace(Session) = "published" /\ FinalPlace(Active) = "published"
      /\ FinalPlace(Provenance) = "published"
  BY MigrationObjects DEF FinalPlace
<1>7. i \in Nat /\ c \in Nat /\ l \in Nat /\ c < l
  BY DEF Ordered
<1>8. CASE i <= c
  <2>1. p[i] \in Reserves \cup {Publication(Session)}
    BY <1>5, <1>4, <1>7, <1>8 DEF Ordered, Publications
  <2>2. CASE p[i] = Publication(Session)
    BY <1>2, <1>4, <1>5, <1>6, <1>7, <1>8, <2>2
  <2>3. CASE p[i] \in Reserves
    <3>1. PICK a \in Authorities : p[i] = Reserve(a)
      BY <2>3 DEF Reserves
    <3>2. p[i] # Publication(p[i].object)
      BY <1>3, <1>4, <1>6, <3>1
    <3> QED BY <1>2, <1>3, <1>5, <1>7, <1>8, <3>1, <3>2
  <2> QED BY <2>1, <2>2, <2>3
<1>9. CASE c < i /\ i < l
  <2>1. PICK o \in PublishedObjects : p[i] = Publication(o)
    BY <1>7, <1>9 DEF Ordered, Publications
  <2> QED BY <1>2, <1>4, <1>5, <1>7, <1>9, <2>1
<1>10. CASE i = l
  <2>1. p[i] = Publication(Active)
    BY <1>7, <1>10 DEF Ordered
  <2> QED BY <1>2, <1>4, <1>5, <1>7, <1>10, <2>1
<1>11. CASE l < i
  <2>1. p[i] = Publication(Provenance)
    BY <1>7, <1>11 DEF Ordered
  <2> QED BY <1>2, <1>4, <1>5, <1>7, <1>11, <2>1
<1> QED BY <1>7, <1>8, <1>9, <1>10, <1>11

(* Up to the active manifest everything else is done, up to the end all is.    *)
LEMMA OrderedDone ==
    ASSUME NEW p, NEW c, NEW l, Ordered(p, c, l), NEW n \in Nat,
           \A i \in 1 .. Len(p) : i < n => Finished(p[i])
    PROVE  /\ n >= l => \A o \in Objects \ {Active, Provenance} : place[o] = FinalPlace(o)
           /\ n > Len(p) => AllFinal
<1>1. /\ l \in Nat /\ l < Len(p) /\ Len(p) \in Nat /\ 0 < l
      /\ \A o \in Objects \ {Active, Provenance} : \E i \in 1 .. Len(p) : i < l /\ p[i] = Publication(o)
      /\ p[l] = Publication(Active)
      /\ \E i \in 1 .. Len(p) : l < i /\ p[i] = Publication(Provenance)
  BY DEF Ordered
<1>2. \A o : /\ Publication(o).kind = "publish" /\ Publication(o).object = o
             /\ Publication(o).to = FinalPlace(o) /\ FinalPlace(o) \in {"published", "consumed"}
  BY DEF Publication, FinalPlace, Publish, Consume
<1>3. ASSUME NEW o, NEW i \in 1 .. Len(p), i < n, p[i] = Publication(o) PROVE place[o] = FinalPlace(o)
  BY <1>2, <1>3 DEF Finished
<1>4. ASSUME n >= l, NEW o \in Objects \ {Active, Provenance} PROVE place[o] = FinalPlace(o)
  BY <1>1, <1>3, <1>4
<1>5. ASSUME n > Len(p), NEW o \in Objects PROVE place[o] \in {"published", "consumed"}
  <2>1. \E i \in 1 .. Len(p) : p[i] = Publication(o)
    BY <1>1
  <2> QED BY <1>1, <1>2, <1>3, <1>5, <2>1
<1> QED BY <1>4, <1>5 DEF AllFinal

(* The next entry of a plan undoes nothing that is finished.                   *)
LEMMA FinishedStays ==
    ASSUME NEW p, NEW c, NEW l, Ordered(p, c, l), NEW n \in 1 .. Len(p), p[n] \notin Records,
           MigrationTyped, Put(p[n].object, p[n].to),
           \A i \in 1 .. Len(p) : i < n => Finished(p[i])
    PROVE  \A i \in 1 .. Len(p) : i < n + 1 => Finished(p[i])'
<1> SUFFICES ASSUME NEW i \in 1 .. Len(p), i < n + 1, p[i].kind = "publish",
                    p[i].to \in {"published", "consumed"}
             PROVE  place'[p[i].object] = p[i].to
  BY DEF Finished
<1>1. p[n].object \in Objects /\ place' = [place EXCEPT ![p[n].object] = p[n].to]
  BY OrderedAt DEF Put
<1>2. p[i] \notin Records
  BY DEF Records, Record
<1>3. p[i].object \in Objects
  BY <1>2, OrderedAt
<1>4. CASE p[i].object # p[n].object
  <2>1. i < n
    BY <1>4
  <2> QED BY <1>1, <1>3, <1>4, <2>1 DEF MigrationTyped, Finished
<1>5. CASE p[i].object = p[n].object
  <2>1. p[i] = Publication(p[i].object)
    BY <1>2, OrderedAt
  <2>2. p[n] = Publication(p[n].object)
    <3> SUFFICES ASSUME p[n] # Publication(p[n].object) PROVE FALSE
      OBVIOUS
    <3>1. n <= c /\ \E a \in Authorities : p[n] = Reserve(a)
      BY OrderedAt
    <3>2. p[n].object[1] = "reservation"
      BY <3>1, MigrationObjects DEF Reserve, Publish
    <3>3. i > c
      BY <1>2, <1>5, <2>1, <3>2, OrderedAt
    <3> QED BY <3>1, <3>3 DEF Ordered
  <2> QED BY <1>1, <1>5, <2>1, <2>2 DEF MigrationTyped
<1> QED BY <1>4, <1>5

(* What a resume does at a position is what the plan of the migration says.    *)
LEMMA ResumeAt ==
    ASSUME NEW i \in 1 .. Len(ResumePlan)
    PROVE  /\ i \in 1 .. Len(Remaining)
           /\ Remaining[i] \in Records => ResumePlan[i] = Remaining[i]
           /\ Remaining[i] \notin Records =>
                 /\ ResumePlan[i].kind = "publish" /\ Remaining[i].kind = "publish"
                 /\ ResumePlan[i].object = Remaining[i].object /\ ResumePlan[i].to = Remaining[i].to
                 /\ ResumePlan[i].from = {Remaining[i].from}
           /\ Finished(ResumePlan[i]) <=> Finished(Remaining[i])
<1>1. i \in 1 .. Len(Remaining)
  BY ResumePlanIs
<1>2. CASE Remaining[i] \in Records
  BY <1>1, <1>2, ResumePlanIs
<1>3. CASE Remaining[i] \notin Records
  <2>1. ResumePlan[i] = Undo(Remaining[i].object, {Remaining[i].from}, Remaining[i].to)
    BY <1>1, <1>3, ResumePlanIs
  <2>2. Remaining[i].kind = "publish"
    BY <1>1, <1>3, RemainingIs, OrderedAt
  <2> QED BY <1>1, <1>3, <2>1, <2>2 DEF Undo, Finished
<1> QED BY <1>2, <1>3

(* A record is not due, and nothing is finished by it.                        *)
LEMMA RecordsPass ==
    ASSUME NEW e \in Records
    PROVE  e.kind = "record" /\ Finished(e) /\ Passed(e) /\ ~Due(e)
BY DEF Records, Record, Finished, Passed, Due

------------------------------------------------------------------------------
(* A migration's invariant holds at first.                                    *)
LEMMA MigrationStarts == ASSUME Init PROVE MigrationInv
<1>1. process = Idle /\ journal = NoJournal /\ place \in {Unmigrated, Unfounded}
  BY DEF Init
<1>2. process.command = "none" /\ process.operation = "none" /\ journal.operation = "none"
  BY <1>1, IdleTyped, NoJournalTyped
<1>3. \A o \in Objects : place[o] = "original" \/ place[o] = "none"
  BY <1>1 DEF Unmigrated, Unfounded
<1>4. Active \in Objects /\ Provenance \in Objects
  BY StatesOfObjects
<1>5. AsFound
  BY <1>3 DEF AsFound
<1>6. ~Writing /\ ~Recovering
  BY <1>2 DEF Writing, Recovering, Actions
<1> QED BY <1>2, <1>3, <1>4, <1>5, <1>6
        DEF MigrationInv, ActiveIsLast, ProvenanceGoesLast, Rests, Grounded, WriterInv,
          RecovererInv

(* A command that ends or is killed leaves it.                                *)
LEMMA MigrationIdles ==
    ASSUME MigrationInv, process' = Idle, journal' = journal, UNCHANGED migration_vars
    PROVE  MigrationInv'
<1>1. process'.command = "none" /\ process'.operation = "none"
  BY IdleTyped
<1>2. ~Writing' /\ ~Recovering'
  BY <1>1 DEF Writing, Recovering, Actions
<1>3. place' = place
  BY DEF migration_vars
<1>4. ActiveIsLast' /\ ProvenanceGoesLast'
  BY <1>3 DEF MigrationInv, ActiveIsLast, ProvenanceGoesLast
<1>5. Rests'
  BY <1>3 DEF MigrationInv, Rests, InMigration, AsFound, AllFinal
<1>6. Grounded'
  BY <1>1, <1>3 DEF MigrationInv, Grounded
<1> QED BY <1>2, <1>4, <1>5, <1>6 DEF MigrationInv, WriterInv, RecovererInv

(* And so does a step that changes nothing of it.                             *)
LEMMA MigrationStutters ==
    ASSUME MigrationInv, process' = process, journal' = journal, UNCHANGED migration_vars
    PROVE  MigrationInv'
<1>1. place' = place
  BY DEF migration_vars
<1>2. ActiveIsLast' /\ ProvenanceGoesLast' /\ Grounded'
  BY <1>1 DEF MigrationInv, ActiveIsLast, ProvenanceGoesLast, Grounded
<1>3. Rests'
  BY <1>1 DEF MigrationInv, Rests, InMigration, AsFound, AllFinal
<1>4. WriterInv'
  BY <1>1 DEF MigrationInv, WriterInv, Writing, Finished
<1>5. RecovererInv'
  BY <1>1 DEF MigrationInv, RecovererInv, Recovering, Passed, Finished, RecoveryPlan, Entry, Due
<1> QED BY <1>2, <1>3, <1>4, <1>5 DEF MigrationInv

(* The other commands leave a migration, unfinished or not, as it is.          *)
LEMMA MigrationSpared ==
    ASSUME Typed, Typed', Owned, MigrationInv, UNCHANGED migration_vars,
           NEW O, O \subseteq Operations, "legacy-migrate" \notin O, Works(O)
    PROVE  MigrationInv'
<1>0. Control' /\ JournalTyped /\ JournalTyped'
  BY DEF Typed
<1>1. place' = place
  BY DEF migration_vars
<1>2. ActiveIsLast' /\ ProvenanceGoesLast'
  BY <1>1 DEF MigrationInv, ActiveIsLast, ProvenanceGoesLast
<1>3. process' = Idle \/ (~Running /\ process' = process) \/ process'.operation \in O
  BY DEF Works
<1>4. ASSUME process'.operation = "legacy-migrate" PROVE process' = process /\ ~Running
  BY <1>3, <1>4, IdleTyped
<1>5. ASSUME journal'.operation = "legacy-migrate" \/ InMigration PROVE journal' = journal
  <2>1. CASE journal'.operation = "legacy-migrate"
    BY <2>1, NoJournalTyped DEF Works
  <2>2. CASE InMigration
    BY <2>2 DEF Works, InMigration, Owned, Outstanding
  <2> QED BY <1>5, <2>1, <2>2
<1>6. ~Writing' /\ ~Recovering'
  <2> SUFFICES ASSUME Writing' \/ Recovering' PROVE FALSE
    OBVIOUS
  <2>1. process'.operation = "legacy-migrate" /\ process'.command # "none"
    BY <1>0 DEF Control, Writing, Recovering, Actions
  <2> QED BY <1>4, <2>1 DEF Running
<1>7. Rests'
  BY <1>1, <1>5 DEF MigrationInv, Rests, InMigration, AsFound, AllFinal
<1>8. Grounded'
  BY <1>1, <1>4, <1>5 DEF MigrationInv, Grounded
<1> QED BY <1>2, <1>6, <1>7, <1>8 DEF MigrationInv, WriterInv, RecovererInv

------------------------------------------------------------------------------
(* The command.                                                               *)

(* Its first entry is the journal itself.                                      *)
LEMMA PlanBegins == Plan[1] = Record("pre-mutation")
<1>1. Forward \in Seq(MigrationEntries)
  BY ForwardIs
<1> DEFINE r == << Record("pre-mutation") >>
           t == << Record("active-published"), Publish(Provenance, "original", "published"),
                   Record("provenance-published") >>
           f == Forward
<1>2. Plan = r \o f \o t
  BY DEF Plan
<1> HIDE DEF f
<1>3. f \in Seq(MigrationEntries)
  BY <1>1 DEF f
<1> DEFINE E == MigrationEntries \cup {r[1], t[1], t[2], t[3]}
<1>4. r \in Seq(E) /\ f \in Seq(E) /\ t \in Seq(E) /\ Len(r) = 1 /\ r[1] = Record("pre-mutation")
  <2>1. MigrationEntries \subseteq E
    OBVIOUS
  <2>2. f \in Seq(E)
    BY <1>3, <2>1
  <2> QED BY <2>2
<1> HIDE DEF E, r, t
<1>5. (r \o f) \in Seq(E) /\ Len(r \o f) >= 1 /\ (r \o f)[1] = r[1]
  BY <1>4, Joined DEF Joins
<1>6. (r \o f) \o t \in Seq(E) /\ ((r \o f) \o t)[1] = (r \o f)[1]
  BY <1>4, <1>5, Joined DEF Joins
<1> QED BY <1>2, <1>4, <1>5, <1>6

(* It begins with the legacy layout.                                          *)
LEMMA MigrationBegun ==
    ASSUME Typed, MigrationInv, BeginMigration PROVE MigrationInv'
<1>1. /\ place' = Unmigrated /\ journal' = journal /\ ~Outstanding
      /\ process'.command = "migrate" /\ process'.at = 1 /\ process'.operation = "legacy-migrate"
  BY BegunIs, BeginsResolved DEF BeginMigration, Typed
<1>2. \A o \in Objects : place'[o] = "original"
  BY <1>1 DEF Unmigrated
<1>3. /\ Active \in Objects /\ Provenance \in Objects
      /\ \A a \in Authorities : Tree(a) \in Objects /\ Reservation(a) \in Objects
  BY StatesOfObjects
<1>4. AsFound' /\ ActiveIsLast' /\ ProvenanceGoesLast' /\ Grounded'
  BY <1>2, <1>3 DEF AsFound, ActiveIsLast, ProvenanceGoesLast, Grounded
<1>5. ~Recovering'
  BY <1>1 DEF Recovering, Actions
<1>6. WriterInv'
  BY <1>1, <1>2, <1>3, ForwardIs DEF WriterInv
<1> QED BY <1>4, <1>5, <1>6 DEF MigrationInv, Rests, RecovererInv

(* A recovery begins with what it finds.                                      *)
LEMMA RecoveryBegun ==
    ASSUME Typed, MigrationInv, NEW action \in Actions, BeginRecovery(action) PROVE MigrationInv'
<1>1. /\ place' = place /\ journal' = journal /\ InMigration
      /\ process'.command = action /\ process'.at = 1 /\ process'.operation = "legacy-migrate"
      /\ process'.mark = "none"
  BY BegunIs DEF BeginRecovery, Actionable, InMigration, migration_vars
<1>2. ActiveIsLast' /\ ProvenanceGoesLast' /\ Grounded' /\ Rests'
  BY <1>1 DEF MigrationInv, ActiveIsLast, ProvenanceGoesLast, Grounded, Rests, InMigration
<1>3. ~Writing'
  BY <1>1 DEF Writing, Actions
<1>4. RecovererInv'
  BY <1>1 DEF RecovererInv, InMigration
<1> QED BY <1>2, <1>3, <1>4 DEF MigrationInv, WriterInv

(* A migration writes its next journal, or publishes its next object.          *)
LEMMA WriterMoves ==
    ASSUME Typed, MigrationInv, WriterRecords \/ WriterPublishes PROVE MigrationInv'
<1>0. /\ Writing /\ process.at \in Nat /\ process.at >= 1 /\ process.at <= Len(Plan)
      /\ process.operation = "legacy-migrate" /\ MigrationTyped /\ process \in ProcessType
      /\ Len(Plan) \in Nat
  BY PlanIs
    DEF WriterRecords, WriterPublishes, Planned, Typed, Control, JournalTyped, ProcessType,
                Writing, Ordered
<1>1. /\ process'.at = process.at + 1 /\ process'.command = "migrate"
      /\ process'.operation = "legacy-migrate"
  BY <1>0 DEF WriterRecords, WriterPublishes, Planned, Writing, ProcessType
<1>2. ~Recovering' /\ Writing'
  BY <1>1 DEF Recovering, Writing, Actions
<1> DEFINE n == process.at
           e == Plan[process.at]
<1>3. /\ WriterInv /\ ActiveIsLast /\ ProvenanceGoesLast /\ Grounded
      /\ \A i \in 1 .. Len(Plan) : i < n => Finished(Plan[i])
      /\ place[Provenance] \in {"original", "published"}
      /\ place[Active] = "published" => n > Len(Forward) + 1
      /\ n \in 1 .. Len(Plan)
  BY <1>0 DEF MigrationInv, WriterInv
<1>4. CASE WriterRecords
  <2>1. place' = place /\ InMigration' /\ e.kind = "record"
    BY <1>4 DEF WriterRecords, Planned, Write, NoJournal, InMigration
  <2>2. ActiveIsLast' /\ ProvenanceGoesLast' /\ Rests' /\ Grounded'
    BY <1>0, <1>3, <2>1 DEF ActiveIsLast, ProvenanceGoesLast, Rests, Grounded
  <2>3. ASSUME NEW i \in 1 .. Len(Plan), i < n + 1 PROVE Finished(Plan[i])'
    <3>1. CASE i = n
      BY <2>1, <3>1 DEF Finished
    <3>2. CASE i < n
      BY <1>3, <2>1, <3>2 DEF Finished
    <3> QED BY <2>3, <3>1, <3>2, <1>0
  <2>4. WriterInv'
    BY <1>0, <1>1, <1>3, <2>1, <2>3, ForwardIs DEF WriterInv, InMigration
  <2> QED BY <1>2, <2>2, <2>4 DEF MigrationInv, RecovererInv
<1>5. CASE WriterPublishes
  <2>1. Put(e.object, e.to) /\ e.kind = "publish" /\ journal' = journal /\ e \notin Records
    <3>1. Put(e.object, e.to) /\ e.kind = "publish" /\ journal' = journal
      BY <1>5 DEF WriterPublishes, Planned
    <3> QED BY <3>1, RecordsPass
  <2>2. n > 1
    <3>1. Plan[1].kind = "record"
      BY PlanBegins DEF Record
    <3> QED BY <1>0, <2>1, <3>1
  <2>3. InMigration /\ InMigration'
    BY <1>0, <1>3, <2>1, <2>2 DEF WriterInv, InMigration
  <2> DEFINE l == Len(Forward) + 1
  <2>4. /\ e.object \in Objects /\ e.to \in {"reserved", "published", "consumed"}
        /\ e.object = Active => n = l
        /\ e.object = Provenance => e.to = "published"
        /\ n > l => e.object = Provenance
    <3>1. /\ e.object \in Objects
          /\ \/ e.to = "reserved" /\ \E a \in Authorities : e = Reserve(a)
             \/ e.to = FinalPlace(e.object)
          /\ e.object = Active => n = l
          /\ n > l => e.object = Provenance
      BY <1>3, <2>1, PlanIs, OrderedAt
    <3>2. \A a \in Authorities : Reserve(a).object # Provenance
      BY MigrationObjects DEF Reserve, Publish
    <3>3. FinalPlace(Provenance) = "published" /\ \A o : FinalPlace(o) \in {"published", "consumed"}
      BY MigrationObjects DEF FinalPlace
    <3> QED BY <3>1, <3>2, <3>3
  <2>5. /\ place' = [place EXCEPT ![e.object] = e.to]
        /\ \A o \in Objects : place'[o] = IF o = e.object THEN e.to ELSE place[o]
    BY <1>0, <2>1, <2>4 DEF Put, MigrationTyped
  <2>6. \A i \in 1 .. Len(Plan) : i < n + 1 => Finished(Plan[i])'
    BY <1>0, <1>3, <2>1, PlanIs, FinishedStays
  <2>7. Active \in Objects /\ Provenance \in Objects /\ \A a \in Authorities : Tree(a) \in Objects
    BY StatesOfObjects
  <2>8. place'[Provenance] \in {"original", "published"}
    BY <1>3, <2>4, <2>5, <2>7
  <2>9. l \in Nat /\ (place'[Active] = "published" => n >= l)
    BY <1>0, <1>3, <2>4, <2>5, <2>7, ForwardIs
  <2>10. ActiveIsLast'
    <3> SUFFICES ASSUME place'[Active] = "published", NEW o \in Objects \ {Active, Provenance}
                 PROVE  place'[o] \in {"published", "consumed"}
      BY DEF ActiveIsLast
    <3>1. CASE n = l
      <4>1. place[o] = FinalPlace(o)
        BY <1>0, <1>3, <2>9, <3>1, PlanIs, OrderedDone
      <4>2. place[o] \in {"published", "consumed"}
        BY <4>1 DEF FinalPlace
      <4>3. e.object # o
        <5>1. e.object = Active
          BY <1>3, <2>1, <3>1, PlanIs, OrderedAt
        <5> QED BY <5>1
      <4> QED BY <2>5, <4>2, <4>3
    <3>2. CASE n > l
      <4>1. e.object = Provenance /\ place[Active] = "published"
        BY <2>4, <2>5, <2>7, <3>2, MigrationObjects
      <4> QED BY <1>3, <2>5, <4>1 DEF ActiveIsLast
    <3> QED BY <1>0, <2>9, <3>1, <3>2
  <2>11. Grounded'
    BY <1>0, <1>3, <2>4, <2>5, <2>7 DEF Grounded
  <2>12. WriterInv'
    BY <1>0, <1>1, <2>2, <2>3, <2>6, <2>8, <2>9 DEF WriterInv, InMigration
  <2> QED BY <1>2, <2>3, <2>8, <2>10, <2>11, <2>12
          DEF MigrationInv, RecovererInv, Rests, ProvenanceGoesLast
<1> QED BY <1>4, <1>5

(* Its last journal closes a migration that has published everything.          *)
LEMMA WriterCloses ==
    ASSUME Typed, MigrationInv, WriterCommits PROVE MigrationInv'
<1>0. /\ Writing /\ process.at \in Nat /\ process.at = Len(Plan) + 1
      /\ process.operation = "legacy-migrate" /\ process \in ProcessType /\ Len(Plan) \in Nat
  BY PlanIs DEF WriterCommits, Typed, Control, JournalTyped, ProcessType, Writing, Ordered
<1>1. /\ process'.at = Len(Plan) + 2 /\ process'.command = "migrate"
      /\ process'.operation = "legacy-migrate" /\ place' = place
      /\ journal'.operation = "legacy-migrate"
  BY <1>0 DEF WriterCommits, Writing, ProcessType, migration_vars, Write, NoJournal
<1>2. AllFinal
  BY <1>0, PlanIs, OrderedDone DEF MigrationInv, WriterInv
<1>3. ActiveIsLast' /\ ProvenanceGoesLast' /\ Rests' /\ Grounded'
  BY <1>0, <1>1, <1>2
    DEF MigrationInv, ActiveIsLast, ProvenanceGoesLast, Rests, Grounded, AllFinal
<1>4. WriterInv'
  BY <1>0, <1>1 DEF MigrationInv, WriterInv, Finished
<1>5. ~Recovering'
  BY <1>1 DEF Recovering, Actions
<1> QED BY <1>3, <1>4, <1>5 DEF MigrationInv, RecovererInv

------------------------------------------------------------------------------
(* Its recovery.                                                              *)

(* What a recovery does at its position: it undoes an object, or publishes it   *)
(* as the migration would; its plans are as long as they are.                 *)
LEMMA RollbackAt ==
    ASSUME NEW i \in 1 .. Len(RollbackPlan)
    PROVE  /\ RollbackPlan[i].object \in Objects
           /\ RollbackPlan[i] = UndoOf(RollbackPlan[i].object)
           /\ RollbackPlan[i].kind = "publish"
           /\ RollbackPlan[i].to \notin {"none", "published", "consumed"}
           /\ RollbackPlan[i].to \notin RollbackPlan[i].from
           /\ RollbackPlan[i].to \in {"removed", "partial"} => RollbackPlan[i].object = Provenance
           /\ RollbackPlan[i].object = Provenance =>
                 /\ i = Len(RollbackPlan) /\ RollbackPlan[i].to = "removed"
                 /\ RollbackPlan[i].from = {"original", "published", "partial"}
<1>1. RollbackPlan[i] \in Undoings(Objects)
  BY RollbackPlanIs
<1>2. PICK o \in Objects : RollbackPlan[i] = UndoOf(o)
  BY <1>1 DEF Undoings
<1>3. UndoOf(o).object = o
  BY UndoneStays
<1>4. UndoOf(o).to # "none"
  BY DEF UndoOf, Undo, Unpublish
<1>5. UndoOf(Provenance) = Undo(Provenance, {"original", "published", "partial"}, "removed")
  BY UndoIs
<1> QED BY <1>2, <1>3, <1>4, <1>5, UndoneStays, RollbackPlanIs DEF Undo

(* What a resumption publishes of what remains, and where from.                *)
LEMMA RemainingAt ==
    ASSUME NEW i \in 1 .. Len(ResumePlan), ResumePlan[i].kind = "publish"
    PROVE  /\ i \in 1 .. Len(Remaining) /\ Remaining[i] \notin Records
           /\ ResumePlan[i].object = Remaining[i].object /\ ResumePlan[i].to = Remaining[i].to
           /\ ResumePlan[i].object \in Objects
           /\ ResumePlan[i].from \subseteq {"original", "reserved"}
           /\ ResumePlan[i].to \in {"reserved", "published", "consumed"}
           /\ ResumePlan[i].to = "reserved" => ResumePlan[i].object[1] = "reservation"
           /\ ResumePlan[i].object[1] # "reservation" => ResumePlan[i].from = {"original"}
           /\ ResumePlan[i].object[1] # "reservation" => ResumePlan[i].to = "published"
           /\ i = Len(Forward) <=> ResumePlan[i].object = Active
           /\ i > Len(Forward) <=> ResumePlan[i].object = Provenance
<1>1. i \in 1 .. Len(Remaining) /\ Remaining[i] \notin Records
  <2>1. i \in 1 .. Len(Remaining)
    BY ResumeAt
  <2>2. Remaining[i] \in Records => ResumePlan[i].kind = "record"
    BY <2>1, ResumeAt, RecordsPass
  <2> QED BY <2>1, <2>2
<1>2. /\ ResumePlan[i].object = Remaining[i].object /\ ResumePlan[i].to = Remaining[i].to
      /\ ResumePlan[i].from = {Remaining[i].from}
  BY <1>1, ResumeAt
<1>3. \/ /\ \E a \in Authorities : Remaining[i] = Reserve(a)
         /\ Remaining[i].from = "original" /\ Remaining[i].to = "reserved"
      \/ Remaining[i] = Publication(Remaining[i].object)
         /\ Remaining[i].to = FinalPlace(Remaining[i].object)
  BY <1>1, RemainingIs, OrderedAt
<1>4. \A a \in Authorities : Reserve(a).object[1] = "reservation"
  BY MigrationObjects DEF Reserve, Publish
<1>5. \A o : Publication(o).from = IF o[1] = "reservation" THEN "reserved" ELSE "original"
  BY DEF Publication, Publish, Consume
<1>6. /\ Remaining[i].object \in Objects
      /\ i = Len(Forward) <=> Remaining[i].object = Active
      /\ i > Len(Forward) <=> Remaining[i].object = Provenance
  BY <1>1, RemainingIs, OrderedAt
<1> QED BY <1>1, <1>2, <1>3, <1>4, <1>5, <1>6 DEF FinalPlace

(* A recovery at work: its journal is open, and its entries before this one     *)
(* are done with.                                                            *)
LEMMA RecoveryWorks ==
    ASSUME Typed, MigrationInv, Working
    PROVE  /\ Recovering /\ process.at \in 1 .. Len(RecoveryPlan) /\ Len(RecoveryPlan) \in Nat
           /\ process.command \in Actions /\ process \in ProcessType /\ InMigration
           /\ process.operation = "legacy-migrate"
           /\ process.mark \in {"none", "pending", "made", "done"}
           /\ \A i \in 1 .. Len(RecoveryPlan) : i < process.at => Passed(RecoveryPlan[i])
           /\ \A a \in Authorities : place[Tree(a)] # "none"
<1>1. /\ Recovering /\ process.at \in Nat /\ process.at >= 1 /\ process.at <= Len(RecoveryPlan)
      /\ process \in ProcessType /\ process.operation = "legacy-migrate"
      /\ process.command \in Actions
  BY DEF Working, Recovering, Typed, Control, JournalTyped, ProcessType, Actions
<1>2. Len(RecoveryPlan) \in Nat
  BY Lengths DEF RecoveryPlan
<1>3. process.mark \in {"none", "pending", "made", "done"}
  BY <1>1 DEF Typed, Bounded
<1>4. journal.operation = "legacy-migrate"
  BY <1>1, <1>3 DEF Typed, Control
<1>5. ~journal.committed
  BY <1>1, <1>2 DEF MigrationInv, RecovererInv
<1> QED BY <1>1, <1>2, <1>3, <1>4, <1>5 DEF MigrationInv, RecovererInv, InMigration, Grounded

(* A step of a recovery that changes no object and keeps the journal open.     *)
LEMMA RecoveryStays ==
    ASSUME Typed, MigrationInv, Working, place' = place, InMigration',
           process'.command = process.command, process'.operation = process.operation,
           \/ process'.at = process.at + 1 /\ process'.mark = "none" /\ Passed(Entry)
           \/ /\ process'.at = process.at
              /\ \/ process'.mark = "pending" /\ Due(Entry)
                 \/ process'.mark \in {"made", "done"} /\ place[Entry.object] = Entry.to
    PROVE  MigrationInv'
<1>0. /\ Recovering /\ process.at \in 1 .. Len(RecoveryPlan) /\ Len(RecoveryPlan) \in Nat
      /\ process.command \in Actions /\ process.operation = "legacy-migrate"
      /\ \A i \in 1 .. Len(RecoveryPlan) : i < process.at => Passed(RecoveryPlan[i])
      /\ \A a \in Authorities : place[Tree(a)] # "none"
  BY RecoveryWorks
<1>1. RecoveryPlan' = RecoveryPlan
  BY DEF RecoveryPlan
<1>2. \A e : Passed(e)' <=> Passed(e)
  BY DEF Passed, Finished
<1>3. ActiveIsLast' /\ ProvenanceGoesLast' /\ Rests' /\ Grounded'
  BY <1>0 DEF MigrationInv, ActiveIsLast, ProvenanceGoesLast, Rests, Grounded
<1>4. ~Writing'
  BY <1>0 DEF Writing, Actions
<1>5. RecovererInv'
  <2>1. CASE process'.at = process.at + 1 /\ process'.mark = "none" /\ Passed(Entry)
    <3>1. ASSUME NEW i \in 1 .. Len(RecoveryPlan), i < process.at + 1 PROVE Passed(RecoveryPlan[i])
      BY <1>0, <2>1, <3>1 DEF Entry
    <3> QED BY <1>0, <1>1, <1>2, <2>1, <3>1 DEF RecovererInv, InMigration
  <2>2. CASE /\ process'.at = process.at
             /\ \/ process'.mark = "pending" /\ Due(Entry)
                \/ process'.mark \in {"made", "done"} /\ place[Entry.object] = Entry.to
    <3>1. Entry' = Entry
      BY <1>1, <2>2 DEF Entry
    <3>2. Due(Entry)' <=> Due(Entry)
      BY <3>1 DEF Due
    <3> QED BY <1>0, <1>1, <1>2, <2>2, <3>1, <3>2 DEF RecovererInv, InMigration
  <2> QED BY <2>1, <2>2
<1> QED BY <1>3, <1>4, <1>5 DEF MigrationInv, WriterInv

(* An announced change of a rollback, which undoes an object.                  *)
LEMMA RollbackChanges ==
    ASSUME Typed, MigrationInv, MakeChange, process.command = "rollback"
    PROVE  MigrationInv'
<1>0. /\ Recovering /\ process.at \in 1 .. Len(RecoveryPlan) /\ Len(RecoveryPlan) \in Nat
      /\ process \in ProcessType /\ process.operation = "legacy-migrate" /\ InMigration
      /\ \A i \in 1 .. Len(RecoveryPlan) : i < process.at => Passed(RecoveryPlan[i])
      /\ \A a \in Authorities : place[Tree(a)] # "none"
      /\ MigrationTyped /\ process.mark = "pending" /\ Working
  BY RecoveryWorks DEF MakeChange, Typed
<1>1. RecoveryPlan = RollbackPlan
  BY DEF RecoveryPlan
<1> DEFINE n == process.at
           e == RollbackPlan[process.at]
<1>2. Entry = e /\ Due(e) /\ e.object \in Objects /\ n \in 1 .. Len(RollbackPlan)
  BY <1>0, <1>1, RollbackAt DEF Entry, MigrationInv, RecovererInv
<1>3. /\ \A i \in 1 .. Len(RollbackPlan) : i < n => place[RollbackPlan[i].object] \notin RollbackPlan[i].from
      /\ place[e.object] \in e.from
  BY <1>0, <1>1, <1>2, RollbackAt DEF Passed, Due
<1>4. PICK to : /\ \/ to = e.to /\ process' = [process EXCEPT !.mark = "made"]
                   \/ e.to = "removed" /\ to = "partial" /\ process' = process
                /\ e.to = "removed" => e.object = Provenance
                /\ place' = [place EXCEPT ![e.object] = to]
  BY <1>2, RollbackAt DEF MakeChange, Put
<1>5. /\ process'.command = "rollback" /\ process'.operation = "legacy-migrate"
      /\ process'.at = n
      /\ IF to = e.to THEN process'.mark = "made" ELSE process'.mark = "pending"
  <2>1. "removed" # "partial"
    OBVIOUS
  <2> QED BY <1>0, <1>4, <2>1 DEF ProcessType
<1>6. \A o \in Objects : place'[o] = IF o = e.object THEN to ELSE place[o]
  BY <1>0, <1>2, <1>4 DEF MigrationTyped
<1>7. to \notin {"none", "published", "consumed"} /\ (to \in {"removed", "partial"} => e.object = Provenance)
      /\ (e.object = Provenance => to \in {"removed", "partial"})
  BY <1>2, <1>4, RollbackAt
<1>8. /\ Active \in Objects /\ Provenance \in Objects
      /\ \A a \in Authorities : Tree(a) \in Objects /\ Reservation(a) \in Objects
      /\ \A a \in Authorities : Reservation(a) # Provenance
  BY StatesOfObjects, MigrationObjects
<1>9. InMigration' /\ Rests'
  BY <1>0 DEF MakeChange, InMigration, Rests
<1>10. place'[Active] # "published"
  <2>1. RollbackPlan[1] = UndoOf(Active) /\ UndoOf(Active) = Undo(Active, {"published"}, "original")
    BY RollbackPlanIs, UndoIs DEF Unpublish
  <2>2. CASE n = 1
    BY <1>6, <1>7, <1>8, <2>1, <2>2 DEF Undo
  <2>3. CASE n > 1
    <3>1. place[Active] # "published"
      <4>1. 1 \in 1 .. Len(RollbackPlan)
        BY <1>2
      <4> QED BY <1>3, <2>1, <2>3, <4>1 DEF Undo
    <3> QED BY <1>6, <1>7, <1>8, <3>1
  <2> QED BY <1>2, <2>2, <2>3
<1>11. ProvenanceGoesLast'
  <2> SUFFICES ASSUME place'[Provenance] \in {"partial", "removed"}, NEW a \in Authorities
               PROVE  place'[Reservation(a)] = "rollback"
    BY DEF ProvenanceGoesLast
  <2>1. UndoOf(Reservation(a)) = Undo(Reservation(a), {"original", "reserved", "consumed"}, "rollback")
    BY UndoIs DEF Abandon
  <2>2. place[Reservation(a)] \in {"original", "reserved", "consumed", "rollback"}
    BY <1>0, StatesOfObjects DEF MigrationTyped
  <2>3. CASE e.object = Provenance
    <3>1. n = Len(RollbackPlan)
      BY <1>2, <2>3, RollbackAt
    <3>2. PICK i \in 1 .. Len(RollbackPlan) : i < Len(RollbackPlan) /\ RollbackPlan[i] = UndoOf(Reservation(a))
      BY <1>8, RollbackPlanIs
    <3>3. place[Reservation(a)] = "rollback"
      BY <1>3, <2>1, <2>2, <3>1, <3>2 DEF Undo
    <3> QED BY <1>6, <1>8, <2>3, <3>3
  <2>4. CASE e.object # Provenance
    <3>1. place[Reservation(a)] = "rollback"
      BY <1>6, <1>8, <2>4 DEF MigrationInv, ProvenanceGoesLast
    <3>2. e.object # Reservation(a)
      <4>1. e = UndoOf(e.object)
        BY <1>2, RollbackAt
      <4> QED BY <1>3, <2>1, <3>1, <4>1 DEF Undo
    <3> QED BY <1>6, <1>8, <3>1, <3>2
  <2> QED BY <2>3, <2>4
<1>12. Grounded'
  BY <1>0, <1>6, <1>7, <1>8 DEF Grounded
<1>13. ~Writing'
  BY <1>5 DEF Writing
<1>14. RecoveryPlan' = RollbackPlan /\ Entry' = e
  BY <1>5 DEF RecoveryPlan, Entry
<1>15. RecovererInv'
  <2>1. ASSUME NEW i \in 1 .. Len(RollbackPlan), i < n PROVE Passed(RollbackPlan[i])'
    <3>1. RollbackPlan[i].object \in Objects /\ RollbackPlan[i] = UndoOf(RollbackPlan[i].object)
      BY RollbackAt
    <3>2. CASE RollbackPlan[i].object # e.object
      BY <1>3, <1>5, <1>6, <2>1, <3>1, <3>2 DEF Passed
    <3>3. CASE RollbackPlan[i].object = e.object
      <4>1. RollbackPlan[i] = e
        BY <1>2, <3>1, <3>3, RollbackAt
      <4> QED BY <1>3, <2>1, <4>1
    <3> QED BY <3>2, <3>3
  <2>2. to = e.to => place'[e.object] = e.to
    BY <1>2, <1>6
  <2>3. to # e.to => Due(e)'
    <3> SUFFICES ASSUME to # e.to PROVE Due(e)'
      OBVIOUS
    <3>1. e.object = Provenance /\ to = "partial" /\ e.from = {"original", "published", "partial"}
          /\ e.kind = "publish"
      BY <1>2, <1>4, RollbackAt
    <3> QED BY <1>5, <1>6, <1>8, <3>1 DEF Due
  <2> QED BY <1>0, <1>1, <1>2, <1>5, <1>9, <1>14, <2>1, <2>2, <2>3 DEF RecovererInv, InMigration
<1> QED BY <1>9, <1>10, <1>11, <1>12, <1>13, <1>15
        DEF MigrationInv, ActiveIsLast, WriterInv

(* An announced change of a resume, which publishes an object.                 *)
LEMMA ResumeChanges ==
    ASSUME Typed, MigrationInv, MakeChange, process.command = "resume"
    PROVE  MigrationInv'
<1>0. /\ Recovering /\ process.at \in 1 .. Len(RecoveryPlan) /\ Len(RecoveryPlan) \in Nat
      /\ process \in ProcessType /\ process.operation = "legacy-migrate" /\ InMigration
      /\ \A i \in 1 .. Len(RecoveryPlan) : i < process.at => Passed(RecoveryPlan[i])
      /\ \A a \in Authorities : place[Tree(a)] # "none"
      /\ MigrationTyped /\ process.mark = "pending" /\ Working
  BY RecoveryWorks DEF MakeChange, Typed
<1>1. RecoveryPlan = ResumePlan
  BY DEF RecoveryPlan
<1> DEFINE n == process.at
           e == ResumePlan[process.at]
<1>2. /\ Entry = e /\ Due(e) /\ e.kind = "publish" /\ n \in 1 .. Len(ResumePlan)
      /\ place[e.object] \in e.from
  BY <1>0, <1>1 DEF Entry, MigrationInv, RecovererInv, Due
<1>3. /\ n \in 1 .. Len(Remaining) /\ Remaining[n] \notin Records /\ e.object \in Objects
      /\ Remaining[n].object = e.object /\ Remaining[n].to = e.to
      /\ e.from \subseteq {"original", "reserved"} /\ e.to \in {"reserved", "published", "consumed"}
      /\ e.object[1] # "reservation" => e.to = "published"
      /\ n = Len(Forward) <=> e.object = Active
  BY <1>2, RemainingAt
<1>4. Put(e.object, e.to) /\ process' = [process EXCEPT !.mark = "made"]
  BY <1>2, <1>3 DEF MakeChange
<1>5. /\ process'.command = "resume" /\ process'.operation = "legacy-migrate"
      /\ process'.at = n /\ process'.mark = "made"
  BY <1>0, <1>4 DEF ProcessType
<1>6. \A o \in Objects : place'[o] = IF o = e.object THEN e.to ELSE place[o]
  BY <1>0, <1>3, <1>4 DEF Put, MigrationTyped
<1>7. /\ Active \in Objects /\ Provenance \in Objects
      /\ \A a \in Authorities : Tree(a) \in Objects /\ Reservation(a) \in Objects
      /\ Provenance[1] # "reservation"
  BY StatesOfObjects, MigrationObjects
<1>8. \A i \in 1 .. Len(Remaining) : i < n => Finished(Remaining[i])
  <2> SUFFICES ASSUME NEW i \in 1 .. Len(Remaining), i < n PROVE Finished(Remaining[i])
    OBVIOUS
  <2>1. i \in 1 .. Len(ResumePlan) /\ Passed(ResumePlan[i])
    BY <1>0, <1>1, ResumePlanIs
  <2>2. Finished(ResumePlan[i])
    BY <2>1 DEF Passed, Finished
  <2> QED BY <2>1, <2>2, ResumeAt
<1>9. InMigration' /\ Rests'
  BY <1>0 DEF MakeChange, InMigration, Rests
<1>10. ActiveIsLast'
  <2> SUFFICES ASSUME place'[Active] = "published", NEW o \in Objects \ {Active, Provenance}
               PROVE  place'[o] \in {"published", "consumed"}
    BY DEF ActiveIsLast
  <2>1. CASE e.object = Active
    <3>1. place[o] = FinalPlace(o)
      BY <1>2, <1>3, <1>8, <2>1, RemainingIs, OrderedDone
    <3> QED BY <1>6, <2>1, <3>1 DEF FinalPlace
  <2>2. CASE e.object # Active
    <3>1. place[o] \in {"published", "consumed"}
      BY <1>6, <1>7, <2>2 DEF MigrationInv, ActiveIsLast
    <3> QED BY <1>2, <1>3, <1>6, <3>1
  <2> QED BY <2>1, <2>2
<1>11. ProvenanceGoesLast'
  <2> SUFFICES ASSUME place'[Provenance] \in {"partial", "removed"}, NEW a \in Authorities
               PROVE  place'[Reservation(a)] = "rollback"
    BY DEF ProvenanceGoesLast
  <2>1. place[Provenance] \in {"partial", "removed"}
    BY <1>3, <1>6, <1>7
  <2>2. place[Reservation(a)] = "rollback"
    BY <2>1 DEF MigrationInv, ProvenanceGoesLast
  <2> QED BY <1>2, <1>3, <1>6, <1>7, <2>2
<1>12. Grounded'
  BY <1>0, <1>3, <1>6, <1>7 DEF Grounded
<1>13. ~Writing'
  BY <1>5 DEF Writing
<1>14. RecoveryPlan' = ResumePlan /\ Entry' = e
  BY <1>5 DEF RecoveryPlan, Entry
<1>15. RecovererInv'
  <2>1. \A i \in 1 .. Len(Remaining) : i < n + 1 => Finished(Remaining[i])'
    BY <1>0, <1>3, <1>4, <1>8, RemainingIs, FinishedStays
  <2>2. ASSUME NEW i \in 1 .. Len(ResumePlan), i < n PROVE Passed(ResumePlan[i])'
    <3>1. i \in 1 .. Len(Remaining) /\ (Remaining[i] \notin Records => ResumePlan[i].object = Remaining[i].object
             /\ ResumePlan[i].to = Remaining[i].to /\ Remaining[i].kind = "publish")
          /\ (Remaining[i] \in Records => ResumePlan[i].kind = "record")
      BY ResumeAt, RecordsPass
    <3>2. Finished(Remaining[i])'
      BY <1>2, <2>1, <2>2, <3>1
    <3>3. Finished(ResumePlan[i])'
      BY <3>1, <3>2 DEF Finished
    <3> QED BY <1>5, <3>3 DEF Passed, Finished
  <2>3. place'[e.object] = e.to
    BY <1>3, <1>6
  <2> QED BY <1>0, <1>1, <1>2, <1>5, <1>9, <1>14, <2>2, <2>3 DEF RecovererInv, InMigration
<1> QED BY <1>9, <1>10, <1>11, <1>12, <1>13, <1>15 DEF MigrationInv, WriterInv

(* Whatever the other steps of a recovery pass over is done.                   *)
LEMMA RecoveryPasses ==
    ASSUME Typed, MigrationInv, Working,
           \/ process.mark = "done"
           \/ process.mark = "none" /\ Entry.kind = "record"
           \/ process.mark = "none" /\ Entry.kind = "publish" /\ ~Due(Entry) /\ Resumable(Entry)
    PROVE  Passed(Entry)
<1>0. /\ Recovering /\ process.at \in 1 .. Len(RecoveryPlan) /\ Len(RecoveryPlan) \in Nat
      /\ process.command \in Actions
      /\ \A i \in 1 .. Len(RecoveryPlan) : i < process.at => Passed(RecoveryPlan[i])
      /\ \A a \in Authorities : place[Tree(a)] # "none"
      /\ MigrationTyped
      /\ process.mark = "done" => place[Entry.object] = Entry.to
  BY RecoveryWorks DEF Typed, MigrationInv, RecovererInv
<1>1. CASE Entry.kind # "publish"
  BY <1>1 DEF Passed
<1>2. CASE Entry.kind = "publish" /\ process.command = "rollback"
  <2>1. RecoveryPlan = RollbackPlan
    BY <1>2 DEF RecoveryPlan
  <2>2. Entry.to \notin Entry.from
    BY <1>0, <2>1, RollbackAt DEF Entry
  <2> QED BY <1>0, <1>2, <2>2 DEF Passed, Due
<1>3. CASE Entry.kind = "publish" /\ process.command = "resume"
  <2> DEFINE n == process.at
             e == ResumePlan[process.at]
  <2>1. RecoveryPlan = ResumePlan /\ Entry = e /\ n \in 1 .. Len(ResumePlan)
    BY <1>0, <1>3 DEF RecoveryPlan, Entry
  <2>2. /\ n \in 1 .. Len(Remaining) /\ e.object \in Objects
        /\ e.object[1] # "reservation" => e.from = {"original"} /\ e.to = "published"
        /\ n > Len(Forward) <=> e.object = Provenance
    BY <1>3, <2>1, RemainingAt
  <2>3. \A i \in 1 .. Len(Remaining) : i < n => Finished(Remaining[i])
    <3> SUFFICES ASSUME NEW i \in 1 .. Len(Remaining), i < n PROVE Finished(Remaining[i])
      OBVIOUS
    <3>1. i \in 1 .. Len(ResumePlan) /\ Passed(ResumePlan[i])
      BY <1>0, <2>1, ResumePlanIs
    <3>2. Finished(ResumePlan[i])
      BY <1>3, <3>1 DEF Passed, Finished
    <3> QED BY <3>1, <3>2, ResumeAt
  <2>4. SUFFICES ASSUME process.mark = "none", ~Due(e), Resumable(e), e.to \in {"published", "consumed"}
                 PROVE  place[e.object] = e.to
    BY <1>0, <1>3, <2>1 DEF Passed, Finished
  <2>5. CASE e.object[1] \in {"config", "reservation"}
    BY <1>3, <2>4, <2>5 DEF Resumable
  <2>6. CASE e.object[1] \notin {"config", "reservation"}
    <3>1. e.from = {"original"} /\ e.to = "published" /\ place[e.object] # "original"
      BY <1>3, <2>1, <2>2, <2>4, <2>6 DEF Due
    <3>2. CASE e.object = Provenance
      <4>1. \A o \in Objects \ {Active, Provenance} : place[o] = FinalPlace(o)
        <5>1. n >= Len(Forward) /\ n \in Nat
          BY <2>2, <3>2, ForwardIs
        <5> QED BY <2>3, <5>1, RemainingIs, OrderedDone
      <4>2. place[Reservation("root")] # "rollback"
        <5>1. Reservation("root") \in Objects \ {Active, Provenance}
          BY StatesOfObjects, MigrationObjects DEF Authorities
        <5>2. place[Reservation("root")] = FinalPlace(Reservation("root"))
          BY <4>1, <5>1
        <5> QED BY <5>2 DEF FinalPlace
      <4>3. place[Provenance] \notin {"partial", "removed"}
        BY <4>2 DEF MigrationInv, ProvenanceGoesLast, Authorities
      <4> QED BY <1>0, <2>2, <3>1, <3>2, <4>3, StatesOfObjects DEF MigrationTyped
    <3>3. CASE e.object # Provenance
      <4>1. \/ \E a \in Authorities : e.object = Tree(a)
            \/ \E s \in Services : e.object = Issuer(s)
            \/ \E q \in QuarantineNames : e.object = Quarantine(q)
            \/ e.object \in {Session, Active}
        BY <2>2, <2>6, <3>3, MigrationObjects DEF PublishedObjects
      <4> QED BY <1>0, <2>2, <3>1, <4>1, StatesOfObjects DEF MigrationTyped
    <3> QED BY <3>2, <3>3
  <2> QED BY <2>5, <2>6
<1> QED BY <1>0, <1>1, <1>2, <1>3 DEF Actions

(* A recovery commits what it has undone, or done, entirely.                   *)
LEMMA RecoveryCloses ==
    ASSUME Typed, MigrationInv, RecoveryCommits PROVE MigrationInv'
<1>0. /\ Recovering /\ process.at \in Nat /\ process.at = Len(RecoveryPlan) + 1
      /\ process.operation = "legacy-migrate" /\ process \in ProcessType
      /\ process.command \in Actions /\ Len(RecoveryPlan) \in Nat /\ MigrationTyped
  BY Lengths
    DEF RecoveryCommits, Typed, Control, JournalTyped, ProcessType, Recovering, RecoveryPlan
<1>1. /\ process'.at = Len(RecoveryPlan) + 2 /\ process'.command = process.command
      /\ process'.operation = "legacy-migrate" /\ place' = place /\ process'.mark = "none"
  BY <1>0 DEF RecoveryCommits, Advance, ProcessType, migration_vars
<1>2. journal'.operation = "legacy-migrate"
  BY DEF RecoveryCommits, Write, NoJournal
<1>3. \A i \in 1 .. Len(RecoveryPlan) : Passed(RecoveryPlan[i])
  BY <1>0 DEF MigrationInv, RecovererInv
<1>4. AsFound \/ AllFinal
  <2>1. CASE process.command = "rollback"
    <3>1. RecoveryPlan = RollbackPlan
      BY <2>1 DEF RecoveryPlan
    <3> SUFFICES ASSUME NEW o \in Objects \ {Provenance}
                 PROVE  place[o] \in {"none", "original", "rollback"}
      BY DEF AsFound
    <3>2. PICK i \in 1 .. Len(RollbackPlan) : RollbackPlan[i] = UndoOf(o)
      BY RollbackPlanIs
    <3>3. place[o] \notin UndoOf(o).from
      BY <1>3, <2>1, <3>1, <3>2, UndoneStays DEF Passed
    <3> QED BY <1>0, <3>3, UndoneStays DEF MigrationTyped
  <2>2. CASE process.command = "resume"
    <3>1. RecoveryPlan = ResumePlan
      BY <2>2 DEF RecoveryPlan
    <3>2. ASSUME NEW i \in 1 .. Len(Remaining) PROVE Finished(Remaining[i])
      <4>1. i \in 1 .. Len(ResumePlan) /\ Passed(ResumePlan[i])
        BY <1>3, <3>1, ResumePlanIs
      <4>2. Finished(ResumePlan[i])
        BY <2>2, <4>1 DEF Passed, Finished
      <4> QED BY <4>1, <4>2, ResumeAt
    <3>3. Len(Remaining) \in Nat
      BY RemainingIs DEF Ordered
    <3>4. Len(Remaining) + 1 \in Nat /\ Len(Remaining) + 1 > Len(Remaining)
      BY <3>3
    <3> QED BY <3>2, <3>4, RemainingIs, OrderedDone
  <2> QED BY <1>0, <2>1, <2>2 DEF Actions
<1>5. ActiveIsLast' /\ ProvenanceGoesLast' /\ Grounded' /\ Rests'
  BY <1>0, <1>1, <1>4
    DEF MigrationInv, ActiveIsLast, ProvenanceGoesLast, Grounded, Rests, AsFound, AllFinal
<1>6. ~Writing'
  BY <1>0, <1>1 DEF Writing, Actions
<1>7. RecovererInv'
  <2>1. RecoveryPlan' = RecoveryPlan
    BY <1>1 DEF RecoveryPlan
  <2>2. \A e : Passed(e)' <=> Passed(e)
    BY <1>1 DEF Passed, Finished
  <2> QED BY <1>0, <1>1, <1>3, <2>1, <2>2 DEF RecovererInv
<1> QED BY <1>5, <1>6, <1>7 DEF MigrationInv, WriterInv

(* Every step of a recovery keeps the invariant.                              *)
LEMMA RecoveryKeeps ==
    ASSUME Typed, MigrationInv, RecoverySteps PROVE MigrationInv'
<1>0. process \in ProcessType /\ journal \in JournalType
  BY DEF Typed, JournalTyped
<1>1. Working => InMigration
  BY RecoveryWorks
<1>2. CASE RecoveryRecords
  <2>1. /\ Working /\ place' = place /\ InMigration' /\ process'.command = process.command
        /\ process'.operation = process.operation /\ process'.at = process.at + 1
        /\ process'.mark = "none" /\ Entry.kind = "record"
    BY <1>0, <1>2 DEF RecoveryRecords, Write, NoJournal, Advance, InMigration, ProcessType,
                      migration_vars
  <2>2. Passed(Entry)
    BY <2>1 DEF Passed
  <2> QED BY <2>1, <2>2, RecoveryStays
<1>3. ASSUME NEW mark, Working, Checkpoint(mark)
      PROVE  /\ place' = place /\ InMigration' /\ process'.command = process.command
             /\ process'.operation = process.operation /\ process'.at = process.at
             /\ process'.mark = mark
  BY <1>0, <1>1, <1>3 DEF Checkpoint, InMigration, JournalType, ProcessType, migration_vars
<1>4. CASE AnnounceChange
  <2>1. Working /\ Checkpoint("pending") /\ Due(Entry)
    BY <1>4 DEF AnnounceChange
  <2> QED BY <1>3, <2>1, RecoveryStays
<1>5. CASE RecordChange
  <2>1. Working /\ Checkpoint("done") /\ process.mark = "made"
    BY <1>5 DEF RecordChange
  <2>2. place[Entry.object] = Entry.to
    BY <2>1 DEF MigrationInv, RecovererInv, Working
  <2> QED BY <1>3, <2>1, <2>2, RecoveryStays
<1>6. CASE PassChange \/ PassOver
  <2>1. /\ Working /\ place' = place /\ InMigration' /\ process'.command = process.command
        /\ process'.operation = process.operation /\ process'.at = process.at + 1
        /\ process'.mark = "none"
    BY <1>0, <1>1, <1>6
      DEF PassChange, PassOver, Advance, InMigration, ProcessType, migration_vars
  <2>2. Passed(Entry)
    BY <1>6, <2>1, RecoveryPasses DEF PassChange, PassOver
  <2> QED BY <2>1, <2>2, RecoveryStays
<1>7. CASE MakeChange
  <2>1. process.command \in Actions
    BY <1>7, RecoveryWorks DEF MakeChange
  <2> QED BY <1>7, <2>1, RollbackChanges, ResumeChanges DEF Actions
<1>8. CASE RecoveryRefuses
  BY <1>8, MigrationIdles DEF RecoveryRefuses
<1>9. CASE RecoveryCommits
  BY <1>9, RecoveryCloses
<1>10. CASE RecoveryReturns
  BY <1>10, MigrationIdles DEF RecoveryReturns
<1> QED BY <1>2, <1>4, <1>5, <1>6, <1>7, <1>8, <1>9, <1>10 DEF RecoverySteps

(* A migration's invariant is inductive.                                      *)
LEMMA MigrationKeeps ==
    ASSUME Typed, Owned, MigrationInv, [Next]_vars PROVE MigrationInv'
<1>0. Typed'
  BY StepIsTyped
<1>1. ASSUME Works(Bootstraps), UNCHANGED migration_vars PROVE MigrationInv'
  BY <1>0, <1>1, MigrationSpared DEF Operations, Bootstraps
<1>2. ASSUME Works({"rollover-prepare"}), UNCHANGED migration_vars PROVE MigrationInv'
  BY <1>0, <1>2, MigrationSpared DEF Operations
<1>3. CASE Migrates
  <2>1. CASE BeginMigration
    BY <2>1, MigrationBegun
  <2>2. CASE WriterSteps
    <3>1. CASE WriterReturns
      BY <3>1, MigrationIdles DEF WriterReturns
    <3> QED BY <2>2, <3>1, WriterMoves, WriterCloses DEF WriterSteps
  <2>3. CASE RecoverySteps
    BY <2>3, RecoveryKeeps
  <2>4. CASE MigrationFails
    BY <2>4, MigrationIdles DEF MigrationFails, Failing
  <2>5. ASSUME NEW action \in Actions, BeginRecovery(action) PROVE MigrationInv'
    BY <2>5, RecoveryBegun
  <2> QED BY <1>3, <2>1, <2>2, <2>3, <2>4, <2>5 DEF Migrates, CommandSteps
<1>4. CASE /\ process' = Idle \/ process' = process
           /\ UNCHANGED << journal, migration_vars >>
  BY <1>4, MigrationIdles, MigrationStutters
<1> QED BY <1>1, <1>2, <1>3, <1>4, StepWorks

------------------------------------------------------------------------------
(* A creation: a manifest is put in its place after all that it names, and      *)
(* taken back before any of it.                                              *)

(* What no creation left unfinished can show.                                 *)
NothingCreated ==
    /\ Missing("root") /\ Missing("intermediate") /\ made[KeyCopy] = "absent"
    /\ Manifests("absent", "absent") /\ EntriesAre("before")
RootCreated ==
    /\ Whole("root") /\ Missing("intermediate") /\ made[KeyCopy] = "absent"
    /\ Manifests("published", "absent") /\ EntriesAre("before")
PairFinal ==
    /\ Whole("root") /\ Whole("intermediate")
    /\ Manifests("absent", "published") /\ EntriesAre("after")
PairCreated == PairFinal /\ made[KeyCopy] = "absent"
CreationRests == ~InCreation => NothingCreated \/ RootCreated \/ PairCreated

(* The root is made first, and an intermediate made on it.                    *)
Beginning ==
    /\ creating \in {"none", "root"} =>
          /\ Missing("intermediate") /\ made[ActiveManifest] = "absent"
          /\ EntriesAre("before") /\ made[KeyCopy] = "absent"
    /\ creating = "none" => NothingCreated
    /\ creating = "intermediate" => Whole("root")
ManifestsLast ==
    /\ made[RootManifest] = "published" => Whole("root")
    /\ made[ActiveManifest] = "published" => Whole("intermediate") /\ EntriesAre("after")

(* The copy of the root is in a hidden directory that the journal names.       *)
CopyKnown ==
    made[KeyCopy] = "published" =>
        made[Room("intermediate")] = "published" /\ Room("intermediate") \in journal.evidence.known

(* What the command has put in its place so far.                              *)
Lasts(e) == e.kind = "place" => made[e.object] = e.to
CreatorInv ==
    Creating =>
        /\ process.at > 1 /\ process.at <= Len(CreationPlan) + 1 => InCreation
        /\ \A i \in 1 .. Len(CreationPlan) :
              i > IsStaged /\ i < process.at => Lasts(CreationPlan[i])
        /\ (made[ActiveManifest] = "published" \/ (creating = "root" /\ made[RootManifest] = "published"))
              => process.at > IsPublished
        /\ creating = "intermediate" /\ process.at \in {5, 6} =>
              made[Room("intermediate")] = "published"
        /\ creating = "intermediate" /\ process.at = 6 =>
              Room("intermediate") \in journal.evidence.known

(* What a rollback has withdrawn, the copy with the hidden directory it is in.  *)
Gone(e) ==
    IF e.object = Room(creating) THEN made[KeyCopy] = "absent" ELSE made[e.object] = e.to
WithdrawerInv ==
    Withdrawing =>
        /\ process.mark # "none" => process.at <= Len(Withdrawal) /\ InCreation
        /\ process.at <= Len(Withdrawal) + 1 /\ ~Aborting => ~journal.committed
        /\ process.mark = "made" => Gone(Withdrawn)
        /\ \A i \in 1 .. Len(Withdrawal) : i < process.at => Gone(Withdrawal[i])
CompleterInv ==
    Completing =>
        /\ creating = "intermediate" /\ PairFinal
        /\ process.mark \in {"none", "pending", "made", "done"} => ~journal.committed
        /\ process.mark \notin {"none", "pending"} => made[KeyCopy] = "absent"

CreationInv ==
    /\ Beginning /\ ManifestsLast /\ CopyKnown /\ CreationRests
    /\ CreatorInv /\ WithdrawerInv /\ CompleterInv

------------------------------------------------------------------------------
(* The objects of a creation are different ones.                              *)
LEMMA MadeObjects ==
    /\ \A a \in Authorities : /\ {Grant(a), Room(a), Authority(a)} \subseteq Creations
                              /\ Grant(a)[1] = "grant" /\ Room(a)[1] = "room"
                              /\ Authority(a)[1] = "authority"
    /\ \A k \in Keys : RootEntry(k) \in Creations /\ RootEntry(k)[1] = "entry"
    /\ {KeyCopy, RootManifest, ActiveManifest} \subseteq Creations
    /\ KeyCopy[1] = "key copy" /\ RootManifest[1] = "root manifest"
    /\ ActiveManifest[1] = "active manifest"
    /\ Grant("root") # Grant("intermediate") /\ Room("root") # Room("intermediate")
    /\ Authority("root") # Authority("intermediate")
<1>1. Grant("root") # Grant("intermediate") /\ Room("root") # Room("intermediate")
      /\ Authority("root") # Authority("intermediate")
  BY DEF Grant, Room, Authority
<1> QED BY <1>1, CreationObjects

(* What a change of one object does to the others.                            *)
LEMMA LayIs ==
    ASSUME NEW o \in Creations, NEW to, Lay(o, to)
    PROVE  /\ made'[o] = to
           /\ o # RootManifest => made'[RootManifest] = made[RootManifest]
           /\ o # ActiveManifest => made'[ActiveManifest] = made[ActiveManifest]
           /\ \A p \in Creations : p # o /\ p[1] \notin {"room", "key copy"} => made'[p] = made[p]
           /\ o[1] \notin {"room", "key copy"} =>
                 made'[KeyCopy] = made[KeyCopy]
                 /\ made'[Room("intermediate")] = made[Room("intermediate")]
           /\ o = Room("intermediate") => made'[KeyCopy] = "absent"
           /\ o = Room("root") => made'[KeyCopy] = made[KeyCopy]
                                  /\ made'[Room("intermediate")] = made[Room("intermediate")]
           /\ o = KeyCopy => made'[Room("intermediate")] = made[Room("intermediate")]
           /\ o[1] # "entry" => \A s : EntriesAre(s)' <=> EntriesAre(s)
           /\ \A a \in Authorities : o \notin {Grant(a), Authority(a)} =>
                 (Whole(a)' <=> Whole(a)) /\ (Missing(a)' <=> Missing(a))
<1>1. \A p \in Creations : made'[p] =
         IF p = o THEN to
         ELSE IF \/ p = Room("root") /\ o = Authority("root")
                 \/ p = KeyCopy /\ o = Room("intermediate")
              THEN "absent" ELSE made[p]
  BY DEF Lay
<1>2. \A p \in Creations : p # o /\ p[1] \notin {"room", "key copy"} => made'[p] = made[p]
  BY <1>1, MadeObjects DEF Authorities
<1>3. ASSUME o[1] # "entry", NEW s PROVE EntriesAre(s)' <=> EntriesAre(s)
  <2>1. \A k \in Keys \ Kept : made'[RootEntry(k)] = made[RootEntry(k)]
    BY <1>2, <1>3, MadeObjects
  <2> QED BY <2>1 DEF EntriesAre
<1>4. ASSUME NEW a \in Authorities, o \notin {Grant(a), Authority(a)}
      PROVE  (Whole(a)' <=> Whole(a)) /\ (Missing(a)' <=> Missing(a))
  <2>1. made'[Grant(a)] = made[Grant(a)] /\ made'[Authority(a)] = made[Authority(a)]
    BY <1>2, <1>4, MadeObjects
  <2> QED BY <2>1 DEF Whole, Missing
<1>5. /\ o[1] \notin {"room", "key copy"} =>
             made'[KeyCopy] = made[KeyCopy]
             /\ made'[Room("intermediate")] = made[Room("intermediate")]
      /\ o = Room("intermediate") => made'[KeyCopy] = "absent"
      /\ o = Room("root") => made'[KeyCopy] = made[KeyCopy]
                              /\ made'[Room("intermediate")] = made[Room("intermediate")]
      /\ o = KeyCopy => made'[Room("intermediate")] = made[Room("intermediate")]
  BY <1>1, MadeObjects DEF Authorities
<1> QED BY <1>1, <1>2, <1>3, <1>4, <1>5, MadeObjects

(* The parts of the invariant that depend on the objects only.                *)
LEMMA SameObjects ==
    ASSUME made' = made
    PROVE  /\ \A a \in Authorities : (Whole(a)' <=> Whole(a)) /\ (Missing(a)' <=> Missing(a))
           /\ \A s : EntriesAre(s)' <=> EntriesAre(s)
           /\ \A r, s : Manifests(r, s)' <=> Manifests(r, s)
           /\ NothingCreated' <=> NothingCreated
           /\ RootCreated' <=> RootCreated
           /\ PairFinal' <=> PairFinal
           /\ PairCreated' <=> PairCreated
           /\ ManifestsLast' <=> ManifestsLast
           /\ creating' = creating => (Beginning' <=> Beginning)
<1>1. /\ \A a \in Authorities : (Whole(a)' <=> Whole(a)) /\ (Missing(a)' <=> Missing(a))
      /\ \A s : EntriesAre(s)' <=> EntriesAre(s)
      /\ \A r, s : Manifests(r, s)' <=> Manifests(r, s)
  BY DEF Whole, Missing, EntriesAre, Manifests
<1>2. (NothingCreated' <=> NothingCreated) /\ (RootCreated' <=> RootCreated)
      /\ (PairFinal' <=> PairFinal)
  BY <1>1 DEF NothingCreated, RootCreated, PairFinal, Authorities
<1>3. PairCreated' <=> PairCreated
  BY <1>2 DEF PairCreated
<1>4. ManifestsLast' <=> ManifestsLast
  BY <1>1 DEF ManifestsLast, Authorities
<1>5. creating' = creating => (Beginning' <=> Beginning)
  BY <1>1, <1>2 DEF Beginning, Authorities
<1> QED BY <1>1, <1>2, <1>3, <1>4, <1>5

(* It holds at first.                                                         *)
LEMMA CreationStarts == ASSUME Init PROVE CreationInv
<1>1. process = Idle /\ journal = NoJournal /\ made = Uncreated /\ creating = "none"
  BY DEF Init
<1>2. process.command = "none" /\ journal.operation = "none"
  BY <1>1, IdleTyped, NoJournalTyped
<1>3. \A o \in Creations : made[o] = IF o[1] = "entry" THEN "before" ELSE "absent"
  BY <1>1 DEF Uncreated
<1>4. /\ \A a \in Authorities : Missing(a) /\ ~Whole(a)
      /\ EntriesAre("before") /\ made[KeyCopy] = "absent" /\ Manifests("absent", "absent")
      /\ made[RootManifest] = "absent" /\ made[ActiveManifest] = "absent"
  BY <1>3, MadeObjects DEF Missing, Whole, EntriesAre, Manifests
<1>5. NothingCreated /\ Beginning /\ ManifestsLast /\ CopyKnown
  BY <1>1, <1>4 DEF NothingCreated, Beginning, ManifestsLast, CopyKnown, Authorities
<1> QED BY <1>2, <1>5
        DEF CreationInv, CreationRests, CreatorInv, WithdrawerInv, CompleterInv,
            Creating, Withdrawing, Completing, Actions

(* A command that ends or is killed leaves it.                                *)
LEMMA CreationIdles ==
    ASSUME CreationInv, process' = Idle, journal' = journal, UNCHANGED creation_vars
    PROVE  CreationInv'
<1>1. process'.command = "none" /\ made' = made /\ creating' = creating
  BY IdleTyped DEF creation_vars
<1>2. ~Creating' /\ ~Withdrawing' /\ ~Completing'
  BY <1>1 DEF Creating, Withdrawing, Completing
<1>3. Beginning' /\ ManifestsLast' /\ CopyKnown' /\ CreationRests'
  BY <1>1, SameObjects DEF CreationInv, CopyKnown, CreationRests, InCreation
<1> QED BY <1>2, <1>3 DEF CreationInv, CreatorInv, WithdrawerInv, CompleterInv

(* The plans of a creation are those of its authority.                        *)
LEMMA SameAuthority ==
    ASSUME creating' = creating
    PROVE  /\ CreationPlan' = CreationPlan /\ Withdrawal' = Withdrawal
           /\ IsStaged' = IsStaged /\ IsPublished' = IsPublished
<1>1. IsStaged' = IsStaged /\ IsPublished' = IsPublished
  BY DEF IsStaged, IsPublished, CreationStaging, AuthorityPublication, ForIntermediate
<1> QED BY <1>1, SameCreation

(* And so does a step that changes nothing of it.                             *)
LEMMA CreationStutters ==
    ASSUME CreationInv, process' = process, journal' = journal, UNCHANGED creation_vars
    PROVE  CreationInv'
<1>1. made' = made /\ creating' = creating
  BY DEF creation_vars
<1>2. Beginning' /\ ManifestsLast' /\ CopyKnown' /\ CreationRests'
  BY <1>1, SameObjects DEF CreationInv, CopyKnown, CreationRests, InCreation
<1>3. CreatorInv'
  BY <1>1, SameAuthority DEF CreationInv, CreatorInv, Creating, InCreation, Lasts
<1>4. WithdrawerInv'
  BY <1>1, SameAuthority
    DEF CreationInv, WithdrawerInv, Withdrawing, InCreation, Gone, Withdrawn, Aborting
<1>5. CompleterInv'
  BY <1>1, SameObjects DEF CreationInv, CompleterInv, Completing
<1> QED BY <1>2, <1>3, <1>4, <1>5 DEF CreationInv

(* The other commands leave a creation, unfinished or not, as it is.           *)
LEMMA CreationSpared ==
    ASSUME Typed, Typed', Owned, CreationInv, UNCHANGED creation_vars,
           NEW O, O \subseteq {"legacy-migrate", "rollover-prepare"}, Works(O)
    PROVE  CreationInv'
<1>0. Control' /\ made' = made /\ creating' = creating
  BY DEF Typed, creation_vars
<1>1. ASSUME InCreation PROVE journal' = journal
  BY <1>1 DEF Works, InCreation, Owned, Outstanding, Bootstraps
<1>2. ~Creating' /\ ~Withdrawing' /\ ~Completing'
  <2> SUFFICES ASSUME Creating' \/ Withdrawing' \/ Completing', process' # process \/ Running PROVE FALSE
    <3>1. ASSUME process' = process, ~Running PROVE ~Creating' /\ ~Withdrawing' /\ ~Completing'
      BY <3>1 DEF Running, Creating, Withdrawing, Completing
    <3> QED BY <3>1
  <2>1. process'.operation \in Bootstraps
    BY <1>0 DEF Control, Creating, Withdrawing, Completing
  <2> QED BY <2>1, IdleTyped DEF Works, Bootstraps
<1>3. Beginning' /\ ManifestsLast'
  BY <1>0, SameObjects DEF CreationInv
<1>4. CopyKnown'
  <2>1. ~InCreation => made[KeyCopy] = "absent"
    BY DEF CreationInv, CreationRests, NothingCreated, RootCreated, PairCreated
  <2> QED BY <1>0, <1>1, <2>1 DEF CreationInv, CopyKnown
<1>5. CreationRests'
  <2>1. ~InCreation' => ~InCreation
    BY <1>1 DEF InCreation
  <2> QED BY <1>0, <2>1, SameObjects DEF CreationInv, CreationRests
<1> QED BY <1>2, <1>3, <1>4, <1>5 DEF CreationInv, CreatorInv, WithdrawerInv, CompleterInv

------------------------------------------------------------------------------
(* The command.                                                               *)

(* What a creation puts in its place, and when.                               *)
LEMMA PlacedAt ==
    ASSUME creating \in Authorities, NEW i \in 1 .. Len(CreationPlan), CreationPlan[i].kind = "place"
    PROVE  /\ CreationPlan[i].object \in Creations
           /\ CreationPlan[i].to \in MadeStates(CreationPlan[i].object)
           /\ i > 1 /\ i # 3 /\ i # 5
           /\ \/ i = 2 /\ CreationPlan[i].object = Grant(creating)
              \/ i = 4 /\ CreationPlan[i].object = Room(creating) /\ CreationPlan[i].to = "published"
              \/ /\ i = 6 /\ IsStaged = 6 /\ creating = "intermediate"
                 /\ CreationPlan[i].object = KeyCopy /\ CreationPlan[i].to = "published"
              \/ /\ i > IsStaged /\ i <= IsPublished /\ CreationPlan[i].object \in AuthorityObjects
                 /\ CreationPlan[i].to = FinalMade(CreationPlan[i].object)
              \/ /\ i > IsStaged /\ i > IsPublished /\ CreationPlan[i].object \in ManifestObjects
                 /\ CreationPlan[i].to = FinalMade(CreationPlan[i].object)
<1>1. /\ IsStaged \in Nat /\ IsPublished \in Nat /\ 5 <= IsStaged /\ IsStaged <= IsPublished
      /\ IsStaged = IF creating = "root" THEN 5 ELSE 6
      /\ \A j \in 1 .. IsStaged : CreationPlan[j] = CreationStaging[j]
      /\ \A j \in 1 .. Len(CreationPlan) : j > IsStaged =>
            CreationPlan[j] \in Journals \cup
               (IF j <= IsPublished THEN Finals(AuthorityObjects) ELSE Finals(ManifestObjects))
      /\ CreationPlan[i] \in CreationEntries
  <2>1. CreationPlan \in Seq(CreationEntries)
    BY CreationPlanIs
  <2> QED BY <2>1, CreationPlanIs, CreationStagingIs DEF IsStaged
<1>2. CreationPlan[i].object \in Creations /\ CreationPlan[i].to \in MadeStates(CreationPlan[i].object)
  BY <1>1, CreationEntryKinds
<1>3. \A phase : Journaled(phase).kind = "journal"
  BY DEF Journaled
<1>4. \A o, to : Placed(o, to).object = o /\ Placed(o, to).to = to
  BY DEF Placed
<1>5. CASE i <= IsStaged
  <2>1. i \in 1 .. 6 /\ CreationPlan[i] = CreationStaging[i] /\ (i = 6 => creating = "intermediate")
    BY <1>1, <1>5 DEF Authorities
  <2>2. i \notin {1, 3, 5}
    BY <1>1, <1>3, <2>1, CreationStagingIs
  <2> QED BY <1>1, <1>2, <1>4, <2>1, <2>2, CreationStagingIs DEF Authorities
<1>6. CASE i > IsStaged
  <2>1. CreationPlan[i] \notin Journals
    BY <1>3 DEF Journals
  <2>2. CreationPlan[i] \in IF i <= IsPublished THEN Finals(AuthorityObjects) ELSE Finals(ManifestObjects)
    BY <1>1, <1>6, <2>1
  <2>3. CASE i <= IsPublished
    <3>1. PICK o \in AuthorityObjects : CreationPlan[i] = Placed(o, FinalMade(o))
      BY <2>2, <2>3 DEF Finals
    <3> QED BY <1>1, <1>2, <1>4, <1>6, <2>3, <3>1
  <2>4. CASE i > IsPublished
    <3>1. PICK o \in ManifestObjects : CreationPlan[i] = Placed(o, FinalMade(o))
      BY <1>1, <2>2, <2>4 DEF Finals
    <3> QED BY <1>1, <1>2, <1>4, <1>6, <2>4, <3>1
  <2> QED BY <1>1, <2>3, <2>4
<1> QED BY <1>1, <1>5, <1>6

(* What it has put in its place when the manifest comes, and at its end.       *)
LEMMA PlacedDone ==
    ASSUME creating \in Authorities, NEW n \in Nat,
           \A i \in 1 .. Len(CreationPlan) : i > IsStaged /\ i < n => Lasts(CreationPlan[i])
    PROVE  /\ n > IsPublished =>
                 Whole(creating) /\ (creating = "intermediate" => EntriesAre("after"))
           /\ n > Len(CreationPlan) =>
                 IF creating = "root" THEN made[RootManifest] = "published"
                 ELSE Manifests("absent", "published") /\ made[KeyCopy] = "absent"
<1>1. \A o, to : Placed(o, to).kind = "place" /\ Placed(o, to).object = o /\ Placed(o, to).to = to
  BY DEF Placed
<1>2. IsStaged \in Nat /\ IsPublished \in Nat /\ IsPublished <= Len(CreationPlan) /\ Len(CreationPlan) \in Nat
      /\ IsStaged <= IsPublished
  BY CreationPlanIs
<1>3. ASSUME n > IsPublished, NEW o \in AuthorityObjects PROVE made[o] = FinalMade(o)
  <2>1. Placed(o, FinalMade(o)) \in Finals(AuthorityObjects)
    BY DEF Finals
  <2>2. PICK i \in 1 .. IsPublished : i > IsStaged /\ CreationPlan[i] = Placed(o, FinalMade(o))
    BY <2>1, CreationPlanIs
  <2>3. Lasts(CreationPlan[i])
    BY <1>2, <1>3, <2>2
  <2> QED BY <1>1, <2>2, <2>3 DEF Lasts
<1>4. ASSUME n > Len(CreationPlan), NEW o \in ManifestObjects PROVE made[o] = FinalMade(o)
  <2>1. Placed(o, FinalMade(o)) \in Finals(ManifestObjects)
    BY DEF Finals
  <2>2. PICK i \in 1 .. Len(CreationPlan) : i > IsPublished /\ CreationPlan[i] = Placed(o, FinalMade(o))
    BY <2>1, CreationPlanIs
  <2>3. Lasts(CreationPlan[i])
    BY <1>2, <1>4, <2>2
  <2> QED BY <1>1, <2>2, <2>3 DEF Lasts
<1>5. ASSUME n > IsPublished
      PROVE  Whole(creating) /\ (creating = "intermediate" => EntriesAre("after"))
  <2>1. Whole(creating)
    BY <1>3, <1>5, FinalStates DEF Whole, AuthorityObjects
  <2>2. ASSUME creating = "intermediate" PROVE EntriesAre("after")
    BY <1>3, <1>5, <2>2, FinalStates DEF EntriesAre, AuthorityObjects
  <2> QED BY <2>1, <2>2
<1>6. ASSUME n > Len(CreationPlan)
      PROVE  IF creating = "root" THEN made[RootManifest] = "published"
             ELSE Manifests("absent", "published") /\ made[KeyCopy] = "absent"
  BY <1>4, <1>6, FinalStates DEF ManifestObjects, Manifests, Authorities
<1> QED BY <1>5, <1>6

(* It begins over what no creation left unfinished.                           *)
LEMMA CreationBegun ==
    ASSUME Typed, CreationInv, NEW a \in Authorities, BeginCreation(a) PROVE CreationInv'
<1>1. /\ creating' = a /\ journal' = journal /\ ~Outstanding /\ Creatable(a)
      /\ made' = [made EXCEPT ![Grant(a)] = "absent", ![Room(a)] = "absent"]
      /\ process'.command = "create" /\ process'.at = 1 /\ CreationTyped
  BY BegunIs, BeginsResolved DEF BeginCreation, Typed
<1>2. /\ \A o \in Creations : made'[o] = IF o \in {Grant(a), Room(a)} THEN "absent" ELSE made[o]
      /\ made'[KeyCopy] = made[KeyCopy] /\ made'[RootManifest] = made[RootManifest]
      /\ made'[ActiveManifest] = made[ActiveManifest]
      /\ \A b \in Authorities : made'[Authority(b)] = made[Authority(b)]
      /\ \A b \in Authorities : b # a => made'[Grant(b)] = made[Grant(b)]
      /\ made'[Grant(a)] = "absent"
      /\ \A k \in Keys : made'[RootEntry(k)] = made[RootEntry(k)]
  <2>1. \A o \in Creations : made'[o] = IF o \in {Grant(a), Room(a)} THEN "absent" ELSE made[o]
    BY <1>1, MadeObjects DEF CreationTyped
  <2> QED BY <2>1, MadeObjects DEF Authorities
<1>3. NothingCreated \/ RootCreated \/ PairCreated
  BY <1>1 DEF CreationInv, CreationRests, InCreation, Outstanding, Bootstraps
<1>4. \A s : EntriesAre(s)' <=> EntriesAre(s)
  BY <1>2 DEF EntriesAre
<1>5. \A r, s : Manifests(r, s)' <=> Manifests(r, s)
  BY <1>2 DEF Manifests
<1>6. ~InCreation' /\ ~Withdrawing' /\ ~Completing'
  BY <1>1 DEF InCreation, Outstanding, Withdrawing, Completing, Bootstraps
<1>7. Len(CreationPlan') \in Nat
  BY <1>1, NextLengths
<1>8. CASE a = "root"
  <2>1. made[RootManifest] = "absent" /\ made[Authority("root")] = "absent" /\ made[ActiveManifest] = "absent"
    BY <1>1, <1>8 DEF Creatable, Own
  <2>2. NothingCreated
    BY <1>3, <2>1 DEF RootCreated, PairCreated, PairFinal, Whole
  <2>3. Missing("root")' /\ Missing("intermediate")'
    BY <1>2, <1>8, <2>2 DEF NothingCreated, Missing, Authorities
  <2>4. NothingCreated'
    BY <1>2, <1>4, <1>5, <2>2, <2>3 DEF NothingCreated
  <2>5. Beginning' /\ ManifestsLast' /\ CopyKnown'
    BY <1>1, <1>8, <2>4 DEF Beginning, ManifestsLast, CopyKnown, NothingCreated, Manifests
  <2>6. CreatorInv'
    BY <1>1, <1>2, <1>8, <2>1 DEF CreatorInv
  <2> QED BY <1>6, <2>4, <2>5, <2>6 DEF CreationInv, CreationRests, WithdrawerInv, CompleterInv
<1>9. CASE a = "intermediate"
  <2>1. made[RootManifest] = "published" /\ made[ActiveManifest] = "absent"
    BY <1>1, <1>9 DEF Creatable
  <2>2. RootCreated
    BY <1>3, <2>1 DEF NothingCreated, PairCreated, PairFinal, Manifests
  <2>3. Whole("root")' /\ Missing("intermediate")'
    BY <1>2, <1>9, <2>2 DEF RootCreated, Missing, Whole, Authorities
  <2>4. RootCreated'
    BY <1>2, <1>4, <1>5, <2>2, <2>3 DEF RootCreated
  <2>5. Beginning' /\ ManifestsLast' /\ CopyKnown'
    BY <1>1, <1>9, <2>4 DEF Beginning, ManifestsLast, CopyKnown, RootCreated, Manifests
  <2>6. CreatorInv'
    BY <1>1, <1>2, <1>9, <2>1 DEF CreatorInv
  <2> QED BY <1>6, <2>4, <2>5, <2>6 DEF CreationInv, CreationRests, WithdrawerInv, CompleterInv
<1> QED BY <1>8, <1>9 DEF Authorities

(* It writes its next journal.                                                *)
LEMMA CreatorNotes ==
    ASSUME Typed, CreationInv, CreatorJournals PROVE CreationInv'
<1>1. /\ Creating /\ creating' = creating /\ made' = made /\ creating \in Authorities
      /\ process.at \in Nat /\ process.at >= 1 /\ process.at <= Len(CreationPlan)
      /\ CreationPlan[process.at].kind = "journal" /\ Len(CreationPlan) \in Nat
      /\ process'.at = process.at + 1 /\ process'.command = "create"
  BY Lengths DEF CreatorJournals, CreatorAt, Creating, Typed, Control, JournalTyped, ProcessType
<1>2. PICK entries : /\ journal'.operation = Operation(creating) /\ journal'.committed = FALSE
                     /\ journal'.evidence.known = Witnessed(entries)
  BY DEF CreatorJournals, Bootstrap, NoJournal, NoEvidence
<1>3. InCreation' /\ ~Withdrawing' /\ ~Completing' /\ Creating'
  BY <1>1, <1>2 DEF InCreation, Operation, Bootstraps, Withdrawing, Completing, Creating
<1>4. creating = "intermediate" /\ made[Room("intermediate")] = "published" =>
         Room("intermediate") \in journal'.evidence.known
  BY <1>2 DEF Witnessed, Own
<1>5. Beginning' /\ ManifestsLast' /\ CreationRests'
  BY <1>1, <1>3, SameObjects DEF CreationInv, CreationRests
<1>6. CopyKnown'
  BY <1>1, <1>4 DEF CreationInv, CopyKnown, Beginning, Authorities
<1>7. CreatorInv'
  <2>1. \A i \in 1 .. Len(CreationPlan) : i > IsStaged /\ i < process.at + 1 => Lasts(CreationPlan[i])'
    <3> SUFFICES ASSUME NEW i \in 1 .. Len(CreationPlan), i > IsStaged, i < process.at + 1
                 PROVE  Lasts(CreationPlan[i])'
      OBVIOUS
    <3>1. CASE i = process.at
      BY <1>1, <3>1, SameAuthority DEF Lasts
    <3>2. CASE i < process.at
      BY <1>1, <3>2, SameAuthority DEF Lasts, CreationInv, CreatorInv
    <3> QED BY <1>1, <3>1, <3>2
  <2>2. creating = "intermediate" /\ process'.at \in {5, 6} => made[Room("intermediate")] = "published"
    <3>1. process'.at = 5 => process.at = 4
      BY <1>1
    <3>2. creating = "intermediate" => CreationPlan[4].kind = "place"
      <4>1. 4 \in 1 .. IsStaged
        BY <1>1, CreationPlanIs
      <4>2. CreationPlan[4] = Placed(Room(creating), "published")
        BY <1>1, <4>1, CreationPlanIs, CreationStagingIs
      <4> QED BY <4>2 DEF Placed
    <3>3. process'.at = 6 => process.at = 5
      BY <1>1
    <3> QED BY <1>1, <3>1, <3>2, <3>3 DEF CreationInv, CreatorInv
  <2>3. creating = "intermediate" /\ process'.at = 6 => Room("intermediate") \in journal'.evidence.known
    BY <1>4, <2>2
  <2>4. (made[ActiveManifest] = "published" \/ (creating = "root" /\ made[RootManifest] = "published"))
           => process.at + 1 > IsPublished
    BY <1>1, CreationPlanIs DEF CreationInv, CreatorInv
  <2> QED BY <1>1, <1>3, <2>1, <2>2, <2>3, <2>4, SameAuthority DEF CreatorInv
<1> QED BY <1>3, <1>5, <1>6, <1>7 DEF CreationInv, WithdrawerInv, CompleterInv

(* It puts its next object in its place.                                      *)
LEMMA CreatorPuts ==
    ASSUME Typed, CreationInv, CreatorPlaces PROVE CreationInv'
<1> DEFINE n == process.at
           o == CreationPlan[process.at].object
           to == CreationPlan[process.at].to
<1>1. /\ Creating /\ creating' = creating /\ creating \in Authorities /\ journal' = journal
      /\ n \in 1 .. Len(CreationPlan) /\ n \in Nat
      /\ CreationPlan[n].kind = "place" /\ Len(CreationPlan) \in Nat /\ Lay(o, to)
      /\ process'.at = n + 1 /\ process'.command = "create"
  BY Lengths DEF CreatorPlaces, CreatorAt, Creating, Typed, Control, JournalTyped, ProcessType
<1>2. /\ o \in Creations /\ n > 1 /\ n # 3 /\ n # 5
      /\ \/ n = 2 /\ o = Grant(creating)
         \/ n = 4 /\ o = Room(creating) /\ to = "published"
         \/ n = 6 /\ IsStaged = 6 /\ creating = "intermediate" /\ o = KeyCopy /\ to = "published"
         \/ n > IsStaged /\ n <= IsPublished /\ o \in AuthorityObjects /\ to = FinalMade(o)
         \/ n > IsStaged /\ n > IsPublished /\ o \in ManifestObjects /\ to = FinalMade(o)
  BY <1>1, PlacedAt
<1>3. /\ IsStaged \in Nat /\ IsPublished \in Nat /\ 5 <= IsStaged /\ IsStaged <= IsPublished
      /\ IsPublished <= Len(CreationPlan)
      /\ IsStaged = IF creating = "root" THEN 5 ELSE 6
  BY <1>1, CreationPlanIs, CreationStagingIs DEF IsStaged
<1>4. /\ InCreation /\ InCreation' /\ ~Withdrawing' /\ ~Completing' /\ Creating'
      /\ \A i \in 1 .. Len(CreationPlan) : i > IsStaged /\ i < n => Lasts(CreationPlan[i])
      /\ (made[ActiveManifest] = "published" \/ (creating = "root" /\ made[RootManifest] = "published"))
            => n > IsPublished
      /\ creating = "intermediate" /\ n \in {5, 6} => made[Room("intermediate")] = "published"
      /\ creating = "intermediate" /\ n = 6 => Room("intermediate") \in journal.evidence.known
  BY <1>1, <1>2 DEF CreationInv, CreatorInv, InCreation, Withdrawing, Completing, Creating
<1> HIDE DEF n, o, to
<1>5. n > IsPublished => Whole(creating) /\ (creating = "intermediate" => EntriesAre("after"))
  BY <1>1, <1>4, PlacedDone
<1>6. \/ o \in {Grant(creating), Room(creating)}
      \/ o \in {Authority(creating)}
      \/ creating = "intermediate" /\ (o \in {KeyCopy, ActiveManifest} \/ \E k \in Keys \ Kept : o = RootEntry(k))
      \/ o = RootManifest
  <2>1. CASE o \in AuthorityObjects
    BY <1>1, <2>1 DEF AuthorityObjects, Authorities
  <2>2. CASE o \in ManifestObjects
    BY <1>1, <2>2 DEF ManifestObjects, Authorities
  <2> QED BY <1>2, <2>1, <2>2
<1>7. Beginning'
  <2>1. CASE creating = "root"
    <3>1. o[1] # "entry" /\ o \notin {Grant("intermediate"), Authority("intermediate")}
          /\ o[1] \notin {"key copy", "active manifest"} /\ o # Room("intermediate")
      BY <1>6, <2>1, MadeObjects DEF Authorities
    <3>2. o # ActiveManifest /\ (o[1] # "room" => made'[KeyCopy] = made[KeyCopy])
          /\ (Missing("intermediate")' <=> Missing("intermediate"))
          /\ (EntriesAre("before")' <=> EntriesAre("before"))
      BY <1>1, <1>2, <3>1, LayIs, MadeObjects DEF Authorities
    <3>3. made'[KeyCopy] = made[KeyCopy]
      <4>1. o[1] = "room" => o = Room("root")
        BY <1>6, <2>1, MadeObjects DEF Authorities
      <4> QED BY <1>1, <1>2, <3>2, <4>1, LayIs
    <3> QED BY <1>1, <1>2, <2>1, <3>2, <3>3, LayIs DEF CreationInv, Beginning
  <2>2. CASE creating = "intermediate"
    <3>1. o \notin {Grant("root"), Authority("root")}
      BY <1>6, <2>2, MadeObjects DEF Authorities
    <3> QED BY <1>1, <1>2, <2>2, <3>1, LayIs DEF CreationInv, Beginning, Authorities
  <2> QED BY <1>1, <2>1, <2>2 DEF Authorities
<1>8. ManifestsLast'
  <2>1. CASE n <= IsPublished
    <3>1. o # RootManifest /\ o # ActiveManifest
      <4>1. o \in AuthorityObjects \cup {Grant(creating), Room(creating), KeyCopy}
        BY <1>1, <1>2, <1>3, <2>1
      <4>2. o[1] \in {"authority", "grant", "entry", "room", "key copy"}
        BY <1>1, <4>1, MadeObjects DEF AuthorityObjects
      <4> QED BY <4>2, MadeObjects
    <3>2. made'[RootManifest] = made[RootManifest] /\ made'[ActiveManifest] = made[ActiveManifest]
      BY <1>1, <1>2, <3>1, LayIs
    <3>3. made[ActiveManifest] # "published" /\ (creating = "root" => made[RootManifest] # "published")
      BY <1>1, <1>3, <1>4, <2>1
    <3>4. creating = "intermediate" => Whole("root")'
      BY <1>1, <1>7 DEF Beginning
    <3> QED BY <1>1, <3>2, <3>3, <3>4 DEF ManifestsLast, Authorities
  <2>2. CASE n > IsPublished
    <3>1. o \in ManifestObjects
      BY <1>1, <1>2, <1>3, <2>2
    <3>2. o[1] \in {"root manifest", "active manifest", "key copy"}
      BY <3>1, MadeObjects DEF ManifestObjects
    <3>3. /\ Whole(creating)' /\ (creating = "intermediate" => EntriesAre("after")')
          /\ creating = "intermediate" => Whole("root")'
      <4>1. /\ o \notin {Grant(creating), Authority(creating)} /\ o[1] # "entry"
        BY <1>1, <3>2, MadeObjects
      <4>2. Whole(creating)' /\ (creating = "intermediate" => EntriesAre("after")')
        BY <1>1, <1>2, <1>5, <2>2, <4>1, LayIs
      <4> QED BY <1>1, <1>7, <4>2 DEF Beginning
    <3>4. creating = "root" => made'[ActiveManifest] # "published"
      BY <1>1, <1>7 DEF Beginning
    <3> QED BY <1>1, <3>3, <3>4 DEF ManifestsLast, Authorities
  <2> QED BY <1>1, <1>3, <2>1, <2>2
<1>9. CopyKnown'
  <2>1. CASE creating = "root"
    BY <1>1, <1>7, <2>1 DEF Beginning, CopyKnown
  <2>2. CASE creating = "intermediate"
    <3>1. CASE o = Room("intermediate")
      BY <1>1, <1>2, <3>1, LayIs DEF CopyKnown
    <3>2. CASE o = KeyCopy
      <4>1. n = 6 \/ to = "absent"
        <5>1. KeyCopy # Grant(creating) /\ KeyCopy # Room(creating) /\ FinalMade(KeyCopy) = "absent"
          BY <1>1, MadeObjects, FinalStates
        <5> QED BY <1>2, <3>2, <5>1
      <4> QED BY <1>1, <1>2, <1>4, <2>2, <3>2, <4>1, LayIs DEF CopyKnown
    <3>3. CASE o # Room("intermediate") /\ o # KeyCopy
      <4>1. o[1] \notin {"room", "key copy"}
        BY <1>6, <2>2, <3>3, MadeObjects DEF Authorities
      <4> QED BY <1>1, <1>2, <4>1, LayIs DEF CreationInv, CopyKnown
    <3> QED BY <3>1, <3>2, <3>3
  <2> QED BY <1>1, <2>1, <2>2 DEF Authorities
<1>10. CreatorInv'
  <2>1. \A i \in 1 .. Len(CreationPlan) : i > IsStaged /\ i < n + 1 => Lasts(CreationPlan[i])'
    <3> SUFFICES ASSUME NEW i \in 1 .. Len(CreationPlan), i > IsStaged, i < n + 1,
                        CreationPlan[i].kind = "place"
                 PROVE  made'[CreationPlan[i].object] = CreationPlan[i].to
      BY <1>1, SameAuthority DEF Lasts
    <3>1. CASE i = n
      BY <1>1, <1>2, <3>1, LayIs DEF n, o, to
    <3>2. CASE i < n
      <4> DEFINE p == CreationPlan[i].object
      <4>1. /\ p \in Creations /\ CreationPlan[i].to = FinalMade(p)
            /\ p \in AuthorityObjects \cup ManifestObjects
        <5>1. i # 2 /\ i # 4 /\ ~(i = 6 /\ IsStaged = 6)
          BY <1>3
        <5> QED BY <1>1, <5>1, PlacedAt
      <4>2. made[p] = FinalMade(p)
        BY <1>4, <3>2, <4>1 DEF Lasts
      <4>3. n > IsStaged /\ to = FinalMade(o)
        BY <1>1, <1>2, <1>3, <3>2
      <4>4. p[1] # "room"
        BY <1>1, <4>1, MadeObjects DEF AuthorityObjects, ManifestObjects
      <4>5. p = KeyCopy => FinalMade(p) = "absent"
        BY <1>1, FinalStates
      <4>6. o[1] # "room"
        <5>1. o \in AuthorityObjects \cup ManifestObjects
          BY <1>2, <1>3, <4>3
        <5> QED BY <1>1, <5>1, MadeObjects DEF AuthorityObjects, ManifestObjects
      <4>7. CASE p = o
        BY <1>1, <1>2, <4>1, <4>3, <4>7, LayIs
      <4>8. CASE p # o /\ p[1] # "key copy"
        BY <1>1, <1>2, <4>1, <4>2, <4>4, <4>8, LayIs
      <4>9. CASE p # o /\ p[1] = "key copy"
        <5>1. p = KeyCopy
          <6>1. p \in {Authority(creating), Grant(creating), RootManifest, ActiveManifest, KeyCopy}
                  \/ \E k \in Keys : p = RootEntry(k)
            BY <4>1 DEF AuthorityObjects, ManifestObjects
          <6> QED BY <1>1, <4>9, <6>1, MadeObjects
        <5>2. o[1] # "key copy"
          <6>1. o \in {Authority(creating), Grant(creating), RootManifest, ActiveManifest, KeyCopy}
                  \/ \E k \in Keys : o = RootEntry(k)
            BY <1>2, <1>3, <4>3 DEF AuthorityObjects, ManifestObjects
          <6> QED BY <1>1, <4>9, <5>1, <6>1, MadeObjects
        <5> QED BY <1>1, <1>2, <4>1, <4>2, <4>6, <5>1, <5>2, LayIs
      <4> QED BY <4>7, <4>8, <4>9
    <3> QED BY <1>1, <3>1, <3>2
  <2>2. (made'[ActiveManifest] = "published" \/ (creating = "root" /\ made'[RootManifest] = "published"))
           => n + 1 > IsPublished
    <3> SUFFICES ASSUME n <= IsPublished
                 PROVE  /\ made'[ActiveManifest] # "published"
                        /\ creating = "root" => made'[RootManifest] # "published"
      BY <1>1, <1>3
    <3>1. o # RootManifest /\ o # ActiveManifest
      <4>1. o \in AuthorityObjects \cup {Grant(creating), Room(creating), KeyCopy}
        BY <1>1, <1>2, <1>3
      <4>2. o[1] \in {"authority", "grant", "entry", "room", "key copy"}
        BY <1>1, <4>1, MadeObjects DEF AuthorityObjects
      <4> QED BY <4>2, MadeObjects
    <3>2. made'[RootManifest] = made[RootManifest] /\ made'[ActiveManifest] = made[ActiveManifest]
      BY <1>1, <1>2, <3>1, LayIs
    <3> QED BY <1>1, <1>3, <1>4, <3>2
  <2>3. creating = "intermediate" /\ n + 1 \in {5, 6} => made'[Room("intermediate")] = "published"
    <3> SUFFICES ASSUME creating = "intermediate", n + 1 \in {5, 6}
                 PROVE  made'[Room("intermediate")] = "published"
      OBVIOUS
    <3>1. n = 4
      BY <1>1, <1>2
    <3>2. o = Room("intermediate") /\ to = "published"
      BY <1>2, <1>3, <3>1
    <3> QED BY <1>1, <1>2, <3>2, LayIs
  <2>4. n + 1 # 6
    BY <1>1, <1>2
  <2> QED BY <1>1, <1>4, <2>1, <2>2, <2>3, <2>4, SameAuthority DEF CreatorInv, n
<1> QED BY <1>4, <1>7, <1>8, <1>9, <1>10
        DEF CreationInv, CreationRests, WithdrawerInv, CompleterInv

(* Its last journal closes a creation that has made everything.                *)
LEMMA CreatorCloses ==
    ASSUME Typed, CreationInv, CreatorCommits PROVE CreationInv'
<1>1. /\ Creating /\ creating' = creating /\ made' = made /\ creating \in Authorities
      /\ process.at \in Nat /\ process.at = Len(CreationPlan) + 1 /\ Len(CreationPlan) \in Nat
      /\ process'.at = Len(CreationPlan) + 2 /\ process'.command = "create"
  BY Lengths
    DEF CreatorCommits, Creating, Typed, Control, JournalTyped, ProcessType, creation_vars
<1>2. \A i \in 1 .. Len(CreationPlan) : i > IsStaged => Lasts(CreationPlan[i])
  BY <1>1 DEF CreationInv, CreatorInv
<1>3. /\ IsPublished \in Nat /\ IsPublished <= Len(CreationPlan) /\ 5 <= IsPublished
  BY <1>1, CreationPlanIs
<1>4. /\ Whole(creating) /\ (creating = "intermediate" => EntriesAre("after"))
      /\ IF creating = "root" THEN made[RootManifest] = "published"
         ELSE Manifests("absent", "published") /\ made[KeyCopy] = "absent"
  BY <1>1, <1>2, <1>3, PlacedDone
<1>5. RootCreated \/ PairCreated
  <2>1. CASE creating = "root"
    <3>1. /\ Missing("intermediate") /\ made[ActiveManifest] = "absent" /\ EntriesAre("before")
          /\ made[KeyCopy] = "absent"
      BY <2>1 DEF CreationInv, Beginning
    <3> QED BY <1>4, <2>1, <3>1 DEF RootCreated, Manifests
  <2>2. CASE creating = "intermediate"
    BY <1>4, <2>2 DEF CreationInv, Beginning, PairCreated, PairFinal
  <2> QED BY <1>1, <2>1, <2>2 DEF Authorities
<1>6. Beginning' /\ ManifestsLast' /\ CreationRests'
  BY <1>1, <1>5, SameObjects DEF CreationInv, CreationRests
<1>7. CopyKnown'
  BY <1>1, <1>5 DEF CopyKnown, RootCreated, PairCreated
<1>8. ~Withdrawing' /\ ~Completing'
  BY <1>1 DEF Withdrawing, Completing
<1>9. CreatorInv'
  <2>1. ~(process'.at <= Len(CreationPlan) + 1) /\ process'.at > IsPublished /\ process'.at \notin {5, 6}
    BY <1>1, <1>3
  <2>2. \A i \in 1 .. Len(CreationPlan) : i > IsStaged => Lasts(CreationPlan[i])'
    BY <1>1, <1>2, SameAuthority DEF Lasts
  <2> QED BY <1>1, <2>1, <2>2, SameAuthority DEF CreatorInv
<1> QED BY <1>6, <1>7, <1>8, <1>9 DEF CreationInv, WithdrawerInv, CompleterInv

(* The removal of the hidden directory disturbs nothing.                       *)
LEMMA RoomGoes ==
    ASSUME CreationInv, creating \in Authorities, creating' = creating, Lay(Room(creating), "absent"),
           process' = Idle, journal' = journal
    PROVE  CreationInv'
<1>1. /\ Room(creating) \in Creations /\ Room(creating)[1] = "room"
      /\ \A a \in Authorities : Room(creating) \notin {Grant(a), Authority(a)}
      /\ Room(creating) # RootManifest /\ Room(creating) # ActiveManifest
  BY MadeObjects
<1>2. /\ made'[RootManifest] = made[RootManifest] /\ made'[ActiveManifest] = made[ActiveManifest]
      /\ \A s : EntriesAre(s)' <=> EntriesAre(s)
      /\ \A a \in Authorities : (Whole(a)' <=> Whole(a)) /\ (Missing(a)' <=> Missing(a))
  BY <1>1, LayIs
<1>3. made'[KeyCopy] = "absent"
  BY <1>1, LayIs DEF CreationInv, Beginning, Authorities
<1>4. \A r, s : Manifests(r, s)' <=> Manifests(r, s)
  BY <1>2 DEF Manifests
<1>5. (NothingCreated => NothingCreated') /\ (RootCreated => RootCreated') /\ (PairCreated => PairCreated')
  BY <1>2, <1>3, <1>4 DEF NothingCreated, RootCreated, PairCreated, PairFinal, Authorities
<1>6. Beginning' /\ ManifestsLast' /\ CopyKnown'
  BY <1>2, <1>3, <1>5 DEF CreationInv, Beginning, ManifestsLast, CopyKnown, Authorities
<1>7. CreationRests'
  BY <1>5 DEF CreationInv, CreationRests, InCreation
<1>8. ~Creating' /\ ~Withdrawing' /\ ~Completing'
  BY IdleTyped DEF Creating, Withdrawing, Completing
<1> QED BY <1>6, <1>7, <1>8 DEF CreationInv, CreatorInv, WithdrawerInv, CompleterInv

------------------------------------------------------------------------------
(* Its withdrawal.                                                            *)

(* What a withdrawal takes back, its manifest first.                           *)
LEMMA WithdrawnAt ==
    ASSUME creating \in Authorities, NEW i \in 1 .. Len(Withdrawal)
    PROVE  /\ Withdrawal[i].object \in WithdrawnObjects /\ Withdrawal[i].object \in Creations
           /\ Withdrawal[i] = WithdrawalOf(Withdrawal[i].object)
           /\ Withdrawal[i].object = Authority(creating) => Withdrawal[i].to = "absent"
           /\ Withdrawal[i].object = ActiveManifest => Withdrawal[i].to = "absent"
           /\ Withdrawal[i].object = RootManifest =>
                 Withdrawal[i].to = IF creating = "root" THEN "absent" ELSE "published"
           /\ Withdrawal[i].object = Room(creating) => Withdrawal[i].to = "absent"
           /\ Withdrawal[i].object[1] # "key copy"
           /\ Withdrawal[i].object[1] = "room" => Withdrawal[i].object = Room(creating)
           /\ creating = "root" => i > 1 \/ Withdrawal[i].object = RootManifest
           /\ creating = "intermediate" => i > 1 \/ Withdrawal[i].object = ActiveManifest
           /\ creating = "root" =>
                 Withdrawal[i].object \in {RootManifest, Authority("root"), Room("root"), Grant("root")}
           /\ creating = "intermediate" =>
                 \/ Withdrawal[i].object \in {RootManifest, ActiveManifest}
                 \/ Withdrawal[i].object \in {Authority("intermediate"), Room("intermediate"),
                                              Grant("intermediate")}
                 \/ \E k \in Keys : Withdrawal[i].object = RootEntry(k)
<1>1. PICK o \in WithdrawnObjects : Withdrawal[i] = WithdrawalOf(o)
  BY WithdrawalKinds
<1>2. Withdrawal[i].object \in Creations /\ Withdrawal[i] = WithdrawalOf(Withdrawal[i].object)
  BY WithdrawalKinds
<1>3. WithdrawalOf(o).object = o
  BY DEF WithdrawalOf, Withdraw
<1>4. Withdrawal[i].object = o
  BY <1>1, <1>3
<1>5. \A p, from, to : Withdraw(p, from, to).to = to
  BY DEF Withdraw
<1>6. \/ o \in {RootManifest, Authority(creating), Room(creating), Grant(creating)}
      \/ creating = "intermediate" /\ (o = ActiveManifest \/ \E k \in Keys : o = RootEntry(k))
  BY DEF WithdrawnObjects
<1>7. o[1] # "key copy" /\ (o[1] = "room" => o = Room(creating))
  BY <1>6, MadeObjects
<1>8. i > 1 \/ o = IF creating = "root" THEN RootManifest ELSE ActiveManifest
  BY <1>4, WithdrawalIs
<1>9. /\ o = Authority(creating) => WithdrawalOf(o).to = "absent"
      /\ o = Room(creating) => WithdrawalOf(o).to = "absent"
      /\ o = ActiveManifest => WithdrawalOf(o).to = "absent"
      /\ o = RootManifest =>
            WithdrawalOf(o).to = IF creating = "root" THEN "absent" ELSE "published"
  BY <1>5, WithdrawalsAre DEF Authorities
<1>10. /\ creating = "root" =>
              o \in {RootManifest, Authority("root"), Room("root"), Grant("root")}
       /\ creating = "intermediate" =>
              \/ o \in {RootManifest, ActiveManifest}
              \/ o \in {Authority("intermediate"), Room("intermediate"), Grant("intermediate")}
              \/ \E k \in Keys : o = RootEntry(k)
  BY <1>6
<1> QED BY <1>1, <1>2, <1>4, <1>7, <1>8, <1>9, <1>10

(* All of it taken back leaves nothing, or the root the intermediate was for.   *)
LEMMA WithdrawnDone ==
    ASSUME creating \in Authorities, CreationInv,
           \A i \in 1 .. Len(Withdrawal) : Gone(Withdrawal[i])
    PROVE  NothingCreated \/ RootCreated
<1>1. ASSUME NEW o \in WithdrawnObjects PROVE Gone(WithdrawalOf(o))
  <2>1. WithdrawalOf(o) \in Withdrawals(WithdrawnObjects)
    BY DEF Withdrawals
  <2>2. \E i \in 1 .. Len(Withdrawal) : Withdrawal[i] = WithdrawalOf(o)
    BY <2>1, WithdrawalIs DEF Consists
  <2> QED BY <2>2
<1>2. \A o : WithdrawalOf(o).object = o
  BY DEF WithdrawalOf, Withdraw
<1>3. \A p, from, to : Withdraw(p, from, to).to = to
  BY DEF Withdraw
<1>4. ASSUME NEW o \in WithdrawnObjects, o # Room(creating) PROVE made[o] = WithdrawalOf(o).to
  BY <1>1, <1>2, <1>4 DEF Gone
<1>5. /\ made[Authority(creating)] = "absent" /\ made[Grant(creating)] = "abandoned"
      /\ made[RootManifest] = IF creating = "root" THEN "absent" ELSE "published"
      /\ made[KeyCopy] = "absent"
  <2>1. {Authority(creating), Grant(creating), RootManifest, Room(creating)} \subseteq WithdrawnObjects
    BY DEF WithdrawnObjects
  <2>2. Authority(creating) # Room(creating) /\ Grant(creating) # Room(creating) /\ RootManifest # Room(creating)
    BY MadeObjects
  <2>3. made[KeyCopy] = "absent"
    BY <1>1, <1>2, <2>1 DEF Gone
  <2> QED BY <1>3, <1>4, <2>1, <2>2, <2>3, WithdrawalsAre DEF Authorities
<1>6. CASE creating = "root"
  BY <1>5, <1>6 DEF CreationInv, Beginning, NothingCreated, Missing, Manifests
<1>7. CASE creating = "intermediate"
  <2>1. made[ActiveManifest] = "absent"
    <3>1. ActiveManifest \in WithdrawnObjects /\ ActiveManifest # Room(creating)
      BY <1>7, MadeObjects DEF WithdrawnObjects
    <3> QED BY <1>3, <1>4, <3>1, WithdrawalsAre
  <2>2. EntriesAre("before")
    <3> SUFFICES ASSUME NEW k \in Keys \ Kept PROVE made[RootEntry(k)] = "before"
      BY DEF EntriesAre
    <3>1. RootEntry(k) \in WithdrawnObjects /\ RootEntry(k) # Room(creating)
      BY <1>7, MadeObjects DEF WithdrawnObjects
    <3>2. WithdrawalOf(RootEntry(k)) = Withdraw(RootEntry(k), {"after"}, "before")
      BY WithdrawalsAre
    <3> QED BY <1>3, <1>4, <3>1, <3>2
  <2> QED BY <1>5, <1>7, <2>1, <2>2 DEF CreationInv, Beginning, RootCreated, Missing, Manifests
<1> QED BY <1>6, <1>7 DEF Authorities

(* A withdrawal at work.                                                      *)
LEMMA Withdraws ==
    ASSUME Typed, Withdrawing
    PROVE  /\ creating \in Authorities /\ process.operation = Operation(creating)
           /\ process.at \in Nat /\ process.at >= 1 /\ Len(Withdrawal) \in Nat
           /\ process \in ProcessType /\ journal \in JournalType
           /\ process.command \in {"abort", "rollback"}
           /\ ~Aborting => journal.operation = Operation(creating)
<1>1. creating \in Authorities /\ process.operation = Operation(creating) /\ process.at >= 1
  BY DEF Typed, Control, Withdrawing
<1>2. ~Aborting => journal.operation = Operation(creating)
  BY <1>1 DEF Typed, Control, Bounded, Withdrawing, Aborting, Actions
<1> QED BY <1>1, <1>2, Lengths DEF Typed, JournalTyped, ProcessType, Withdrawing

(* A step of it that changes no object.                                       *)
LEMMA WithdrawalStays ==
    ASSUME Typed, CreationInv, Withdrawing, made' = made, creating' = creating,
           process'.command = process.command, process'.operation = process.operation,
           \/ process'.at = process.at /\ process'.mark = "pending" /\ process.at <= Len(Withdrawal)
           \/ process'.at = process.at + 1 /\ process'.mark = "none"
              /\ (process.at <= Len(Withdrawal) => Gone(Withdrawn)),
           \/ journal' = journal /\ process'.mark = "none"
           \/ InCreation' /\ (Room("intermediate") \in journal.evidence.known
                                 /\ creating = "intermediate" /\ made[Room("intermediate")] = "published"
                              => Room("intermediate") \in journal'.evidence.known),
           process'.at <= Len(Withdrawal) + 1
    PROVE  CreationInv'
<1>0. /\ creating \in Authorities /\ process.at \in Nat /\ process.at >= 1 /\ Len(Withdrawal) \in Nat
      /\ process.command \in {"abort", "rollback"}
  BY Withdraws
<1>1. Beginning' /\ ManifestsLast'
  BY SameObjects DEF CreationInv
<1>2. CopyKnown'
  BY <1>0 DEF CreationInv, CopyKnown, Beginning, Authorities
<1>3. CreationRests'
  BY SameObjects DEF CreationInv, CreationRests, InCreation
<1>4. ~Creating' /\ ~Completing' /\ (Aborting' <=> Aborting)
  BY <1>0 DEF Creating, Completing, Aborting
<1>5. WithdrawerInv'
  <2>1. \A e : Gone(e)' <=> Gone(e)
    BY DEF Gone
  <2>2. \A i \in 1 .. Len(Withdrawal) : i < process'.at => Gone(Withdrawal[i])
    <3> SUFFICES ASSUME NEW i \in 1 .. Len(Withdrawal), i < process'.at PROVE Gone(Withdrawal[i])
      OBVIOUS
    <3>1. CASE i < process.at
      BY <3>1 DEF CreationInv, WithdrawerInv
    <3>2. CASE i = process.at
      BY <1>0, <3>2 DEF Withdrawn
    <3> QED BY <1>0, <3>1, <3>2
  <2>3. Withdrawal' = Withdrawal
    BY SameAuthority
  <2>4. ~Aborting => ~journal'.committed
    <3>1. process.at <= Len(Withdrawal) + 1
      BY <1>0
    <3> QED BY <3>1 DEF CreationInv, WithdrawerInv, InCreation
  <2>5. process'.mark # "none" => process'.at <= Len(Withdrawal) /\ InCreation'
    OBVIOUS
  <2> QED BY <1>4, <2>1, <2>2, <2>3, <2>4, <2>5 DEF WithdrawerInv
<1> QED BY <1>1, <1>2, <1>3, <1>4, <1>5 DEF CreationInv, CreatorInv, CompleterInv

(* A withdrawal writes the journal that announces its change, or records it.   *)
LEMMA WithdrawalWrites ==
    ASSUME Typed, CreationInv, WithdrawalAnnounces \/ WithdrawalRecords PROVE CreationInv'
<1>0. /\ Withdrawing /\ made' = made /\ creating' = creating
      /\ process.at <= Len(Withdrawal)
  BY DEF WithdrawalAnnounces, WithdrawalRecords, WithdrawsOn
<1>1. /\ creating \in Authorities /\ process.at \in Nat /\ process.at >= 1 /\ Len(Withdrawal) \in Nat
      /\ process \in ProcessType /\ (~Aborting => journal.operation = Operation(creating))
      /\ JournalTyped /\ CreationTyped
  BY <1>0, Withdraws DEF Typed
<1>2. process.at <= Len(Withdrawal) + 1
  BY <1>0, <1>1
<1>3. PICK step : Rewrite("recovering", "rollback", step) /\ step \in StepType
  <2>1. Withdrawn.object \in Creations
    <3>1. process.at \in 1 .. Len(Withdrawal)
      BY <1>0, <1>1
    <3> QED BY <1>1, <3>1, WithdrawnAt DEF Withdrawn
  <2>2. \A mark \in {"pending", "done"} : Step("rollback", Withdrawn.object, mark) \in StepType
    BY <2>1, StepTyped DEF Commands, Actions
  <2> QED BY <2>2 DEF WithdrawalAnnounces, WithdrawalRecords
<1>4. /\ journal'.operation = Operation(creating)
      /\ ~Aborting => journal'.committed = journal.committed /\ journal'.evidence = journal.evidence
      /\ Aborting => journal'.committed = FALSE /\ journal'.evidence.known = Witnessed(Mutated)
  BY <1>1, <1>3, RewriteTyped DEF Actions, Phases
<1>5. InCreation'
  BY <1>0, <1>2, <1>4 DEF CreationInv, WithdrawerInv, InCreation, Operation, Bootstraps
<1>6. Room("intermediate") \in journal.evidence.known
        /\ creating = "intermediate" /\ made[Room("intermediate")] = "published"
      => Room("intermediate") \in journal'.evidence.known
  BY <1>4 DEF Witnessed, Own
<1>7. CASE WithdrawalAnnounces
  <2>1. /\ process'.command = process.command /\ process'.operation = process.operation
        /\ process'.at = process.at /\ process'.mark = "pending"
    BY <1>1, <1>7 DEF WithdrawalAnnounces, ProcessType
  <2> QED BY <1>0, <1>2, <1>5, <1>6, <2>1, WithdrawalStays
<1>8. CASE WithdrawalRecords
  <2>1. /\ process'.command = process.command /\ process'.operation = process.operation
        /\ process'.at = process.at + 1 /\ process'.mark = "none" /\ process.mark = "made"
    BY <1>1, <1>8 DEF WithdrawalRecords, ProcessType
  <2>2. Gone(Withdrawn) /\ process'.at <= Len(Withdrawal) + 1
    BY <1>0, <1>1, <2>1 DEF CreationInv, WithdrawerInv
  <2> QED BY <1>0, <1>5, <1>6, <2>1, <2>2, WithdrawalStays
<1> QED BY <1>7, <1>8

(* What it passes over is gone.                                               *)
LEMMA WithdrawalSkips ==
    ASSUME Typed, CreationInv, WithdrawalPasses PROVE CreationInv'
<1>0. /\ Withdrawing /\ made' = made /\ creating' = creating /\ journal' = journal
      /\ process.at <= Len(Withdrawal) /\ process.mark = "none" /\ ~WithdrawalDue
  BY DEF WithdrawalPasses, WithdrawsOn
<1>1. /\ creating \in Authorities /\ process.at \in Nat /\ process.at >= 1 /\ Len(Withdrawal) \in Nat
      /\ process \in ProcessType /\ CreationTyped
  BY <1>0, Withdraws DEF Typed
<1>2. /\ process'.command = process.command /\ process'.operation = process.operation
      /\ process'.at = process.at + 1 /\ process'.mark = "none" /\ process'.at <= Len(Withdrawal) + 1
  BY <1>0, <1>1 DEF WithdrawalPasses, ProcessType
<1> DEFINE o == Withdrawn.object
<1>3. o \in Creations /\ Withdrawn = WithdrawalOf(o) /\ o \in WithdrawnObjects
      /\ (o[1] = "room" => o = Room(creating)) /\ o[1] # "key copy"
  <2>1. process.at \in 1 .. Len(Withdrawal)
    BY <1>0, <1>1
  <2> QED BY <1>1, <2>1, WithdrawnAt DEF Withdrawn
<1>4. CASE o = Room(creating)
  <2>1. made[KeyCopy] \in {"absent", "published"}
    <3>1. MadeStates(KeyCopy) = {"absent", "published"} /\ KeyCopy \in Creations
      BY MadeObjects DEF MadeStates
    <3> QED BY <1>1, <3>1 DEF CreationTyped
  <2>2. made[KeyCopy] = "absent"
    <3>1. CASE creating = "root"
      BY <3>1 DEF CreationInv, Beginning
    <3>2. CASE creating = "intermediate"
      <4> SUFFICES ASSUME made[KeyCopy] = "published" PROVE FALSE
        BY <2>1
      <4>1. made[Room("intermediate")] = "published" /\ Named(Room("intermediate"))
        BY DEF CreationInv, CopyKnown, Named
      <4>2. Withdrawn.from = {"published"}
        <5>1. Withdrawn = Withdraw(Room(creating), {"published"}, "absent")
          BY <1>1, <1>3, <1>4, WithdrawalsAre
        <5> QED BY <5>1 DEF Withdraw
      <4> QED BY <1>0, <1>4, <3>2, <4>1, <4>2 DEF WithdrawalDue
    <3> QED BY <1>1, <3>1, <3>2 DEF Authorities
  <2> QED BY <1>0, <1>2, <1>4, <2>2, WithdrawalStays DEF Gone
<1>5. CASE o # Room(creating)
  <2>1. made[o] \notin Withdrawn.from
    BY <1>0, <1>5 DEF WithdrawalDue
  <2>2. made[o] \in MadeStates(o)
    BY <1>1, <1>3 DEF CreationTyped
  <2>3. made[o] = Withdrawn.to
    <3>1. \A p, from, to : Withdraw(p, from, to).from = from /\ Withdraw(p, from, to).to = to
      BY DEF Withdraw
    <3> HIDE DEF o
    <3>2. CASE o = Grant(creating)
      <4>1. Withdrawn = Withdraw(o, {"absent", "reserved", "consumed"}, "abandoned")
        BY <1>1, <1>3, <3>2, WithdrawalsAre
      <4>2. MadeStates(o) = {"absent", "reserved", "consumed", "abandoned"}
        BY <1>1, <3>2, MadeObjects DEF MadeStates
      <4> QED BY <2>1, <2>2, <3>1, <4>1, <4>2
    <3>3. CASE \E k \in Keys : o = RootEntry(k)
      <4>1. Withdrawn = Withdraw(o, {"after"}, "before")
        BY <1>1, <1>3, <3>3, WithdrawalsAre
      <4>2. MadeStates(o) = {"before", "after"}
        BY <3>3, MadeObjects DEF MadeStates
      <4> QED BY <2>1, <2>2, <3>1, <4>1, <4>2
    <3>4. CASE o \in {Authority(creating), ActiveManifest}
               \/ (creating = "root" /\ o = RootManifest)
      <4>1. Withdrawn = Withdraw(o, {"published"}, "absent")
        BY <1>1, <1>3, <3>4, WithdrawalsAre
      <4>2. MadeStates(o) = {"absent", "published"}
        BY <1>1, <3>4, MadeObjects DEF MadeStates
      <4> QED BY <2>1, <2>2, <3>1, <4>1, <4>2
    <3>5. CASE creating = "intermediate" /\ o = RootManifest
      <4>1. Withdrawn = Withdraw(o, {"absent"}, "published")
        BY <1>1, <1>3, <3>5, WithdrawalsAre
      <4>2. MadeStates(o) = {"absent", "published"}
        BY <3>5, MadeObjects DEF MadeStates
      <4> QED BY <2>1, <2>2, <3>1, <4>1, <4>2
    <3>6. o # Room(creating)
      BY <1>5 DEF o
    <3> QED BY <1>1, <1>3, <3>2, <3>3, <3>4, <3>5, <3>6 DEF WithdrawnObjects, Authorities
  <2> QED BY <1>0, <1>2, <1>5, <2>3, WithdrawalStays DEF Gone
<1> QED BY <1>4, <1>5

(* It takes an object back: the manifest first.                               *)
LEMMA WithdrawalTakes ==
    ASSUME Typed, CreationInv, WithdrawalChanges PROVE CreationInv'
<1> DEFINE o == Withdrawn.object
           n == process.at
<1>0. /\ Withdrawing /\ creating' = creating /\ journal' = journal
      /\ n <= Len(Withdrawal) /\ process.mark = "pending" /\ Lay(o, Withdrawn.to)
  BY DEF WithdrawalChanges, WithdrawsOn
<1>1. /\ creating \in Authorities /\ n \in Nat /\ n >= 1 /\ Len(Withdrawal) \in Nat
      /\ process \in ProcessType /\ process.command \in {"abort", "rollback"}
  BY <1>0, Withdraws
<1>2. /\ process'.command = process.command /\ process'.operation = process.operation
      /\ process'.at = n /\ process'.mark = "made"
  BY <1>1 DEF WithdrawalChanges, ProcessType
<1>3. /\ o \in Creations /\ Withdrawn = WithdrawalOf(o)
      /\ o[1] = "room" => o = Room(creating)
      /\ o[1] # "key copy"
      /\ o = RootManifest /\ creating = "root" => Withdrawn.to = "absent"
      /\ o = ActiveManifest => Withdrawn.to = "absent"
      /\ creating = "root" => n > 1 \/ o = RootManifest
      /\ creating = "intermediate" => n > 1 \/ o = ActiveManifest
      /\ creating = "root" => o \in {RootManifest, Authority("root"), Room("root"), Grant("root")}
      /\ creating = "intermediate" =>
            \/ o \in {RootManifest, ActiveManifest}
            \/ o \in {Authority("intermediate"), Room("intermediate"), Grant("intermediate")}
            \/ \E k \in Keys : o = RootEntry(k)
  <2>1. n \in 1 .. Len(Withdrawal)
    BY <1>0, <1>1
  <2>2. Withdrawn = Withdrawal[n] /\ o = Withdrawal[n].object
    BY DEF Withdrawn
  <2> HIDE DEF n, o
  <2> QED BY <1>1, <2>1, <2>2, WithdrawnAt
<1>4. /\ InCreation /\ InCreation' /\ (~Aborting => ~journal.committed)
      /\ \A i \in 1 .. Len(Withdrawal) : i < n => Gone(Withdrawal[i])
  BY <1>0, <1>1 DEF CreationInv, WithdrawerInv, InCreation
<1> HIDE DEF o, n
<1>5. /\ creating = "root" => made'[RootManifest] = "absent"
      /\ creating = "intermediate" => made'[ActiveManifest] = "absent"
  <2>1. n > 1 => Gone(Withdrawal[1])
    BY <1>0, <1>1, <1>4 DEF n
  <2>2. /\ creating = "root" => Withdrawal[1].object = RootManifest /\ Withdrawal[1].to = "absent"
        /\ creating = "intermediate" => Withdrawal[1].object = ActiveManifest /\ Withdrawal[1].to = "absent"
    <3>1. 1 \in 1 .. Len(Withdrawal)
      BY <1>0, <1>1 DEF n
    <3> DEFINE first == Withdrawal[1]
    <3>2. /\ creating = "root" => 1 > 1 \/ first.object = RootManifest
          /\ creating = "intermediate" => 1 > 1 \/ first.object = ActiveManifest
          /\ first.object = ActiveManifest => first.to = "absent"
          /\ first.object = RootManifest => first.to = IF creating = "root" THEN "absent" ELSE "published"
      BY <1>1, <3>1, WithdrawnAt
    <3> HIDE DEF first
    <3>3. /\ creating = "root" => first.object = RootManifest /\ first.to = "absent"
          /\ creating = "intermediate" => first.object = ActiveManifest /\ first.to = "absent"
      BY <3>2
    <3> QED BY <3>3 DEF first
  <2>3. RootManifest # Room(creating) /\ ActiveManifest # Room(creating)
    BY <1>1, MadeObjects
  <2>4. n > 1 => /\ creating = "root" => made[RootManifest] = "absent"
                 /\ creating = "intermediate" => made[ActiveManifest] = "absent"
    BY <2>1, <2>2, <2>3 DEF Gone
  <2> QED BY <1>0, <1>3, <2>4, LayIs DEF o
<1>6. Beginning'
  <2>1. CASE creating = "root"
    <3>1. o[1] # "entry" /\ o \notin {Grant("intermediate"), Authority("intermediate")}
          /\ o[1] \notin {"key copy", "active manifest"} /\ o # Room("intermediate")
          /\ (o[1] = "room" => o = Room("root"))
      BY <1>3, <2>1, MadeObjects DEF Authorities
    <3>2. o # ActiveManifest /\ made'[KeyCopy] = made[KeyCopy]
          /\ (Missing("intermediate")' <=> Missing("intermediate"))
          /\ (EntriesAre("before")' <=> EntriesAre("before"))
      BY <1>0, <1>3, <3>1, LayIs, MadeObjects DEF Authorities, o
    <3> QED BY <1>0, <1>3, <2>1, <3>2, LayIs DEF CreationInv, Beginning, o
  <2>2. CASE creating = "intermediate"
    <3>1. o \notin {Grant("root"), Authority("root")}
      BY <1>3, <2>2, MadeObjects DEF Authorities
    <3> QED BY <1>0, <1>3, <2>2, <3>1, LayIs DEF CreationInv, Beginning, Authorities, o
  <2> QED BY <1>1, <2>1, <2>2 DEF Authorities
<1>7. ManifestsLast'
  BY <1>0, <1>1, <1>5, <1>6 DEF Beginning, ManifestsLast, Authorities
<1>8. ASSUME made[KeyCopy] = "absent" PROVE made'[KeyCopy] = "absent"
  BY <1>0, <1>1, <1>3, <1>8, LayIs DEF o, Authorities
<1>9. CopyKnown' /\ (o = Room(creating) => made'[KeyCopy] = "absent")
  <2>1. CASE creating = "root"
    BY <1>0, <1>6, <2>1 DEF Beginning, CopyKnown
  <2>2. CASE creating = "intermediate"
    <3>1. CASE o = Room("intermediate")
      BY <1>0, <1>3, <3>1, LayIs DEF CopyKnown, o
    <3>2. CASE o # Room("intermediate")
      BY <1>0, <1>3, <2>2, <3>2, LayIs DEF CreationInv, CopyKnown, o
    <3> QED BY <2>2, <3>1, <3>2
  <2> QED BY <1>1, <2>1, <2>2 DEF Authorities
<1>10. WithdrawerInv'
  <2>1. Withdrawal' = Withdrawal /\ Withdrawn' = Withdrawn
    BY <1>0, <1>2, SameAuthority DEF Withdrawn, n
  <2>2. \A e : Gone(e)' <=> IF e.object = Room(creating) THEN made'[KeyCopy] = "absent"
                            ELSE made'[e.object] = e.to
    BY <1>0 DEF Gone
  <2>3. Gone(Withdrawn)'
    <3>1. o # Room(creating) => made'[o] = Withdrawn.to
      BY <1>0, <1>3, LayIs DEF o
    <3>2. IF o = Room(creating) THEN made'[KeyCopy] = "absent" ELSE made'[o] = Withdrawn.to
      BY <1>9, <3>1
    <3> QED BY <1>0, <2>1, <3>2 DEF Gone, o
  <2>4. ASSUME NEW i \in 1 .. Len(Withdrawal), i < n PROVE Gone(Withdrawal[i])'
    <3> DEFINE p == Withdrawal[i].object
    <3>1. /\ p \in Creations /\ Withdrawal[i] = WithdrawalOf(p)
          /\ (p[1] = "room" => p = Room(creating)) /\ p[1] # "key copy"
      BY <1>1, WithdrawnAt
    <3>2. Gone(Withdrawal[i])
      BY <1>4, <2>4
    <3>3. IF p = Room(creating) THEN made'[KeyCopy] = "absent" ELSE made'[p] = Withdrawal[i].to
      <4>1. CASE p = Room(creating)
        BY <1>8, <3>2, <4>1 DEF Gone
      <4>2. CASE p # Room(creating) /\ p = o
        <5>1. Withdrawal[i] = Withdrawn
          BY <1>3, <3>1, <4>2
        <5> QED BY <1>0, <1>3, <4>2, <5>1, LayIs DEF o
      <4>3. CASE p # Room(creating) /\ p # o
        BY <1>0, <1>3, <3>1, <3>2, <4>3, LayIs DEF o, Gone
      <4> QED BY <4>1, <4>2, <4>3
    <3> QED BY <1>0, <2>1, <3>3, SameAuthority DEF Gone
  <2> QED BY <1>0, <1>1, <1>2, <1>4, <2>1, <2>3, <2>4 DEF WithdrawerInv, Aborting, n
<1>11. ~Creating' /\ ~Completing'
  BY <1>1, <1>2 DEF Creating, Completing
<1> QED BY <1>4, <1>6, <1>7, <1>9, <1>10, <1>11
        DEF CreationInv, CreationRests, CreatorInv, CompleterInv

(* Its last journal closes a creation of which nothing is left.                *)
LEMMA WithdrawalCloses ==
    ASSUME Typed, CreationInv, WithdrawalCommits PROVE CreationInv'
<1>0. /\ Withdrawing /\ made' = made /\ creating' = creating /\ process.at = Len(Withdrawal) + 1
  BY DEF WithdrawalCommits, creation_vars
<1>1. /\ creating \in Authorities /\ process.at \in Nat /\ Len(Withdrawal) \in Nat
      /\ process \in ProcessType /\ process.command \in {"abort", "rollback"}
  BY <1>0, Withdraws
<1>2. /\ process'.command = process.command /\ process'.at = Len(Withdrawal) + 2
      /\ process'.mark = process.mark
  BY <1>0, <1>1 DEF WithdrawalCommits, ProcessType
<1>3. \A i \in 1 .. Len(Withdrawal) : Gone(Withdrawal[i])
  BY <1>0, <1>1 DEF CreationInv, WithdrawerInv
<1>4. NothingCreated \/ RootCreated
  BY <1>1, <1>3, WithdrawnDone
<1>5. Beginning' /\ ManifestsLast' /\ CreationRests'
  BY <1>0, <1>4, SameObjects DEF CreationInv, CreationRests
<1>6. CopyKnown'
  BY <1>0, <1>4 DEF CopyKnown, NothingCreated, RootCreated
<1>7. WithdrawerInv'
  <2>1. process.mark = "none" /\ ~(process'.at <= Len(Withdrawal) + 1)
    BY <1>0, <1>1, <1>2 DEF CreationInv, WithdrawerInv
  <2>2. \A i \in 1 .. Len(Withdrawal) : Gone(Withdrawal[i])'
    BY <1>0, <1>3, SameAuthority DEF Gone
  <2> QED BY <1>0, <1>2, <2>1, <2>2, SameAuthority DEF WithdrawerInv
<1>8. ~Creating' /\ ~Completing'
  BY <1>1, <1>2 DEF Creating, Completing
<1> QED BY <1>5, <1>6, <1>7, <1>8 DEF CreationInv, CreatorInv, CompleterInv

------------------------------------------------------------------------------
(* The recovery of a creation begins, and completes its cleanup.               *)

(* A failed creation is taken back from the beginning.                         *)
LEMMA CreationAborts ==
    ASSUME Typed, CreationInv, CreationFails PROVE CreationInv'
<1>1. /\ made' = made /\ creating' = creating /\ journal' = journal /\ creating \in Authorities
      /\ process'.command = "abort" /\ process'.at = 1 /\ process'.mark = "none"
  BY BegunIs DEF CreationFails, creation_vars, Typed, Control, Creating
<1>2. Beginning' /\ ManifestsLast' /\ CopyKnown' /\ CreationRests'
  BY <1>1, SameObjects DEF CreationInv, CopyKnown, CreationRests, InCreation
<1>3. ~Creating' /\ ~Completing' /\ Aborting'
  BY <1>1 DEF Creating, Completing, Aborting
<1>4. WithdrawerInv'
  <2>1. \A i \in 1 .. Len(Withdrawal') : ~(i < 1)
    BY <1>1, Lengths, SameAuthority
  <2> QED BY <1>1, <1>3, <2>1 DEF WithdrawerInv
<1> QED BY <1>2, <1>3, <1>4 DEF CreationInv, CreatorInv, CompleterInv

(* A recovery is let begin over what no later command can have seen.           *)
LEMMA BootstrapRecoveryBegun ==
    ASSUME Typed, CreationInv, NEW action \in Actions, BeginBootstrapRecovery(action)
    PROVE  CreationInv'
<1>0. JournalTyped /\ Control
  BY DEF Typed
<1>1. /\ made' = made /\ creating' = creating /\ journal' = journal /\ InCreation
      /\ process'.command = action /\ process'.at = 1 /\ process'.mark = "none"
      /\ process'.operation \in Bootstraps /\ ~journal.committed /\ BootstrapAccepted(action)
      /\ creating \in Authorities
  BY <1>0, BegunIs DEF BeginBootstrapRecovery, creation_vars, InCreation, Control
<1>2. Beginning' /\ ManifestsLast' /\ CopyKnown' /\ CreationRests'
  BY <1>1, SameObjects DEF CreationInv, CopyKnown, CreationRests, InCreation
<1>3. ~Creating'
  BY <1>1 DEF Creating, Actions
<1>4. WithdrawerInv'
  <2>1. \A i \in 1 .. Len(Withdrawal') : ~(i < 1)
    BY <1>1, Lengths, SameAuthority
  <2> QED BY <1>1, <2>1 DEF WithdrawerInv
<1>5. CompleterInv'
  <2> SUFFICES ASSUME action = "resume" PROVE CompleterInv'
    BY <1>1 DEF CompleterInv, Completing
  <2>1. CompletionAccepted
    BY <1>1 DEF BootstrapAccepted
  <2>2. /\ creating = "intermediate" /\ Manifests("absent", "published") /\ EntriesAre("after")
        /\ Whole("intermediate")
    BY <2>1 DEF CompletionAccepted, Manifests, EntriesAre, Whole
  <2>3. PairFinal
    BY <2>2 DEF CreationInv, Beginning, PairFinal
  <2> QED BY <1>1, <2>2, <2>3, SameObjects DEF CompleterInv
<1> QED BY <1>2, <1>3, <1>4, <1>5 DEF CreationInv, CreatorInv

(* A completion at work.                                                      *)
LEMMA Completes ==
    ASSUME Typed, CreationInv, Completing
    PROVE  /\ creating = "intermediate" /\ PairFinal
           /\ process \in ProcessType /\ journal \in JournalType
           /\ process.command = "resume" /\ ~Aborting /\ journal.operation \in Bootstraps
BY DEF Typed, JournalTyped, Control, Bounded, CreationInv, CompleterInv, Completing, Aborting,
  Actions

(* A step of it that removes the copy, or changes no object.                   *)
LEMMA CompletionStays ==
    ASSUME Typed, CreationInv, Completing, made' = made \/ Lay(KeyCopy, "absent"),
           creating' = creating, process'.command = process.command,
           process'.operation = process.operation,
           journal'.operation = journal.operation,
           journal'.evidence.known = journal.evidence.known,
           process'.mark \in {"none", "pending", "made", "done"} =>
               ~journal.committed /\ journal'.committed = journal.committed,
           process'.mark \notin {"none", "pending"} => made'[KeyCopy] = "absent"
    PROVE  CreationInv'
<1>1. /\ creating = "intermediate" /\ PairFinal /\ process.command = "resume"
      /\ journal.operation \in Bootstraps
  BY Completes
<1>2. /\ made'[RootManifest] = made[RootManifest] /\ made'[ActiveManifest] = made[ActiveManifest]
      /\ \A s : EntriesAre(s)' <=> EntriesAre(s)
      /\ \A a \in Authorities : Whole(a)' <=> Whole(a)
      /\ made'[KeyCopy] = made[KeyCopy] \/ made'[KeyCopy] = "absent"
      /\ made'[Room("intermediate")] = made[Room("intermediate")]
  <2>1. /\ KeyCopy \in Creations /\ KeyCopy[1] # "entry"
        /\ KeyCopy # RootManifest /\ KeyCopy # ActiveManifest
        /\ \A a \in Authorities : KeyCopy \notin {Grant(a), Authority(a)}
    BY MadeObjects
  <2>2. CASE made' = made
    BY <2>2, SameObjects
  <2>3. CASE Lay(KeyCopy, "absent")
    BY <2>1, <2>3, LayIs
  <2> QED BY <2>2, <2>3
<1>3. PairFinal'
  BY <1>1, <1>2 DEF PairFinal, Manifests, Authorities
<1>4. Beginning' /\ ManifestsLast'
  BY <1>1, <1>3 DEF Beginning, ManifestsLast, PairFinal
<1>5. CopyKnown'
  BY <1>2 DEF CreationInv, CopyKnown
<1>6. ~Creating' /\ ~Withdrawing'
  BY <1>1 DEF Creating, Withdrawing
<1>7. CompleterInv'
  BY <1>1, <1>3 DEF CompleterInv
<1>8. CreationRests'
  <2>1. CASE process'.mark \in {"none", "pending", "made", "done"}
    BY <1>1, <2>1 DEF CreationRests, InCreation
  <2>2. CASE process'.mark \notin {"none", "pending", "made", "done"}
    BY <1>3, <2>2 DEF CreationRests, PairCreated
  <2> QED BY <2>1, <2>2
<1> QED BY <1>4, <1>5, <1>6, <1>7, <1>8 DEF CreationInv, CreatorInv, WithdrawerInv

(* The completion of a cleanup keeps the invariant.                           *)
LEMMA CompletionKeeps ==
    ASSUME Typed, CreationInv,
           \/ CompletionAnnounces \/ CompletionChanges \/ CompletionRecords
           \/ CompletionCommits \/ CompletionUnmarks \/ CompletionReturns
    PROVE  CreationInv'
<1>0. Completing /\ creating' = creating
  BY DEF CompletionAnnounces, CompletionChanges, CompletionRecords, CompletionCommits,
         CompletionUnmarks, CompletionReturns, CompletesAt
<1>1. /\ creating = "intermediate" /\ process \in ProcessType /\ journal \in JournalType
      /\ ~Aborting
  BY <1>0, Completes
<1>2. ASSUME NEW mark, Completed(mark)
      PROVE  /\ process'.command = process.command /\ process'.operation = process.operation
             /\ process'.mark = mark
  BY <1>1, <1>2 DEF Completed, ProcessType
<1>3. ASSUME NEW phase, NEW action, NEW step, Rewrite(phase, action, step)
      PROVE  /\ journal'.operation = journal.operation
             /\ journal'.evidence.known = journal.evidence.known
             /\ journal'.committed = journal.committed
  BY <1>1, <1>3 DEF Rewrite, JournalType
<1>4. process.mark \in {"none", "pending", "made", "done"} => ~journal.committed
  BY <1>0 DEF CreationInv, CompleterInv
<1>5. process.mark \notin {"none", "pending"} => made[KeyCopy] = "absent"
  BY <1>0 DEF CreationInv, CompleterInv
<1>6. CASE CompletionAnnounces
  <2>1. Completed("pending") /\ made' = made /\ process.mark = "none"
        /\ Rewrite("recovering", "rollback", Step("resume", KeyCopy, "pending"))
    BY <1>6 DEF CompletionAnnounces, CompletesAt
  <2> QED BY <1>0, <1>2, <1>3, <1>4, <2>1, CompletionStays
<1>7. CASE CompletionChanges
  <2>1. Completed("made") /\ Lay(KeyCopy, "absent") /\ process.mark = "pending" /\ journal' = journal
    BY <1>7 DEF CompletionChanges, CompletesAt
  <2>2. made'[KeyCopy] = "absent"
    BY <2>1, LayIs, MadeObjects
  <2> QED BY <1>0, <1>2, <1>4, <2>1, <2>2, CompletionStays
<1>8. CASE CompletionRecords
  <2>1. /\ Completed("done") /\ made' = made /\ process.mark \in {"none", "made"}
        /\ process.mark = "none" => made[KeyCopy] = "absent"
        /\ Rewrite("recovering", "rollback", Step("resume", KeyCopy, "done"))
    BY <1>8 DEF CompletionRecords, CompletesAt
  <2>2. made'[KeyCopy] = "absent"
    BY <1>5, <2>1
  <2>3. process'.mark = "done" /\ process'.command = process.command
        /\ process'.operation = process.operation
    BY <1>2, <2>1
  <2>4. /\ journal'.operation = journal.operation
        /\ journal'.evidence.known = journal.evidence.known
        /\ journal'.committed = journal.committed /\ ~journal.committed
    BY <1>3, <1>4, <2>1
  <2> QED BY <1>0, <2>1, <2>2, <2>3, <2>4, CompletionStays
<1>9. CASE CompletionCommits
  <2>1. /\ Completed("committed") /\ made' = made /\ process.mark = "done"
        /\ journal' = [journal EXCEPT !.phase = "complete", !.committed = TRUE]
    BY <1>9 DEF CompletionCommits, CompletesAt
  <2>2. journal'.operation = journal.operation /\ journal'.evidence.known = journal.evidence.known
    BY <1>1, <2>1 DEF JournalType
  <2>3. process'.mark = "committed" /\ process'.command = process.command
        /\ process'.operation = process.operation /\ made'[KeyCopy] = "absent"
    BY <1>2, <1>5, <2>1
  <2> QED BY <1>0, <2>1, <2>2, <2>3, CompletionStays
<1>10. CASE CompletionUnmarks
  <2>1. Completed("marked") /\ made' = made /\ process.mark = "committed" /\ journal' = journal
    BY <1>10 DEF CompletionUnmarks, CompletesAt
  <2>2. process'.mark = "marked" /\ process'.command = process.command
        /\ process'.operation = process.operation /\ made'[KeyCopy] = "absent"
    BY <1>2, <1>5, <2>1
  <2> QED BY <1>0, <2>1, <2>2, CompletionStays
<1>11. CASE CompletionReturns
  <2>1. process' = Idle /\ Lay(Room(creating), "absent") /\ journal' = journal
    BY <1>1, <1>11 DEF CompletionReturns
  <2> QED BY <1>0, <1>1, <2>1, RoomGoes DEF Authorities
<1> QED BY <1>6, <1>7, <1>8, <1>9, <1>10, <1>11

(* A creation's invariant is inductive.                                       *)
LEMMA CreationKeeps ==
    ASSUME Typed, Owned, CreationInv, [Next]_vars PROVE CreationInv'
<1>0. Typed'
  BY StepIsTyped
<1>1. ASSUME Works({"legacy-migrate"}), UNCHANGED creation_vars PROVE CreationInv'
  BY <1>0, <1>1, CreationSpared
<1>2. ASSUME Works({"rollover-prepare"}), UNCHANGED creation_vars PROVE CreationInv'
  BY <1>0, <1>2, CreationSpared
<1>3. CASE Creates
  <2>1. ASSUME NEW a \in Authorities, BeginCreation(a) PROVE CreationInv'
    BY <2>1, CreationBegun
  <2>2. CASE CreatorSteps
    <3>1. CASE CreatorReturns
      <4>1. creating \in Authorities
        BY <3>1 DEF CreatorReturns, Creating, Typed, Control
      <4> QED BY <3>1, <4>1, RoomGoes DEF CreatorReturns
    <3> QED BY <2>2, <3>1, CreatorNotes, CreatorPuts, CreatorCloses DEF CreatorSteps
  <2>3. CASE \/ WithdrawalAnnounces \/ WithdrawalChanges \/ WithdrawalRecords \/ WithdrawalPasses
             \/ WithdrawalCommits \/ WithdrawalReturns
    <3>1. CASE WithdrawalReturns
      BY <3>1, CreationIdles DEF WithdrawalReturns
    <3> QED BY <2>3, <3>1, WithdrawalWrites, WithdrawalTakes, WithdrawalSkips, WithdrawalCloses
  <2>4. CASE \/ CompletionAnnounces \/ CompletionChanges \/ CompletionRecords
             \/ CompletionCommits \/ CompletionUnmarks \/ CompletionReturns
    BY <2>4, CompletionKeeps
  <2>5. CASE CreationFails
    BY <2>5, CreationAborts
  <2>6. ASSUME NEW action \in Actions, BeginBootstrapRecovery(action) PROVE CreationInv'
    BY <2>6, BootstrapRecoveryBegun
  <2> QED BY <1>3, <2>1, <2>2, <2>3, <2>4, <2>5, <2>6 DEF Creates, BootstrapSteps
<1>4. CASE /\ process' = Idle \/ process' = process
           /\ UNCHANGED << journal, creation_vars >>
  BY <1>4, CreationIdles, CreationStutters
<1> QED BY <1>1, <1>2, <1>3, <1>4, StepWorks

(* Nothing is outstanding at first.                                           *)
LEMMA OwnedAtFirst == ASSUME Init PROVE Owned
BY IdleTyped DEF Init, Owned, Running

(* The manifests of the two layouts: that of the first root and that of the     *)
(* active pair name what a creation or a migration has entirely put in place.   *)
LayoutManifests ==
    /\ made[RootManifest] = "published" => Whole("root")
    /\ made[ActiveManifest] = "published" =>
          Whole("root") /\ Whole("intermediate") /\ EntriesAre("after")
    /\ ActiveIsLast

(* They follow from the invariants of creation and migration.                  *)
LEMMA LayoutManifestsHold == ASSUME Typed, MigrationInv, CreationInv PROVE LayoutManifests
<1>1. made[ActiveManifest] = "published" => Whole("root")
  BY DEF CreationInv, Beginning, Typed, CreationTyped, Authorities
<1> QED BY <1>1 DEF LayoutManifests, MigrationInv, CreationInv, ManifestsLast

(* Whichever of creation, migration and their recoveries is interrupted, the   *)
(* manifest of the first root, and that of the active pair in either layout,   *)
(* name only authorities that are whole, with the root database they need.     *)
THEOREM LayoutManifestsNameWhole == Spec => []LayoutManifests
<1> DEFINE Inv == Typed /\ Owned /\ MigrationInv /\ CreationInv
<1>1. Init => Inv
  BY InitTyped, OwnedAtFirst, MigrationStarts, CreationStarts
<1>2. Inv /\ [Next]_vars => Inv'
  BY StepIsTyped, OwnedKept, MigrationKeeps, CreationKeeps
<1>3. Inv => LayoutManifests
  BY LayoutManifestsHold
<1> QED BY <1>1, <1>2, <1>3, PTL DEF Spec

------------------------------------------------------------------------------
(* The two worlds: authorities that were created, and authorities found and    *)
(* migrated; a preparation begins only over one of them settled.             *)
Fresh == place = Unfounded
Legacy == creating = "none" /\ \A a \in Authorities : place[Tree(a)] # "none"
Settled ==
    /\ process.operation \in {"none", "rollover-prepare"} /\ ~InCreation /\ ~InMigration
    /\ (Fresh /\ PairCreated) \/ (Legacy /\ AllFinal)
Worlds ==
    /\ Fresh \/ Legacy
    /\ type = "none" => part = Unprepared
    /\ type # "none" => Settled

(* What the paths of each world show.                                        *)
LEMMA LayoutIs ==
    ASSUME MigrationTyped
    PROVE  /\ Fresh => Layout = "empty"
           /\ Legacy => Layout # "empty"
           /\ Legacy /\ AsFound => Layout = "legacy"
           /\ AllFinal => Layout = "generation"
<1>1. \A a \in Authorities : /\ Tree(a) \in Objects /\ Tree(a) # Provenance
                             /\ place[Tree(a)] \in {"none", "original", "published"}
  <2> SUFFICES ASSUME NEW a \in Authorities
               PROVE  /\ Tree(a) \in Objects /\ Tree(a) # Provenance
                      /\ place[Tree(a)] \in {"none", "original", "published"}
    OBVIOUS
  <2>1. Tree(a) \in Objects /\ Tree(a)[1] = "tree" /\ Tree(a) # Provenance
    BY MigrationObjects DEF Objects, Tree, Provenance
  <2>2. Places(Tree(a)) = {"none", "original", "published"}
    BY <2>1 DEF Places
  <2> QED BY <2>1, <2>2 DEF MigrationTyped
<1>2. /\ Active \in Objects /\ Active # Provenance
      /\ place[Active] \in {"original", "published"}
  <2>1. Active \in Objects /\ Active[1] = "active" /\ Active # Provenance
    BY DEF Objects, Active, Provenance
  <2>2. Places(Active) = {"original", "published"}
    BY <2>1 DEF Places
  <2> QED BY <2>1, <2>2 DEF MigrationTyped
<1>3. Fresh => /\ \A a \in Authorities : place[Tree(a)] = "none"
               /\ place[Active] = "original"
  BY <1>1, <1>2 DEF Fresh, Unfounded, Tree, Active
<1>4. Fresh => Layout = "empty"
  BY <1>3 DEF Layout, GenerationAny, LegacyAny
<1>5. Legacy => Layout # "empty"
  BY <1>1 DEF Legacy, Layout, GenerationAny, LegacyAny, Authorities
<1>6. Legacy /\ AsFound => Layout = "legacy"
  BY <1>1, <1>2 DEF Legacy, AsFound, Layout, GenerationAny, LegacyAny, Authorities
<1>7. AllFinal => Layout = "generation"
  BY <1>1, <1>2 DEF AllFinal, Layout, GenerationAny, LegacyAny, Authorities
<1> QED BY <1>4, <1>5, <1>6, <1>7

(* They hold at first.                                                        *)
LEMMA WorldsAtFirst == ASSUME Init PROVE Worlds
<1>1. place \in {Unmigrated, Unfounded} /\ creating = "none" /\ type = "none" /\ part = Unprepared
  BY DEF Init
<1>2. \A a \in Authorities : Unmigrated[Tree(a)] # "none"
  BY MigrationObjects DEF Unmigrated, Objects
<1> QED BY <1>1, <1>2 DEF Worlds, Fresh, Legacy

(* Only a migration changes what it found, and only one that found something.  *)
LEMMA FoundStays ==
    ASSUME Typed, MigrationInv, [Next]_vars
    PROVE  /\ place' = place \/ process'.operation = "legacy-migrate"
           /\ place' = place \/ ~Fresh
<1>0. process \in ProcessType /\ Control /\ MigrationTyped
  BY DEF Typed, JournalTyped
<1>1. CASE UNCHANGED migration_vars
  BY <1>1 DEF migration_vars
<1>2. CASE Migrates
  <2>1. process.operation = "legacy-migrate" => ~Fresh
    <3>1. Fresh => place[Tree("root")] = "none"
      BY MigrationObjects DEF Fresh, Unfounded, Tree, Objects, Authorities
    <3> QED BY <3>1 DEF MigrationInv, Grounded, Authorities
  <2>2. CASE BeginMigration
    BY <1>0, <2>2, LayoutIs, BegunIs DEF BeginMigration
  <2>3. CASE WriterSteps
    <3>1. process.operation = "legacy-migrate"
      BY <1>0, <2>3 DEF Control, Writing, WriterSteps, WriterRecords, WriterPublishes,
                        WriterCommits, WriterReturns, Planned
    <3>2. place' = place \/ process' = [process EXCEPT !.at = @ + 1]
      BY <2>3 DEF WriterSteps, WriterRecords, WriterPublishes, WriterCommits, WriterReturns,
                  Planned, migration_vars
    <3> QED BY <1>0, <2>1, <3>1, <3>2 DEF ProcessType
  <2>4. CASE RecoverySteps
    <3>1. process.operation = "legacy-migrate"
      BY <2>4 DEF Recovering, Working, RecoverySteps, RecoveryRecords, AnnounceChange,
        MakeChange,
                  RecordChange, PassChange, PassOver, RecoveryRefuses, RecoveryCommits,
                  RecoveryReturns
    <3>2. \/ place' = place \/ process' = process
          \/ process' = [process EXCEPT !.mark = "made"]
      BY <2>4 DEF RecoverySteps, RecoveryRecords, AnnounceChange, MakeChange,
                  RecordChange, PassChange, PassOver, RecoveryRefuses, RecoveryCommits,
                  RecoveryReturns, Checkpoint, migration_vars
    <3> QED BY <1>0, <2>1, <3>1, <3>2 DEF ProcessType
  <2>5. CASE MigrationFails \/ \E action \in Actions : BeginRecovery(action)
    BY <2>5 DEF MigrationFails, BeginRecovery, migration_vars
  <2> QED BY <1>2, <2>2, <2>3, <2>4, <2>5 DEF Migrates, CommandSteps
<1> QED BY <1>1, <1>2, StepWorks

(* What is settled stays so: no creation or migration begins over it.          *)
LEMMA SettledSpared ==
    ASSUME Typed, Settled, [Next]_vars
    PROVE  ~Creates /\ ~Migrates
<1>0. Control /\ MigrationTyped /\ CreationTyped
  BY DEF Typed
<1>1. process.operation \notin Bootstraps \cup {"legacy-migrate"}
  BY DEF Settled, Bootstraps
<1>2. Layout = "empty" => PairCreated
  BY <1>0, LayoutIs DEF Settled
<1>3. Layout # "legacy"
  BY <1>0, LayoutIs DEF Settled
<1>4. ~Creates
  <2> SUFFICES ASSUME Creates PROVE FALSE
    OBVIOUS
  <2>1. ~Creating /\ ~Withdrawing /\ ~Completing
    BY <1>0, <1>1 DEF Control, Creating, Withdrawing, Completing
  <2>2. ~BootstrapSteps /\ ~CreationFails
    BY <2>1 DEF BootstrapSteps, CreationFails, CreatorSteps, CreatorJournals, CreatorPlaces,
         CreatorCommits, CreatorReturns, CreatorAt, WithdrawalAnnounces, WithdrawalChanges,
         WithdrawalRecords, WithdrawalPasses, WithdrawalCommits, WithdrawalReturns, WithdrawsOn,
         CompletionAnnounces, CompletionChanges, CompletionRecords, CompletionCommits,
         CompletionUnmarks, CompletionReturns, CompletesAt
  <2>3. \A action : ~BeginBootstrapRecovery(action)
    BY DEF BeginBootstrapRecovery, Settled, InCreation
  <2>4. ASSUME NEW a \in Authorities, BeginCreation(a), Layout = "empty" PROVE FALSE
    <3>1. made[ActiveManifest] = "published"
      BY <1>2, <2>4 DEF PairCreated, PairFinal, Manifests
    <3>2. ActiveManifest \in Own("intermediate")
      BY DEF Own
    <3> QED BY <2>4, <3>1, <3>2 DEF BeginCreation, Creatable
  <2> QED BY <2>2, <2>3, <2>4 DEF Creates
<1>5. ~Migrates
  <2> SUFFICES ASSUME Migrates PROVE FALSE
    OBVIOUS
  <2>1. ~Writing /\ ~Recovering
    BY <1>0, <1>1 DEF Control, Writing, Recovering
  <2>2. ~WriterSteps /\ ~RecoverySteps /\ ~MigrationFails
    BY <2>1 DEF WriterSteps, WriterRecords, WriterPublishes, WriterCommits, WriterReturns,
      Planned,
         MigrationFails, Working, RecoverySteps, RecoveryRecords, AnnounceChange, MakeChange,
         RecordChange, PassChange, PassOver, RecoveryRefuses, RecoveryCommits, RecoveryReturns
  <2>3. ~BeginMigration /\ \A action : ~BeginRecovery(action)
    BY <1>3 DEF BeginMigration, BeginRecovery, Actionable, Settled, InMigration
  <2> QED BY <2>2, <2>3 DEF Migrates, CommandSteps
<1> QED BY <1>4, <1>5

(* Only a preparation changes its type, and it begins over a settled world.    *)
LEMMA PreparationFounded ==
    ASSUME Typed, MigrationInv, CreationInv, Worlds, NEW kind \in Types, Founded,
           BeginPreparation(kind)
    PROVE  (Fresh /\ PairCreated) \/ (Legacy /\ AllFinal)
<1>0. JournalTyped /\ MigrationTyped /\ CreationTyped
  BY DEF Typed
<1>1. ~InCreation /\ ~InMigration
  <2>1. NoUnresolvedState
    BY DEF BeginPreparation
  <2> QED BY <1>0, <2>1, BeginsResolved DEF Outstanding, InCreation, InMigration, Bootstraps
<1>2. (NothingCreated \/ RootCreated \/ PairCreated) /\ (AsFound \/ AllFinal)
  BY <1>1 DEF CreationInv, CreationRests, MigrationInv, Rests
<1>3. CASE Fresh
  <2>1. made[ActiveManifest] = "published"
    BY <1>0, <1>3, LayoutIs DEF Founded
  <2>2. PairCreated
    BY <1>2, <2>1 DEF NothingCreated, RootCreated, Manifests
  <2> QED BY <1>3, <2>2
<1>4. CASE Legacy
  <2>1. Layout = "generation"
    BY <1>0, <1>4, LayoutIs DEF Founded
  <2> QED BY <1>0, <1>2, <1>4, <2>1, LayoutIs
<1> QED BY <1>3, <1>4 DEF Worlds

(* The worlds stay apart, and what a preparation began over stays settled.     *)
LEMMA WorldsKept ==
    ASSUME Typed, Owned, MigrationInv, CreationInv, Worlds, [Next]_vars PROVE Worlds'
<1>0. Typed' /\ MigrationInv' /\ JournalTyped /\ MigrationTyped /\ process \in ProcessType
  BY StepIsTyped, MigrationKeeps DEF Typed, JournalTyped
<1>1. creating' = creating \/ Fresh
  <2>1. ASSUME NEW a \in Authorities, BeginCreation(a), Layout = "empty" PROVE Fresh
    BY <1>0, <2>1, LayoutIs DEF Worlds
  <2>2. CASE Creates
    <3>1. (\E a \in Authorities : BeginCreation(a) /\ Layout = "empty") \/ creating' = creating
      BY <2>2 DEF Creates, BootstrapSteps, CreationFails, CreatorSteps, CreatorJournals,
        CreatorPlaces,
         CreatorCommits, CreatorReturns, CreatorAt, WithdrawalAnnounces, WithdrawalChanges,
         WithdrawalRecords, WithdrawalPasses, WithdrawalCommits, WithdrawalReturns, WithdrawsOn,
         CompletionAnnounces, CompletionChanges, CompletionRecords, CompletionCommits,
         CompletionUnmarks, CompletionReturns, CompletesAt, BeginBootstrapRecovery,
           creation_vars
    <3> QED BY <2>1, <3>1
  <2>3. CASE UNCHANGED creation_vars
    BY <2>3 DEF creation_vars
  <2> QED BY <2>2, <2>3, StepWorks
<1>2. Fresh' \/ Legacy'
  <2>1. CASE Fresh
    <3>1. place' = place
      BY <2>1, FoundStays
    <3> QED BY <2>1, <3>1 DEF Fresh, Unfounded
  <2>2. CASE Legacy /\ ~Fresh
    <3>1. place' = place \/ \A a \in Authorities : place'[Tree(a)] # "none"
      BY <1>0, FoundStays DEF MigrationInv, Grounded
    <3> QED BY <1>1, <2>2, <3>1 DEF Legacy
  <2> QED BY <2>1, <2>2 DEF Worlds
<1>3. CASE \E kind \in Types : BeginPreparation(kind) /\ Founded /\ UNCHANGED << creation_vars, migration_vars >>
  <2>1. PICK kind \in Types : BeginPreparation(kind) /\ Founded
    BY <1>3
  <2>2. (Fresh /\ PairCreated) \/ (Legacy /\ AllFinal)
    BY <2>1, PreparationFounded
  <2>3. made' = made /\ creating' = creating /\ place' = place
    BY <1>3 DEF creation_vars, migration_vars
  <2>4. (Fresh /\ PairCreated)' \/ (Legacy /\ AllFinal)'
    BY <2>2, <2>3, SameObjects DEF Fresh, Legacy, AllFinal, Unfounded
  <2>5. /\ process'.operation = "rollover-prepare" /\ journal' = journal /\ type' = kind
        /\ ~Outstanding
    BY <1>0, <2>1, BegunIs, BeginsResolved DEF BeginPreparation
  <2> QED BY <1>2, <2>4, <2>5
      DEF Worlds, Settled, Outstanding, InCreation, InMigration, Types, Bootstraps
<1>4. CASE type' = type /\ type = "none"
  <2>1. CASE Prepares
    <3>1. process.operation # "rollover-prepare" /\ journal.operation # "rollover-prepare"
      BY <1>4 DEF Typed, Control, Types
    <3>2. part' = part
      BY <1>4, <2>1, <3>1
        DEF Prepares, PrepareSteps, PreparerSteps, PreparerNotes, PreparerFills,
         PreparerAnnounces, PreparerChanges, PreparerUnlinks, Unlink, PreparerRecords,
           PreparerAt, Preparing, RepairSteps,
         RepairAnnounces, RepairChanges, RepairRefuses, RepairUnlinks, RepairRecords,
           RepairPasses, RepairsOn,
         Repairing, EndSteps, EndCommits, EndMarks, EndClears, EndRefuses, EndReceipts,
         EndDropsJournal, EndDropsMarker, Ending, PreparationFails, DropMarkedReceipt,
           BeginRepair,
         BeginPreparation, preparation_vars, Types, Typed, Control
    <3> QED BY <1>2, <1>4, <3>2 DEF Worlds, Unprepared
  <2>2. CASE UNCHANGED preparation_vars
    BY <1>2, <1>4, <2>2 DEF Worlds, Unprepared, preparation_vars
  <2> QED BY <2>1, <2>2, StepWorks
<1>5. CASE type' = type /\ type # "none"
  <2>1. Settled /\ ~Creates /\ ~Migrates
    BY <1>5, SettledSpared DEF Worlds
  <2>2. /\ UNCHANGED << creation_vars, migration_vars >>
        /\ Works({"rollover-prepare"}) \/ (journal' = journal /\ (process' = Idle \/ process' = process))
    BY <2>1, StepWorks
  <2>3. made' = made /\ creating' = creating /\ place' = place
    BY <2>2 DEF creation_vars, migration_vars
  <2>4. (Fresh /\ PairCreated)' \/ (Legacy /\ AllFinal)'
    BY <2>1, <2>3, SameObjects DEF Settled, Fresh, Legacy, AllFinal, Unfounded
  <2>5. process'.operation \in {"none", "rollover-prepare"} /\ ~InCreation' /\ ~InMigration'
    BY <2>1, <2>2, IdleTyped, NoJournalTyped
      DEF Settled, Works, InCreation, InMigration, Bootstraps
  <2> QED BY <1>2, <1>5, <2>4, <2>5 DEF Worlds, Settled
<1>6. \/ \E kind \in Types : BeginPreparation(kind) /\ Founded /\ UNCHANGED << creation_vars, migration_vars >>
      \/ type' = type
  <2>1. CASE Prepares
    BY <2>1 DEF Prepares, PrepareSteps, PreparerSteps, PreparerNotes, PreparerFills,
         PreparerAnnounces, PreparerChanges, PreparerUnlinks, Unlink, PreparerRecords,
           PreparerAt, RepairSteps,
         RepairAnnounces, RepairChanges, RepairRefuses, RepairUnlinks, RepairRecords,
           RepairPasses, RepairsOn,
         EndSteps, EndCommits, EndMarks, EndClears, EndRefuses, EndReceipts,
         EndDropsJournal, EndDropsMarker, Ending, PreparationFails, DropMarkedReceipt,
           BeginRepair,
         preparation_vars
  <2>2. CASE UNCHANGED preparation_vars
    BY <2>2 DEF preparation_vars
  <2> QED BY <2>1, <2>2, StepWorks
<1> QED BY <1>3, <1>4, <1>5, <1>6
==============================================================================
