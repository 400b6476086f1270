------------------------ MODULE InventoryInstall_proofs ------------------------
(***************************************************************************)
(* Proofs that inventory-install destroys no inventory but its own file    *)
(* and the archived one, for any number of commands, contents, changes by  *)
(* other programs and crashes.  A command unlinks by the inode it          *)
(* remembers, so the inductive invariant follows what it may remember: its *)
(* own files, and the validated destination once its bytes are archived.   *)
(* A second invariant follows the file it staged: what it holds, and when  *)
(* it may be under the active name.                                        *)
(***************************************************************************)
EXTENDS InventoryInstall, TLAPS, FiniteSetTheorems

ToRead == {"snapshot", "stage", "write", "parse", "read"}
Archiving == {"archive", "archiving", "verify", "rebytes"}
Guarded == {"compare", "exchange", "exchanged", "restore", "restored", "fallback",
            "rename", "renamed", "unguard", "unbase", "unstage", "done"}
Guarding == {"base", "link", "guard"} \cup Guarded
Publishing == {"publish", "published"}
Validated == {"recheck"} \cup Publishing \cup Guarding

(* What a command knows at each step of its way.                           *)
KnowledgeInv ==
    /\ pc # "idle" => run \in Runs /\ local.src \in Bytes
    /\ pc \in ToRead => local.read = Nil
    /\ pc \in Archiving => local.read # Nil /\ local.dest # Nil
    /\ pc = "rebytes" => BytesKept
    /\ pc \in Validated /\ local.dest # Nil => local.read # Nil /\ BytesKept
    /\ pc \in Guarding => local.dest # Nil
    /\ pc \in Publishing => local.dest = Nil
    /\ pc \in Guarded => local.guarded # Nil /\ local.guarded.ino = local.dest.ino

(* What it would unlink is expendable.                                     *)
ArtifactsInv ==
    \A k \in Kinds : local.art[k] = Nil \/ Expendable(local.art[k])

(* Names and inodes of a command do not exist before it creates them.      *)
Unborn(r) == r > run \/ (r = run /\ pc \in {"snapshot", "stage"})
FreshInv ==
    /\ \A r \in Runs : Unborn(r) => \A k \in Kinds : dir[<< k, r >>] = Nil
    /\ \A r \in Runs : Unborn(r) => \A n \in Names : dir[n] # << "stage", r >>
    /\ pc \in ToRead \cup Archiving \cup {"recheck", "base"} =>
           dir[Name("base")] = Nil /\ dir[Name("guard")] = Nil
    /\ pc = "link" => dir[Name("guard")] = Nil
    /\ pc = "write" => dir[Name("stage")] \in {Nil, Name("stage")}

(* The active inventory, and the stage once it is written, hold data.      *)
DataInv ==
    /\ dir[Services] # Nil => file[dir[Services]].bytes \in Bytes
    /\ pc \notin {"idle", "snapshot", "stage", "write"} /\ dir[Name("stage")] # Nil
           => file[dir[Name("stage")]].bytes \in Bytes

Inv == TypeOK /\ KnowledgeInv /\ ArtifactsInv /\ FreshInv /\ DataInv

------------------------------------------------------------------------------
(* The names of the running command are names of the directory.            *)
LEMMA NameFacts ==
    /\ Services \in Names
    /\ \A r \in Runs, k \in Kinds : << k, r >> \in Names /\ << k, r >> # Services
    /\ \A r \in Runs : << "stage", r >> \in Inodes /\ << "base", r >> \in Inodes
    /\ run \in Runs =>
           /\ \A k \in Kinds : Name(k) \in Names /\ Name(k) # Services
           /\ \A j, k \in Kinds : Name(j) = Name(k) => j = k
           /\ Name("stage") \in Inodes /\ Name("base") \in Inodes
BY DEF Names, Services, Kinds, Name, Inodes

(* There are finitely many names, so links can be counted.                 *)
LEMMA NamesFinite == IsFiniteSet(Names)
<1>1. IsFiniteSet(Runs)
  BY InventoryAssumption, FS_Interval DEF Runs
<1>2. IsFiniteSet(Kinds)
  <2>1. Kinds = ({"stage"} \cup {"guard"}) \cup {"base"}
    BY DEF Kinds
  <2> QED BY <2>1, FS_Singleton, FS_Union
<1>3. IsFiniteSet(Kinds \X Runs)
  BY <1>1, <1>2, FS_Product
<1> QED BY <1>3, FS_Singleton, FS_Union DEF Names

(* An identity that was looked up is a proper one.                         *)
LEMMA IdentityType ==
    ASSUME TypeOK, NEW n \in Names
    PROVE  /\ IdentityAt(n) \in Identities \cup {Nil}
           /\ dir[n] # Nil => IdentityAt(n).ino = dir[n]
           /\ IdentityAt(n) # Nil => IdentityAt(n).ino = dir[n] /\ dir[n] # Nil
<1>1. ASSUME NEW i PROVE Links(i) \in Nat
  <2>1. {m \in Names : dir[m] = i} \subseteq Names
    OBVIOUS
  <2>2. IsFiniteSet({m \in Names : dir[m] = i})
    BY <2>1, NamesFinite, FS_Subset
  <2> QED BY <2>2, FS_CardinalityType DEF Links
<1>2. dir[n] \in Inodes \cup {Nil}
  BY DEF TypeOK
<1>3. CASE dir[n] = Nil
  BY <1>3 DEF IdentityAt
<1>4. CASE dir[n] # Nil
  <2>1. dir[n] \in Inodes /\ file[dir[n]].ver \in Nat
    BY <1>2, <1>4 DEF TypeOK
  <2>2. IdentityAt(n) = [ino |-> dir[n], ver |-> file[dir[n]].ver, links |-> Links(dir[n])]
    BY <1>4 DEF IdentityAt
  <2> QED BY <1>1, <1>4, <2>1, <2>2 DEF Identities
<1> QED BY <1>3, <1>4

(* A command starts with variables of the right types.                     *)
LEMMA StartType ==
    ASSUME NEW b \in Bytes \cup {NoBytes}, NEW s \in BOOLEAN
    PROVE  Start(b, s) \in Locals
BY DEF Start, Locals, NoArtifacts, Kinds

(* The invariant holds before the first command.                           *)
LEMMA InitInv == Init => Inv
<1> SUFFICES ASSUME Init PROVE Inv
  OBVIOUS
<1> Original \in Inodes
  BY DEF Inodes
<1>1. TypeOK
  <2>1. dir \in [Names -> Inodes \cup {Nil}]
    BY DEF Init
  <2>2. file \in [Inodes -> [bytes : Bytes \cup {NoBytes}, ver : Nat, private : BOOLEAN]]
    <3>1. PICK b \in ValidBytes, mode \in BOOLEAN :
             file = [i \in Inodes |-> IF i = Original THEN Fresh(b, mode) ELSE Fresh(NoBytes, TRUE)]
      BY DEF Init
    <3>2. /\ Fresh(b, mode) \in [bytes : Bytes \cup {NoBytes}, ver : Nat, private : BOOLEAN]
          /\ Fresh(NoBytes, TRUE) \in [bytes : Bytes \cup {NoBytes}, ver : Nat, private : BOOLEAN]
      BY InventoryAssumption DEF Fresh
    <3> QED BY <3>1, <3>2
  <2>3. local \in Locals
    BY StartType DEF Init, NotRunning
  <2>4. /\ hist \in [Bytes -> Bytes \cup {Nil}] /\ outcome \in [Runs -> Outcomes]
        /\ pc \in Steps /\ run \in 0..MaxRuns
        /\ edits \in 0..MaxEdits /\ crashes \in 0..MaxCrashes
    BY InventoryAssumption DEF Init, Steps, Outcomes
  <2> QED BY <2>1, <2>2, <2>3, <2>4 DEF TypeOK
<1>2. KnowledgeInv
  BY DEF Init, KnowledgeInv, ToRead, Archiving, Validated, Publishing, Guarding, Guarded
<1>3. ArtifactsInv
  BY DEF Init, ArtifactsInv, NotRunning, Start, NoArtifacts
<1>4. FreshInv
  <2>1. \A r \in Runs, k \in Kinds : dir[<< k, r >>] = Nil
    BY NameFacts DEF Init
  <2>2. \A n \in Names : dir[n] \in {Original, Nil}
    BY DEF Init
  <2>3. \A r \in Runs : << "stage", r >> # Original /\ << "stage", r >> # Nil
    BY NameFacts, InodeAssumption DEF Original
  <2> QED BY <2>1, <2>2, <2>3 DEF Init, FreshInv, ToRead, Archiving
<1>5. DataInv
  BY NameFacts, InventoryAssumption DEF Init, DataInv, Fresh, Inodes
<1> QED BY <1>1, <1>2, <1>3, <1>4, <1>5 DEF Inv

------------------------------------------------------------------------------
(* A change of one local variable to a value of its type.                  *)
LEMMA LocalTypes ==
    ASSUME TypeOK
    PROVE  /\ NotRunning \in Locals
           /\ \A x \in Identities \cup {Nil} :
                 [local EXCEPT !.dest = x] \in Locals /\ [local EXCEPT !.guarded = x] \in Locals
           /\ \A x \in Inodes \cup {Nil} : [local EXCEPT !.displaced = x] \in Locals
           /\ \A x \in Inodes \cup {Nil} :
                 /\ [local EXCEPT !.art["stage"] = x] \in Locals
                 /\ [local EXCEPT !.art["base"] = x] \in Locals
                 /\ [local EXCEPT !.art["guard"] = x] \in Locals
           /\ [local EXCEPT !.left = TRUE] \in Locals
<1>1. local \in Locals
  BY DEF TypeOK
<1>2. NotRunning \in Locals
  BY StartType DEF NotRunning
<1>3. \A k \in Kinds, x \in Inodes \cup {Nil} :
         [local.art EXCEPT ![k] = x] \in [Kinds -> Inodes \cup {Nil}]
  BY <1>1 DEF Locals
<1>4. \A k \in Kinds, x \in Inodes \cup {Nil} : [local EXCEPT !.art[k] = x] \in Locals
  BY <1>1, <1>3 DEF Locals
<1>5. "stage" \in Kinds /\ "base" \in Kinds /\ "guard" \in Kinds
  BY DEF Kinds
<1> QED BY ZenonT(60), <1>1, <1>2, <1>4, <1>5 DEF Locals

(* How the running command goes on: the order of its steps.                *)
Before == ToRead \cup Archiving \cup {"recheck", "base"}
LEMMA Control ==
    ASSUME Inv, Installer
    PROVE  /\ UNCHANGED bounds /\ pc' \in Steps /\ outcome' \in [Runs -> Outcomes]
           /\ run' \in 0..MaxRuns
           /\ Begin \/ (pc # "idle" /\ run' = run /\ run \in Runs)
           /\ pc' = "idle" => local' = NotRunning
           /\ pc' \in {"snapshot", "stage"} => Begin \/ (pc = "snapshot" /\ UNCHANGED disk)
           /\ pc' \in Before => Begin \/ pc \in Before
           /\ pc' = "link" => GuardBase
           /\ pc' = "write" => Stage
           /\ pc' \notin {"idle", "snapshot", "stage", "write"}
                  => pc \notin {"idle", "snapshot", "stage"} \/ (pc = "snapshot" /\ UNCHANGED disk)
<1> UNCHANGED bounds /\ outcome \in [Runs -> Outcomes] /\ run \in 0..MaxRuns
  BY DEF Installer, Inv, TypeOK
<1> /\ pc # "idle" => run \in Runs
    /\ local.verdict \in {"refused", "current"}
  BY DEF Inv, KnowledgeInv, TypeOK, Locals
<1> USE DEF Goto, End, Die, Preserve, Steps, Outcomes, Before, ToRead, Archiving
<1>1. CASE Begin
  BY <1>1, InventoryAssumption DEF Begin
<1>2. CASE Snapshot
  <2>1. pc = "snapshot" /\ UNCHANGED disk /\ (Goto("stage") \/ Goto("clean_stage"))
    BY <1>2 DEF Snapshot
  <2> QED BY <2>1
<1>3. CASE Stage
  BY <1>3 DEF Stage
<1>4. CASE Write
  BY <1>4 DEF Write
<1>5. CASE Parse
  BY <1>5 DEF Parse
<1>6. CASE Read
  BY <1>6 DEF Read
<1>7. CASE Archive
  BY <1>7 DEF Archive
<1>8. CASE PublishSnapshot
  BY <1>8 DEF PublishSnapshot
<1>9. CASE VerifySnapshot
  BY <1>9 DEF VerifySnapshot
<1>10. CASE RecheckBytes
  BY <1>10 DEF RecheckBytes
<1>11. CASE Recheck
  BY <1>11 DEF Recheck
<1>12. CASE PublishNew
  BY <1>12 DEF PublishNew
<1>13. CASE PublishedNew
  BY <1>13 DEF PublishedNew
<1>14. CASE GuardBase
  BY <1>14 DEF GuardBase
<1>15. CASE GuardLink
  BY <1>15 DEF GuardLink
<1>16. CASE GuardCheck
  BY <1>16 DEF GuardCheck
<1>17. CASE Compare
  BY <1>17 DEF Compare
<1>18. CASE Exchange
  BY <1>18 DEF Exchange
<1>19. CASE Exchanged
  BY <1>19 DEF Exchanged
<1>20. CASE Restore
  BY <1>20 DEF Restore
<1>21. CASE Restored
  BY <1>21 DEF Restored
<1>22. CASE Fallback
  BY <1>22 DEF Fallback
<1>23. CASE Rename
  BY <1>23 DEF Rename
<1>24. CASE Renamed
  BY <1>24 DEF Renamed
<1>25. CASE Unguard("guard", "unguard", "unbase")
  BY <1>25 DEF Unguard
<1>26. CASE Unguard("base", "unbase", "unstage")
  BY <1>26 DEF Unguard
<1>27. CASE Unguard("stage", "unstage", "done")
  BY <1>27 DEF Unguard
<1>28. CASE Done
  BY <1>28 DEF Done
<1>29. CASE Clean("stage", "clean_stage", "clean_guard")
  BY <1>29 DEF Clean
<1>30. CASE Clean("guard", "clean_guard", "clean_base")
  BY <1>30 DEF Clean
<1>31. CASE Clean("base", "clean_base", "cleaned")
  BY <1>31 DEF Clean
<1>32. CASE Cleaned
  BY <1>32 DEF Cleaned
<1> QED
  BY <1>1, <1>2, <1>3, <1>4, <1>5, <1>6, <1>7, <1>8, <1>9, <1>10,
     <1>11, <1>12, <1>13, <1>14, <1>15, <1>16, <1>17, <1>18, <1>19, <1>20,
     <1>21, <1>22, <1>23, <1>24, <1>25, <1>26, <1>27, <1>28, <1>29, <1>30,
     <1>31, <1>32 DEF Installer

(* What a step of the command does to the directory.                       *)
Changes ==
    \/ pc # "write" /\ UNCHANGED disk
    \/ Stage \/ Write \/ PublishSnapshot \/ GuardBase
    \/ pc = "link" /\ dir[Services] # Nil /\ Link(Name("guard"), dir[Services])
    \/ /\ pc \in {"exchange", "restore"}
       /\ dir[Services] # Nil /\ dir[Name("stage")] # Nil
       /\ Swap(Name("stage"), Services)
    \/ /\ pc = "publish" /\ dir[Services] = Nil /\ Holds("stage")
       /\ Move(Name("stage"), Services)
    \/ pc = "rename" /\ dir[Name("stage")] # Nil /\ Move(Name("stage"), Services)
    \/ pc # "write" /\ \E k \in Kinds : local.art[k] # Nil /\ Holds(k) /\ Link(Name(k), Nil)

(* No step of the command does anything else to the directory.             *)
LEMMA Effects == ASSUME Installer PROVE Changes
<1> "stage" \in Kinds /\ "guard" \in Kinds /\ "base" \in Kinds
  BY DEF Kinds
<1> USE DEF Changes
<1>1. CASE Begin
  BY <1>1 DEF Begin
<1>2. CASE Snapshot
  BY <1>2 DEF Snapshot
<1>3. CASE Stage
  BY <1>3
<1>4. CASE Write
  BY <1>4
<1>5. CASE Parse
  BY <1>5 DEF Parse
<1>6. CASE Read
  BY <1>6 DEF Read
<1>7. CASE Archive
  BY <1>7 DEF Archive
<1>8. CASE PublishSnapshot
  BY <1>8
<1>9. CASE VerifySnapshot
  BY <1>9 DEF VerifySnapshot
<1>10. CASE RecheckBytes
  BY <1>10 DEF RecheckBytes
<1>11. CASE Recheck
  BY <1>11 DEF Recheck
<1>12. CASE PublishNew
  BY <1>12 DEF PublishNew
<1>13. CASE PublishedNew
  BY <1>13 DEF PublishedNew
<1>14. CASE GuardBase
  BY <1>14
<1>15. CASE GuardLink
  BY <1>15 DEF GuardLink
<1>16. CASE GuardCheck
  BY <1>16 DEF GuardCheck
<1>17. CASE Compare
  BY <1>17 DEF Compare
<1>18. CASE Exchange
  BY <1>18 DEF Exchange
<1>19. CASE Exchanged
  BY <1>19 DEF Exchanged
<1>20. CASE Restore
  BY <1>20 DEF Restore
<1>21. CASE Restored
  BY <1>21 DEF Restored
<1>22. CASE Fallback
  BY <1>22 DEF Fallback
<1>23. CASE Rename
  BY <1>23 DEF Rename
<1>24. CASE Renamed
  BY <1>24 DEF Renamed
<1>25. CASE Unguard("guard", "unguard", "unbase")
  BY <1>25 DEF Unguard, Unlink
<1>26. CASE Unguard("base", "unbase", "unstage")
  BY <1>26 DEF Unguard, Unlink
<1>27. CASE Unguard("stage", "unstage", "done")
  BY <1>27 DEF Unguard, Unlink
<1>28. CASE Done
  BY <1>28 DEF Done
<1>29. CASE Clean("stage", "clean_stage", "clean_guard")
  BY <1>29 DEF Clean, Unlink
<1>30. CASE Clean("guard", "clean_guard", "clean_base")
  BY <1>30 DEF Clean, Unlink
<1>31. CASE Clean("base", "clean_base", "cleaned")
  BY <1>31 DEF Clean, Unlink
<1>32. CASE Cleaned
  BY <1>32 DEF Cleaned
<1> QED
  BY <1>1, <1>2, <1>3, <1>4, <1>5, <1>6, <1>7, <1>8, <1>9, <1>10,
     <1>11, <1>12, <1>13, <1>14, <1>15, <1>16, <1>17, <1>18, <1>19, <1>20,
     <1>21, <1>22, <1>23, <1>24, <1>25, <1>26, <1>27, <1>28, <1>29, <1>30,
     <1>31, <1>32 DEF Installer

(* A step of the command keeps the directory well formed: no name or inode *)
(* of a later command, data in the inventory, archived bytes archived.     *)
LEMMA DirectoryInv ==
    ASSUME Inv, Installer
    PROVE  /\ dir' \in [Names -> Inodes \cup {Nil}]
           /\ file' \in [Inodes -> [bytes : Bytes \cup {NoBytes}, ver : Nat, private : BOOLEAN]]
           /\ hist' \in [Bytes -> Bytes \cup {Nil}]
           /\ FreshInv' /\ DataInv'
           /\ \A b \in Bytes : hist[b] = b => hist'[b] = b
<1> DEFINE Contents == [bytes : Bytes \cup {NoBytes}, ver : Nat, private : BOOLEAN]
           Keeps == /\ dir' \in [Names -> Inodes \cup {Nil}]
                    /\ file' \in [Inodes -> Contents]
                    /\ hist' \in [Bytes -> Bytes \cup {Nil}]
                    /\ \A b \in Bytes : hist[b] = b => hist'[b] = b
           Artifacts == {Name("stage"), Name("base"), Name("guard")}
           Moves == /\ \A n \in Names \ (Artifacts \cup {Services}) : dir'[n] = dir[n]
                    /\ \A n \in Names :
                           dir'[n] = Nil \/ Stage \/ GuardBase \/ \E m \in Names : dir'[n] = dir[m]
                    /\ dir'[Name("base")] \in {Nil, dir[Name("base")]} \/ GuardBase
                    /\ dir'[Name("guard")] \in {Nil, dir[Name("guard")]} \/ pc = "link"
<1>1. /\ dir \in [Names -> Inodes \cup {Nil}] /\ file \in [Inodes -> Contents]
      /\ hist \in [Bytes -> Bytes \cup {Nil}] /\ run \in 0..MaxRuns /\ local \in Locals
      /\ MaxRuns \in Nat /\ Nil \notin Bytes /\ NoBytes \notin Bytes /\ Nil \notin Inodes
      /\ FreshInv /\ DataInv /\ Services \in Names
  BY NameFacts, InventoryAssumption, InodeAssumption DEF Inv, TypeOK
<1>2. pc # "idle" =>
         /\ run \in Runs /\ local.src \in Bytes
         /\ \A k \in Kinds : Name(k) \in Names /\ Name(k) # Services
         /\ \A j, k \in Kinds : Name(j) = Name(k) => j = k
         /\ Name("stage") \in Inodes /\ Name("base") \in Inodes
         /\ Name("stage") \in Names /\ Name("base") \in Names /\ Name("guard") \in Names
         /\ Name("stage") # Name("base") /\ Name("stage") # Name("guard")
         /\ Name("base") # Name("guard")
         /\ Services \notin {Name("stage"), Name("base"), Name("guard")}
  BY NameFacts DEF Inv, KnowledgeInv, Kinds
<1>3. CASE Begin
  <2>1. /\ UNCHANGED << dir, file, hist >> /\ pc = "idle" /\ run' = run + 1 /\ pc' = "snapshot"
        /\ run + 1 \in Runs
    BY <1>1, <1>3 DEF Begin, disk, Runs
  <2>2. FreshInv'
    <3>1. \A r \in Runs : r > run =>
             /\ \A k \in Kinds : dir[<< k, r >>] = Nil
             /\ \A n \in Names : dir[n] # << "stage", r >>
      BY <1>1 DEF FreshInv, Unborn
    <3>2. \A r \in Runs : Unborn(r)' => r > run
      BY <1>1, <2>1 DEF Unborn, Runs
    <3>3. dir'[Name("base")'] = Nil /\ dir'[Name("guard")'] = Nil
      <4>1. Name("base")' = << "base", run + 1 >> /\ Name("guard")' = << "guard", run + 1 >>
        BY <2>1 DEF Name
      <4>2. run + 1 \in Runs /\ run + 1 > run /\ "base" \in Kinds /\ "guard" \in Kinds
        BY <1>1, <2>1 DEF Kinds
      <4> QED BY <2>1, <3>1, <4>1, <4>2
    <3> QED BY <2>1, <3>1, <3>2, <3>3 DEF FreshInv
  <2>3. DataInv'
    BY <1>1, <2>1 DEF DataInv
  <2> QED BY <1>1, <2>1, <2>2, <2>3
<1>4. CASE ~Begin
  <2>1. /\ pc # "idle" /\ run' = run
        /\ pc' \in {"snapshot", "stage"} => pc = "snapshot" /\ UNCHANGED disk
        /\ pc' \in Before => pc \in Before
        /\ pc' = "link" => GuardBase
        /\ pc' = "write" => Stage
        /\ pc' \notin {"idle", "snapshot", "stage", "write"}
               => pc \notin {"idle", "snapshot", "stage"} \/ (pc = "snapshot" /\ UNCHANGED disk)
    BY <1>4, Control
  <2>2. Changes
    BY Effects
  <2>3. Keeps
    <3>1. CASE UNCHANGED disk
      BY <1>1, <3>1 DEF disk
    <3>2. CASE Stage
      BY <1>1, <1>2, <2>1, <3>2 DEF Stage, Fresh
    <3>3. CASE Write
      BY <1>1, <1>2, <2>1, <3>3 DEF Write
    <3>4. CASE PublishSnapshot
      BY <1>1, <3>4 DEF PublishSnapshot, Locals
    <3>5. CASE GuardBase
      BY <1>1, <1>2, <2>1, <3>5 DEF GuardBase
    <3>6. CASE dir[Services] # Nil /\ Link(Name("guard"), dir[Services])
      BY <1>1, <1>2, <2>1, <3>6 DEF Link
    <3>7. CASE Swap(Name("stage"), Services)
      BY <1>1, <1>2, <2>1, <3>7 DEF Swap
    <3>8. CASE Move(Name("stage"), Services)
      BY <1>1, <1>2, <2>1, <3>8 DEF Move
    <3>9. CASE \E k \in Kinds : Link(Name(k), Nil)
      BY <1>1, <1>2, <2>1, <3>9 DEF Link
    <3> QED BY <2>2, <3>1, <3>2, <3>3, <3>4, <3>5, <3>6, <3>7, <3>8, <3>9 DEF Changes
  <2>4. Moves
    <3>1. CASE UNCHANGED disk
      BY <1>1, <1>2, <2>1, <3>1 DEF disk
    <3>2. CASE Stage
      BY <1>1, <1>2, <2>1, <3>2 DEF Stage
    <3>3. CASE Write
      BY <1>1, <1>2, <2>1, <3>3 DEF Write
    <3>4. CASE PublishSnapshot
      BY <1>1, <1>2, <2>1, <3>4 DEF PublishSnapshot
    <3>5. CASE GuardBase
      BY <1>1, <1>2, <2>1, <3>5 DEF GuardBase
    <3>6. CASE pc = "link" /\ dir[Services] # Nil /\ Link(Name("guard"), dir[Services])
      BY <1>1, <1>2, <2>1, <3>6 DEF Link
    <3>7. CASE Swap(Name("stage"), Services)
      BY <1>1, <1>2, <2>1, <3>7 DEF Swap
    <3>8. CASE Move(Name("stage"), Services)
      BY <1>1, <1>2, <2>1, <3>8 DEF Move
    <3>9. CASE \E k \in Kinds : Link(Name(k), Nil)
      BY <1>1, <1>2, <2>1, <3>9 DEF Link, Kinds
    <3> QED BY <2>2, <3>1, <3>2, <3>3, <3>4, <3>5, <3>6, <3>7, <3>8, <3>9 DEF Changes
  <2>5. FreshInv'
    <3>1. /\ Name("stage")' = Name("stage") /\ Name("base")' = Name("base")
          /\ Name("guard")' = Name("guard")
          /\ \A r \in Runs : Unborn(r)' => Unborn(r) /\ (r > run \/ UNCHANGED disk)
      BY <1>1, <2>1 DEF Name, Unborn, Runs
    <3>2. ASSUME NEW r \in Runs, Unborn(r)'
          PROVE  /\ \A k \in Kinds : dir'[<< k, r >>] = Nil
                 /\ \A n \in Names : dir'[n] # << "stage", r >>
      <4>1. /\ \A k \in Kinds : << k, r >> \in Names /\ dir[<< k, r >>] = Nil
            /\ \A n \in Names : dir[n] # << "stage", r >>
        BY <1>1, <3>1, <3>2, NameFacts DEF FreshInv
      <4>2. CASE UNCHANGED disk
        BY <4>1, <4>2 DEF disk
      <4>3. CASE r > run
        <5>1. << "stage", r >> \notin {Nil, Name("stage"), Name("base")}
          <6>1. << "stage", r >> \in Inodes
            BY NameFacts
          <6>2. << "stage", r >> # << "stage", run >> /\ << "stage", r >> # << "base", run >>
            BY <1>1, <4>3 DEF Runs
          <6> QED BY <1>1, <6>1, <6>2 DEF Name
        <5>2. \A k \in Kinds : << k, r >> \notin Artifacts \cup {Services}
          BY <1>1, <2>1, <4>3, NameFacts DEF Name
        <5>3. \A n \in Names : \/ dir'[n] \in {Nil, Name("stage"), Name("base")}
                                \/ \E m \in Names : dir'[n] = dir[m]
          BY <1>1, <1>2, <2>1, <2>4 DEF Stage, GuardBase
        <5> QED BY <2>4, <4>1, <5>1, <5>2, <5>3
      <4> QED BY <3>1, <3>2, <4>2, <4>3
    <3>3. pc' \in Before => dir'[Name("base")] = Nil /\ dir'[Name("guard")] = Nil
      BY <1>1, <2>1, <2>4 DEF FreshInv, Before, GuardBase, Goto, ToRead, Archiving
    <3>4. pc' = "link" => dir'[Name("guard")] = Nil
      BY <1>1, <1>2, <2>1 DEF FreshInv, GuardBase
    <3>5. pc' = "write" => dir'[Name("stage")] = Name("stage")
      BY <1>1, <1>2, <2>1 DEF Stage
    <3> QED BY <3>1, <3>2, <3>3, <3>4, <3>5 DEF FreshInv, Before
  <2>6. DataInv'
    <3> DEFINE Good(n) == dir'[n] # Nil => file'[dir'[n]].bytes \in Bytes
    <3>0. /\ dir[Services] # Nil => file[dir[Services]].bytes \in Bytes
          /\ pc \notin {"idle", "snapshot", "stage", "write"} /\ dir[Name("stage")] # Nil
                 => file[dir[Name("stage")]].bytes \in Bytes
          /\ pc \in {"snapshot", "stage"} => dir[Name("stage")] = Nil /\ dir[Services] # Name("stage")
          /\ pc = "write" => dir[Name("stage")] \in {Nil, Name("stage")}
      BY <1>1, <1>2, <2>1 DEF DataInv, FreshInv, Unborn, Name, Kinds
    <3>1. Good(Services) /\ (pc' \notin {"idle", "snapshot", "stage", "write"} => Good(Name("stage")))
      <4>1. CASE pc # "write" /\ UNCHANGED disk
        BY <1>1, <1>2, <2>1, <3>0, <4>1 DEF disk
      <4>2. CASE Stage
        BY <1>1, <1>2, <2>1, <3>0, <4>2 DEF Stage, Fresh, Goto
      <4>3. CASE Write
        BY <1>1, <1>2, <2>1, <3>0, <4>3 DEF Write, Goto
      <4>4. CASE PublishSnapshot
        BY <1>1, <1>2, <2>1, <3>0, <4>4 DEF PublishSnapshot
      <4>5. CASE GuardBase
        BY <1>1, <1>2, <2>1, <3>0, <4>5 DEF GuardBase
      <4>6. CASE pc = "link" /\ dir[Services] # Nil /\ Link(Name("guard"), dir[Services])
        BY <1>1, <1>2, <2>1, <3>0, <4>6 DEF Link
      <4>7. CASE pc \in {"exchange", "restore"} /\ Swap(Name("stage"), Services)
        BY <1>1, <1>2, <2>1, <3>0, <4>7 DEF Swap
      <4>8. CASE pc \in {"publish", "rename"} /\ Move(Name("stage"), Services)
        BY <1>1, <1>2, <2>1, <3>0, <4>8 DEF Move
      <4>9. CASE pc # "write" /\ \E k \in Kinds : Link(Name(k), Nil)
        BY <1>1, <1>2, <2>1, <3>0, <4>9 DEF Link, Kinds
      <4> QED BY <2>2, <4>1, <4>2, <4>3, <4>4, <4>5, <4>6, <4>7, <4>8, <4>9 DEF Changes
    <3>2. Name("stage")' = Name("stage")
      BY <2>1 DEF Name
    <3> QED BY <3>1, <3>2 DEF DataInv
  <2> QED BY <2>3, <2>5, <2>6
<1> QED BY <1>3, <1>4

(* What a step of the command does to its variables.                       *)
Remembers ==
    \/ local' = local
    \/ pc' = "idle" /\ local' = NotRunning
    \/ Begin
    \/ pc = "snapshot" /\ pc' = "stage" /\ local' = [local EXCEPT !.dest = IdentityAt(Services)]
    \/ pc = "write" /\ local' = [local EXCEPT !.art["stage"] = Name("stage")]
    \/ \E v \in {"refused", "current"} :
          /\ pc = "read" /\ local.dest # Nil /\ IdentityAt(Services) = local.dest
          /\ local' = [local EXCEPT !.read = file[dir[Services]].bytes, !.verdict = v]
    \/ pc = "base" /\ local' = [local EXCEPT !.art["base"] = Name("base")]
    \/ /\ pc = "guard" /\ Ino(IdentityAt(Name("guard"))) = local.dest.ino
       /\ local' = [local EXCEPT !.guarded = IdentityAt(Name("guard")),
                                 !.art["guard"] = IdentityAt(Name("guard")).ino]
    \/ /\ pc = "exchanged" /\ dir[Name("stage")] = local.guarded.ino
       /\ local' = [local EXCEPT !.art["stage"] = dir[Name("stage")]]
    \/ pc = "exchanged" /\ local' = [local EXCEPT !.displaced = dir[Name("stage")]]
    \/ \E k \in Kinds : local' = [local EXCEPT !.art[k] = Nil]
    \/ local' = [local EXCEPT !.left = TRUE]

(* No step of the command changes its variables in another way.            *)
LEMMA Memory == ASSUME Inv, Installer PROVE Remembers
<1> "stage" \in Kinds /\ "guard" \in Kinds /\ "base" \in Kinds
  BY DEF Kinds
<1> local \in Locals
  BY DEF Inv, TypeOK
<1> USE DEF Remembers, Goto, End, Die, Preserve
<1>1. CASE Begin
  BY <1>1 DEF Begin
<1>2. CASE Snapshot
  BY <1>2 DEF Snapshot
<1>3. CASE Stage
  BY <1>3 DEF Stage
<1>4. CASE Write
  BY <1>4 DEF Write
<1>5. CASE Parse
  BY <1>5 DEF Parse
<1>6. CASE Read
  BY <1>6 DEF Read, Locals
<1>7. CASE Archive
  BY <1>7 DEF Archive
<1>8. CASE PublishSnapshot
  BY <1>8 DEF PublishSnapshot
<1>9. CASE VerifySnapshot
  BY <1>9 DEF VerifySnapshot
<1>10. CASE RecheckBytes
  BY <1>10 DEF RecheckBytes
<1>11. CASE Recheck
  BY <1>11 DEF Recheck
<1>12. CASE PublishNew
  BY <1>12 DEF PublishNew
<1>13. CASE PublishedNew
  BY <1>13 DEF PublishedNew
<1>14. CASE GuardBase
  BY <1>14 DEF GuardBase
<1>15. CASE GuardLink
  BY <1>15 DEF GuardLink
<1>16. CASE GuardCheck
  BY <1>16 DEF GuardCheck
<1>17. CASE Compare
  BY <1>17 DEF Compare
<1>18. CASE Exchange
  BY <1>18 DEF Exchange
<1>19. CASE Exchanged
  BY <1>19 DEF Exchanged
<1>20. CASE Restore
  BY <1>20 DEF Restore
<1>21. CASE Restored
  BY <1>21 DEF Restored
<1>22. CASE Fallback
  BY <1>22 DEF Fallback
<1>23. CASE Rename
  BY <1>23 DEF Rename
<1>24. CASE Renamed
  BY <1>24 DEF Renamed
<1>25. CASE Unguard("guard", "unguard", "unbase")
  BY <1>25 DEF Unguard, Unlink
<1>26. CASE Unguard("base", "unbase", "unstage")
  BY <1>26 DEF Unguard, Unlink
<1>27. CASE Unguard("stage", "unstage", "done")
  BY <1>27 DEF Unguard, Unlink
<1>28. CASE Done
  BY <1>28 DEF Done
<1>29. CASE Clean("stage", "clean_stage", "clean_guard")
  BY <1>29 DEF Clean, Unlink
<1>30. CASE Clean("guard", "clean_guard", "clean_base")
  BY <1>30 DEF Clean, Unlink
<1>31. CASE Clean("base", "clean_base", "cleaned")
  BY <1>31 DEF Clean, Unlink
<1>32. CASE Cleaned
  BY <1>32 DEF Cleaned
<1> QED
  BY <1>1, <1>2, <1>3, <1>4, <1>5, <1>6, <1>7, <1>8, <1>9, <1>10,
     <1>11, <1>12, <1>13, <1>14, <1>15, <1>16, <1>17, <1>18, <1>19, <1>20,
     <1>21, <1>22, <1>23, <1>24, <1>25, <1>26, <1>27, <1>28, <1>29, <1>30,
     <1>31, <1>32 DEF Installer

(* The variables of the command keep their types.                          *)
LEMMA LocalInv ==
    ASSUME Inv, Installer PROVE local' \in Locals
<1>1. /\ local \in Locals /\ Services \in Names
      /\ dir \in [Names -> Inodes \cup {Nil}] /\ DataInv
  BY NameFacts DEF Inv, TypeOK
<1>2. TypeOK /\ Nil \notin Inodes
  BY InodeAssumption DEF Inv
<1>3. CASE Begin
  BY <1>3, StartType DEF Begin
<1>4. CASE ~Begin
  <2>1. /\ run \in Runs /\ Name("stage") \in Inodes /\ Name("base") \in Inodes
        /\ Name("stage") \in Names /\ Name("guard") \in Names
        /\ dir[Name("stage")] \in Inodes \cup {Nil}
    BY <1>1, <1>4, Control, NameFacts DEF Kinds
  <2>2. IdentityAt(Services) \in Identities \cup {Nil}
    BY <1>1, <1>2, IdentityType
  <2>3. CASE \E v \in {"refused", "current"} :
                /\ local.dest # Nil /\ IdentityAt(Services) = local.dest
                /\ local' = [local EXCEPT !.read = file[dir[Services]].bytes, !.verdict = v]
    <3>1. file[dir[Services]].bytes \in Bytes
      BY <1>1, <1>2, <2>3, IdentityType DEF DataInv
    <3> QED BY <1>1, <2>3, <3>1 DEF Locals
  <2>4. CASE /\ Ino(IdentityAt(Name("guard"))) = local.dest.ino /\ pc = "guard"
             /\ local' = [local EXCEPT !.guarded = IdentityAt(Name("guard")),
                                       !.art["guard"] = IdentityAt(Name("guard")).ino]
    <3>1. local.dest \in Identities
      BY <1>1, <2>4 DEF Locals, Inv, KnowledgeInv, Guarding
    <3>2. IdentityAt(Name("guard")) \in Identities
      BY <1>2, <2>1, <2>4, <3>1, IdentityType DEF Ino, Identities
    <3>3. [local EXCEPT !.guarded = IdentityAt(Name("guard"))] \in Locals
      BY <1>2, <3>2, LocalTypes
    <3>4. [local.art EXCEPT !["guard"] = IdentityAt(Name("guard")).ino] \in [Kinds -> Inodes \cup {Nil}]
      BY <1>1, <3>2 DEF Locals, Identities
    <3> QED BY <2>4, <3>3, <3>4 DEF Locals
  <2>5. CASE \E k \in Kinds : local' = [local EXCEPT !.art[k] = Nil]
    BY <1>2, <2>5, LocalTypes DEF Kinds
  <2> QED BY ZenonT(60), <1>1, <1>2, <1>4, <2>1, <2>2, <2>3, <2>4, <2>5, Memory, LocalTypes DEF Remembers
<1> QED BY <1>3, <1>4

(* What was archived stays archived, so what the command knows of the      *)
(* bytes it read holds as long as it remembers them.                       *)
LEMMA KeptStays ==
    ASSUME Inv, Installer, local'.read = local.read, local'.src = local.src,
           local.read # Nil, BytesKept
    PROVE  BytesKept'
BY DirectoryInv DEF BytesKept, Inv, TypeOK, Locals

(* Which steps change which of the variables that the invariant reads.     *)
LEMMA Frame ==
    ASSUME Inv, Installer, ~Begin, pc' # "idle"
    PROVE  /\ local'.src = local.src
           /\ pc = "snapshot" \/ local'.dest = local.dest
           /\ pc = "read" \/ local'.read = local.read
           /\ pc = "guard" \/ local'.guarded = local.guarded
<1> local \in Locals
  BY DEF Inv, TypeOK
<1> QED BY Memory DEF Remembers, Locals

(* What the command knows at a step, it knows at the next.                 *)
LEMMA KnowledgeKept == ASSUME Inv, Installer PROVE KnowledgeInv'
<1>a. TypeOK /\ local \in Locals /\ KnowledgeInv /\ local' \in Locals /\ Nil \notin Inodes /\ Nil \notin Bytes
  BY LocalInv, InodeAssumption, InventoryAssumption DEF Inv, TypeOK
<1>b. local'.read = local.read /\ local'.src = local.src /\ local.read # Nil /\ BytesKept => BytesKept'
  BY KeptStays
<1>c. (Begin /\ pc = "idle") \/ (pc # "idle" /\ run' = run /\ run \in Runs)
  BY Control DEF Begin
<1>d. pc = "idle" \/ pc' = "idle" \/
         /\ local'.src = local.src
         /\ pc = "snapshot" \/ local'.dest = local.dest
         /\ pc = "read" \/ local'.read = local.read
         /\ pc = "guard" \/ local'.guarded = local.guarded
  BY Frame DEF Begin
<1>e. CASE Begin
  <2>1. run' \in Runs /\ pc' = "snapshot"
    BY <1>a, <1>e, InventoryAssumption DEF Begin, Runs, TypeOK
  <2>2. local'.read = Nil /\ local'.src \in Bytes
    BY <1>e DEF Begin, Start
  <2> QED BY <2>1, <2>2 DEF KnowledgeInv, ToRead, Archiving, Validated, Publishing, Guarding, Guarded
<1>f. CASE Read
  <2>1. CASE pc' \notin {"archive", "recheck"}
    BY <1>a, <1>c, <1>d, <1>f, <2>1
       DEF Read, KnowledgeInv, ToRead, Archiving, Validated, Publishing, Guarding, Guarded, Goto, Die
  <2>2. CASE local.dest = Nil /\ pc' = "recheck" /\ local' = local
    BY <1>a, <1>c, <1>d, <1>f, <2>2
       DEF Read, KnowledgeInv, ToRead, Archiving, Validated, Publishing, Guarding, Guarded
  <2>3. CASE /\ local.dest # Nil
             /\ local'.read = file[dir[Services]].bytes /\ IdentityAt(Services) = local.dest
             /\ pc' = "archive" \/ (pc' = "recheck" /\ local'.read = local.src)
    <3>1. local'.read \in Bytes
      <4>1. dir[Services] # Nil /\ DataInv
        BY <1>a, <2>3, NameFacts, IdentityType DEF Inv
      <4> QED BY <2>3, <4>1 DEF DataInv
    <3> QED BY <1>a, <1>c, <1>d, <1>f, <2>3, <3>1
       DEF Read, BytesKept, KnowledgeInv, ToRead, Archiving, Validated, Publishing, Guarding, Guarded
  <2> QED BY <1>a, <1>f, <2>1, <2>2, <2>3 DEF Read, Goto, Die, Locals
<1>g. CASE GuardCheck
  <2>1. local.dest # Nil /\ local.dest.ino \in Inodes /\ pc = "guard"
    BY <1>a, <1>g DEF GuardCheck, KnowledgeInv, Guarding, Locals, Identities
  <2>2. CASE pc' = "clean_stage"
    BY <1>a, <1>c, <1>d, <1>g, <2>1, <2>2
       DEF KnowledgeInv, ToRead, Archiving, Validated, Publishing, Guarding, Guarded
  <2>3. CASE /\ pc' \in {"compare", "fallback"} /\ Ino(IdentityAt(Name("guard"))) = local.dest.ino
             /\ local' = [local EXCEPT !.guarded = IdentityAt(Name("guard")),
                                       !.art["guard"] = IdentityAt(Name("guard")).ino]
    <3>1. local'.guarded = IdentityAt(Name("guard"))
      BY <1>a, <2>3 DEF Locals
    <3>2. local'.guarded # Nil /\ local'.guarded.ino = local.dest.ino
      BY <1>a, <2>1, <2>3, <3>1 DEF Ino
    <3> QED BY <1>a, <1>b, <1>c, <1>d, <2>1, <2>3, <3>2
       DEF KnowledgeInv, ToRead, Archiving, Validated, Publishing, Guarding, Guarded
  <2> QED BY <1>g, <2>2, <2>3 DEF GuardCheck, Goto, Die
<1> USE DEF KnowledgeInv, ToRead, Archiving, Validated, Publishing, Guarding, Guarded, Goto, End, Die, Preserve
<1>1. CASE Begin
  BY <1>e, <1>1
<1>2. CASE Snapshot
  BY <1>2, <1>a, <1>b, <1>c, <1>d DEF Snapshot
<1>3. CASE Stage
  BY <1>3, <1>a, <1>b, <1>c, <1>d DEF Stage
<1>4. CASE Write
  BY <1>4, <1>a, <1>b, <1>c, <1>d DEF Write
<1>5. CASE Parse
  BY <1>5, <1>a, <1>b, <1>c, <1>d DEF Parse
<1>6. CASE Read
  BY <1>f, <1>6
<1>7. CASE Archive
  BY <1>7, <1>a, <1>b, <1>c, <1>d DEF Archive
<1>8. CASE PublishSnapshot
  BY <1>8, <1>a, <1>b, <1>c, <1>d DEF PublishSnapshot
<1>9. CASE VerifySnapshot
  BY <1>9, <1>a, <1>b, <1>c, <1>d DEF VerifySnapshot, BytesKept
<1>10. CASE RecheckBytes
  BY <1>10, <1>a, <1>b, <1>c, <1>d DEF RecheckBytes
<1>11. CASE Recheck
  BY <1>11, <1>a, <1>b, <1>c, <1>d DEF Recheck
<1>12. CASE PublishNew
  BY <1>12, <1>a, <1>b, <1>c, <1>d DEF PublishNew
<1>13. CASE PublishedNew
  BY <1>13, <1>a, <1>b, <1>c, <1>d DEF PublishedNew
<1>14. CASE GuardBase
  BY <1>14, <1>a, <1>b, <1>c, <1>d DEF GuardBase
<1>15. CASE GuardLink
  BY <1>15, <1>a, <1>b, <1>c, <1>d DEF GuardLink
<1>16. CASE GuardCheck
  BY <1>g, <1>16
<1>17. CASE Compare
  BY <1>17, <1>a, <1>b, <1>c, <1>d DEF Compare
<1>18. CASE Exchange
  BY <1>18, <1>a, <1>b, <1>c, <1>d DEF Exchange
<1>19. CASE Exchanged
  BY <1>19, <1>a, <1>b, <1>c, <1>d DEF Exchanged
<1>20. CASE Restore
  BY <1>20, <1>a, <1>b, <1>c, <1>d DEF Restore
<1>21. CASE Restored
  BY <1>21, <1>a, <1>b, <1>c, <1>d DEF Restored
<1>22. CASE Fallback
  BY <1>22, <1>a, <1>b, <1>c, <1>d DEF Fallback
<1>23. CASE Rename
  BY <1>23, <1>a, <1>b, <1>c, <1>d DEF Rename
<1>24. CASE Renamed
  BY <1>24, <1>a, <1>b, <1>c, <1>d DEF Renamed
<1>25. CASE Unguard("guard", "unguard", "unbase")
  BY <1>25, <1>a, <1>b, <1>c, <1>d DEF Unguard, Unlink
<1>26. CASE Unguard("base", "unbase", "unstage")
  BY <1>26, <1>a, <1>b, <1>c, <1>d DEF Unguard, Unlink
<1>27. CASE Unguard("stage", "unstage", "done")
  BY <1>27, <1>a, <1>b, <1>c, <1>d DEF Unguard, Unlink
<1>28. CASE Done
  BY <1>28, <1>a, <1>b, <1>c, <1>d DEF Done
<1>29. CASE Clean("stage", "clean_stage", "clean_guard")
  BY <1>29, <1>a, <1>b, <1>c, <1>d DEF Clean, Unlink
<1>30. CASE Clean("guard", "clean_guard", "clean_base")
  BY <1>30, <1>a, <1>b, <1>c, <1>d DEF Clean, Unlink
<1>31. CASE Clean("base", "clean_base", "cleaned")
  BY <1>31, <1>a, <1>b, <1>c, <1>d DEF Clean, Unlink
<1>32. CASE Cleaned
  BY <1>32, <1>a, <1>b, <1>c, <1>d DEF Cleaned
<1> QED
  BY <1>1, <1>2, <1>3, <1>4, <1>5, <1>6, <1>7, <1>8, <1>9, <1>10,
     <1>11, <1>12, <1>13, <1>14, <1>15, <1>16, <1>17, <1>18, <1>19, <1>20,
     <1>21, <1>22, <1>23, <1>24, <1>25, <1>26, <1>27, <1>28, <1>29, <1>30,
     <1>31, <1>32 DEF Installer

(* What the cleanup may unlink is the command's own or archived.           *)
LEMMA ArtifactsKept == ASSUME Inv, Installer PROVE ArtifactsInv'
<1>1. /\ local \in Locals /\ local' \in Locals /\ KnowledgeInv /\ ArtifactsInv /\ TypeOK
      /\ Nil \notin Inodes
  BY LocalInv, InodeAssumption DEF Inv, TypeOK
<1>2. CASE Begin
  BY <1>2 DEF Begin, Start, NoArtifacts, ArtifactsInv
<1>3. CASE pc' = "idle" /\ local' = NotRunning
  BY <1>3 DEF NotRunning, Start, NoArtifacts, ArtifactsInv
<1>4. CASE ~Begin /\ pc' # "idle"
  <2>1. /\ run' = run /\ local'.src = local.src
        /\ pc = "snapshot" \/ local'.dest = local.dest
        /\ pc = "read" \/ local'.read = local.read
    BY <1>4, Control, Frame
  <2>2. \A i : OwnFile(i)' <=> OwnFile(i)
    BY <2>1 DEF OwnFile, Name
  <2>3. ASSUME NEW i, Expendable(i) PROVE Expendable(i)'
    <3>1. CASE OwnFile(i)
      BY <2>2, <3>1 DEF Expendable
    <3>2. CASE /\ local.dest # Nil /\ i = local.dest.ino /\ local.read # Nil /\ BytesKept
      <4>1. pc \notin {"snapshot", "read"}
        BY <1>1, <3>2 DEF KnowledgeInv, ToRead
      <4> QED BY <2>1, <3>2, <4>1, KeptStays DEF Expendable
    <3> QED BY <2>3, <3>1, <3>2 DEF Expendable
  <2>4. ASSUME NEW k \in Kinds
        PROVE  \/ local'.art[k] \in {Nil, local.art[k], Name("stage"), Name("base")}
               \/ /\ pc \in {"guard", "exchanged"} /\ local'.art[k] = local.dest.ino
    <3>1. CASE /\ pc = "guard" /\ Ino(IdentityAt(Name("guard"))) = local.dest.ino
               /\ local' = [local EXCEPT !.guarded = IdentityAt(Name("guard")),
                                         !.art["guard"] = IdentityAt(Name("guard")).ino]
      <4>1. local.dest \in Identities /\ IdentityAt(Name("guard")).ino = local.dest.ino
        BY <1>1, <3>1 DEF KnowledgeInv, Guarding, Locals, Identities, Ino
      <4>2. local'.art = [local.art EXCEPT !["guard"] = IdentityAt(Name("guard")).ino]
        BY <1>1, <3>1 DEF Locals
      <4> QED BY <1>1, <3>1, <4>1, <4>2 DEF Locals
    <3>2. CASE /\ pc = "exchanged" /\ dir[Name("stage")] = local.guarded.ino
               /\ local' = [local EXCEPT !.art["stage"] = dir[Name("stage")]]
      <4>1. local.guarded.ino = local.dest.ino
        BY <1>1, <3>2 DEF KnowledgeInv, Guarded
      <4> QED BY <1>1, <3>2, <4>1 DEF Locals
    <3>3. CASE \E j \in Kinds : local' = [local EXCEPT !.art[j] = Nil]
      BY <1>1, <3>3 DEF Locals
    <3>4. CASE \E v \in {"refused", "current"} :
                  local' = [local EXCEPT !.read = file[dir[Services]].bytes, !.verdict = v]
      BY <1>1, <3>4 DEF Locals
    <3>5. CASE \/ local' = [local EXCEPT !.art["stage"] = Name("stage")]
               \/ local' = [local EXCEPT !.art["base"] = Name("base")]
      BY <1>1, <3>5 DEF Locals
    <3>6. CASE \/ local' = local \/ local' = [local EXCEPT !.left = TRUE]
               \/ local' = [local EXCEPT !.displaced = dir[Name("stage")]]
               \/ local' = [local EXCEPT !.dest = IdentityAt(Services)]
      BY <1>1, <3>6 DEF Locals
    <3> QED BY <1>4, <3>1, <3>2, <3>3, <3>4, <3>5, <3>6, Memory DEF Remembers
  <2>5. pc \in {"guard", "exchanged"} => Expendable(local.dest.ino)
    BY <1>1 DEF Expendable, KnowledgeInv, Validated, Guarding, Guarded
  <2>6. Expendable(Name("stage")) /\ Expendable(Name("base"))
    BY DEF Expendable, OwnFile
  <2> QED BY <1>1, <2>3, <2>4, <2>5, <2>6 DEF ArtifactsInv
<1> QED BY <1>2, <1>3, <1>4, Control

------------------------------------------------------------------------------
(* Every step of the command preserves the invariant,                      *)
LEMMA InstallerKeepsInv == ASSUME Inv, Installer PROVE Inv'
<1>1. TypeOK'
  BY LocalInv, DirectoryInv, Control DEF TypeOK, Inv, bounds
<1> QED BY <1>1, DirectoryInv, KnowledgeKept, ArtifactsKept DEF Inv

(* and so does a crash.                                                    *)
LEMMA CrashKeepsInv == ASSUME Inv, Crash PROVE Inv'
<1>1. TypeOK'
  <2>1. local' \in Locals
    BY LocalTypes DEF Inv, Crash, End
  <2>2. pc' \in Steps /\ crashes' \in 0..MaxCrashes
    BY InventoryAssumption DEF Inv, TypeOK, Crash, End, Steps
  <2>3. outcome' \in [Runs -> Outcomes]
    BY DEF Inv, TypeOK, Crash, End, Outcomes
  <2> QED BY <2>1, <2>2, <2>3 DEF Inv, TypeOK, Crash, End, disk
<1>2. KnowledgeInv'
  BY DEF Crash, End, KnowledgeInv, ToRead, Archiving, Validated, Publishing, Guarding, Guarded
<1>3. ArtifactsInv'
  BY DEF Crash, End, ArtifactsInv, NotRunning, Start, NoArtifacts
<1>4. FreshInv'
  BY DEF Inv, Crash, End, disk, FreshInv, Unborn, ToRead, Archiving
<1>5. DataInv'
  BY DEF Inv, Crash, End, disk, DataInv
<1> QED BY <1>1, <1>2, <1>3, <1>4, <1>5 DEF Inv

(* Whoever else changes the directory makes no file of a later command.    *)
LEMMA OtherKeepsInv == ASSUME Inv, Other PROVE Inv'
<1>1. /\ TypeOK /\ KnowledgeInv /\ ArtifactsInv /\ FreshInv /\ DataInv
      /\ UNCHANGED << pc, run, local, outcome, crashes >> /\ edits' = edits + 1 /\ edits < MaxEdits
      /\ Services \in Names /\ edits' \in 0..MaxEdits
  BY NameFacts, InventoryAssumption DEF Inv, Other, TypeOK
<1>2. /\ Edit(edits') \in Inodes /\ Services # Edit(edits')
      /\ \A r : Edit(edits') # << "stage", r >> /\ Edit(edits') # << "base", r >>
  BY <1>1, InventoryAssumption DEF Edit, Inodes, TypeOK, Services
<1>3. Save \/ WriteInPlace \/ Remove \/ PutSnapshot
  BY DEF Other
<1> USE DEF Save, WriteInPlace, Remove, PutSnapshot, Link
<1> DEFINE Contents == [bytes : Bytes \cup {NoBytes}, ver : Nat, private : BOOLEAN]
<1>4. TypeOK'
  <2>1. /\ dir \in [Names -> Inodes \cup {Nil}] /\ file \in [Inodes -> Contents]
        /\ hist \in [Bytes -> Bytes \cup {Nil}]
    BY <1>1 DEF TypeOK
  <2>2. /\ dir' \in [Names -> Inodes \cup {Nil}] /\ file' \in [Inodes -> Contents]
        /\ hist' \in [Bytes -> Bytes \cup {Nil}]
    <3>1. CASE Save
      BY <1>1, <1>2, <2>1, <3>1 DEF Fresh
    <3>2. CASE WriteInPlace
      BY <1>1, <2>1, <3>2
    <3>3. CASE Remove
      BY <1>1, <2>1, <3>3
    <3>4. CASE PutSnapshot
      BY <1>1, <2>1, <3>4
    <3> QED BY <1>3, <3>1, <3>2, <3>3, <3>4
  <2> QED BY <1>1, <2>2 DEF TypeOK
<1>5. local.read # Nil /\ BytesKept => BytesKept'
  <2>1. \A b \in Bytes : hist[b] = b => hist'[b] = b
    BY ZenonT(60), <1>1, <1>3, InventoryAssumption DEF TypeOK
  <2> QED BY <1>1, <2>1, InventoryAssumption DEF BytesKept, TypeOK, Locals
<1>6. KnowledgeInv'
  <2>1. local.read # Nil /\ BytesKept => BytesKept'
    BY <1>5
  <2>2. pc = "rebytes" => local.read # Nil
    BY <1>1 DEF KnowledgeInv, Archiving
  <2> QED BY <1>1, <2>1, <2>2 DEF KnowledgeInv
<1>7. ArtifactsInv'
  BY <1>1, <1>5 DEF ArtifactsInv, Expendable, OwnFile, Name
<1>8. FreshInv'
  <2>1. /\ \A r : Unborn(r)' <=> Unborn(r)
        /\ \A k : Name(k)' = Name(k)
    BY <1>1 DEF Unborn, Name
  <2>2. /\ dir' \in [Names -> Inodes \cup {Nil}] /\ dir \in [Names -> Inodes \cup {Nil}]
    BY <1>1, <1>4 DEF TypeOK
  <2>3. /\ \A n \in Names : n # Services => dir'[n] \in {dir[n], Nil}
        /\ \A n \in Names : dir'[n] \in {dir[n], Nil, Edit(edits')}
    <3>1. CASE Save
      BY <1>1, <2>2, <3>1
    <3>2. CASE WriteInPlace \/ PutSnapshot
      BY <3>2
    <3>3. CASE Remove
      BY <2>2, <3>3
    <3> QED BY <1>3, <3>1, <3>2, <3>3
  <2>4. \A r \in Runs, k \in Kinds : << k, r >> \in Names /\ << k, r >> # Services /\ << "stage", r >> \in Inodes
    BY NameFacts
  <2>5. pc # "idle" => /\ run \in Runs /\ \A k \in Kinds : Name(k) \in Names /\ Name(k) # Services
    BY <1>1, NameFacts DEF KnowledgeInv
  <2>6. "stage" \in Kinds /\ "base" \in Kinds /\ "guard" \in Kinds
    BY DEF Kinds
  <2>7. ASSUME NEW r \in Runs, Unborn(r)
        PROVE  /\ \A k \in Kinds : dir'[<< k, r >>] = Nil
               /\ \A n \in Names : dir'[n] # << "stage", r >>
    <3>1. /\ \A k \in Kinds : dir[<< k, r >>] = Nil
          /\ \A n \in Names : dir[n] # << "stage", r >>
      BY <1>1, <2>7 DEF FreshInv
    <3>2. << "stage", r >> \notin {Nil, Edit(edits')}
      BY <1>2, <2>4, <2>6, InodeAssumption
    <3> QED BY <2>3, <2>4, <3>1, <3>2
  <2>8. /\ pc \in ToRead \cup Archiving \cup {"recheck", "base"} =>
               dir'[Name("base")] = Nil /\ dir'[Name("guard")] = Nil
        /\ pc = "link" => dir'[Name("guard")] = Nil
        /\ pc = "write" => dir'[Name("stage")] \in {Nil, Name("stage")}
    BY <1>1, <2>3, <2>5, <2>6 DEF FreshInv, ToRead, Archiving
  <2> QED BY <1>1, <2>1, <2>7, <2>8 DEF FreshInv
<1>9. DataInv'
  <2>1. /\ dir' \in [Names -> Inodes \cup {Nil}] /\ dir \in [Names -> Inodes \cup {Nil}]
        /\ file' \in [Inodes -> Contents] /\ file \in [Inodes -> Contents]
    BY <1>1, <1>4 DEF TypeOK
  <2>2. /\ pc # "idle" => Name("stage") \in Names /\ Name("stage") # Services
        /\ Name("stage")' = Name("stage")
    BY <1>1, NameFacts DEF KnowledgeInv, Kinds, Name
  <2>3. CASE Save
    BY <1>1, <1>2, <2>1, <2>2, <2>3 DEF DataInv, Fresh
  <2>4. CASE WriteInPlace
    BY <1>1, <2>1, <2>2, <2>4 DEF DataInv
  <2>5. CASE Remove
    BY <1>1, <2>1, <2>2, <2>5 DEF DataInv
  <2>6. CASE PutSnapshot
    BY <1>1, <2>2, <2>6 DEF DataInv
  <2> QED BY <1>3, <2>3, <2>4, <2>5, <2>6
<1> QED BY <1>4, <1>6, <1>7, <1>8, <1>9 DEF Inv

------------------------------------------------------------------------------
(* The invariant is inductive.                                             *)
LEMMA Inductive == Spec => []Inv
<1>1. ASSUME Inv, [Next]_vars PROVE Inv'
  <2>1. CASE UNCHANGED vars
    BY <1>1, <2>1 DEF vars, Inv, TypeOK, KnowledgeInv, ArtifactsInv, FreshInv, DataInv,
                      BytesKept, Expendable, OwnFile, Unborn, Name
  <2> QED BY <1>1, <2>1, InstallerKeepsInv, CrashKeepsInv, OtherKeepsInv DEF Next
<1> QED BY <1>1, InitInv, PTL DEF Spec

(* The variables of the command keep their types: it never holds an inode  *)
(* or an identity that it did not read from the directory.                 *)
THEOREM InventoryTypeCorrect == Spec => []TypeOK
BY Inductive, PTL DEF Inv

(* In whatever order other programs save, rewrite or remove files meanwhile, *)
(* what the command takes the last name of is its own or is archived (but    *)
(* for the rename of the fallback).                                          *)
THEOREM InventoryKept == Spec => NoInventoryLost
<1>1. ASSUME Inv, [Next]_vars, InstallerStep, NEW i \in Inodes, Linked(i), ~Linked(i)'
      PROVE  Expendable(i) \/ (pc = "rename" /\ i = dir[Services])
  <2>1. CASE UNCHANGED vars
    BY <1>1, <2>1 DEF vars, Linked
  <2>2. CASE Installer
    <3>1. PICK n \in Names : dir[n] = i
      BY <1>1 DEF Linked
    <3>2. \A m \in Names : dir'[m] # i
      BY <1>1 DEF Linked
    <3>3. /\ dir \in [Names -> Inodes \cup {Nil}] /\ Nil \notin Inodes /\ Services \in Names
          /\ FreshInv /\ ArtifactsInv /\ KnowledgeInv
      BY <1>1, NameFacts, InodeAssumption DEF Inv, TypeOK
    <3>4. pc # "idle"
      BY <1>1, <2>2, <3>1, <3>2, Control DEF Begin, disk
    <3>5. /\ run \in Runs /\ \A k \in Kinds : Name(k) \in Names /\ Name(k) # Services
          /\ Name("stage") \in Names /\ Name("base") \in Names /\ Name("guard") \in Names
          /\ Name("stage") # Services /\ Name("base") # Services /\ Name("guard") # Services
      BY <3>3, <3>4, NameFacts DEF KnowledgeInv, Kinds
    <3>6. CASE Stage
      <4>1. dir[Name("stage")] = Nil
        BY <3>3, <3>5, <3>6 DEF Stage, FreshInv, Unborn, Name, Kinds
      <4> QED BY <3>1, <3>2, <3>3, <3>5, <3>6, <4>1 DEF Stage
    <3>7. CASE GuardBase
      BY <3>1, <3>2, <3>3, <3>5, <3>7 DEF GuardBase, FreshInv
    <3>8. CASE pc = "link" /\ Link(Name("guard"), dir[Services])
      BY <3>1, <3>2, <3>3, <3>5, <3>8 DEF Link, FreshInv
    <3>9. CASE UNCHANGED dir \/ Swap(Name("stage"), Services)
      BY <3>1, <3>2, <3>3, <3>5, <3>9 DEF Swap
    <3>10. CASE dir[Services] = Nil /\ Move(Name("stage"), Services)
      BY <3>1, <3>2, <3>3, <3>5, <3>10 DEF Move
    <3>11. CASE pc = "rename" /\ Move(Name("stage"), Services)
      BY <3>1, <3>2, <3>3, <3>5, <3>11 DEF Move
    <3>12. CASE \E k \in Kinds : local.art[k] # Nil /\ Holds(k) /\ Link(Name(k), Nil)
      <4>1. PICK k \in Kinds : local.art[k] # Nil /\ Holds(k) /\ Link(Name(k), Nil)
        BY <3>12
      <4>2. i = local.art[k]
        BY <3>1, <3>2, <3>3, <3>5, <4>1 DEF Link, Holds
      <4> QED BY <3>3, <4>1, <4>2 DEF ArtifactsInv
    <3> QED BY <2>2, <3>6, <3>7, <3>8, <3>9, <3>10, <3>11, <3>12, Effects
            DEF Changes, disk, Write, PublishSnapshot
  <2>3. CASE Crash
    BY <1>1, <2>3 DEF Crash, InstallerStep, Inv, TypeOK
  <2>4. CASE Other
    BY <1>1, <2>4 DEF Other, InstallerStep, Inv, TypeOK
  <2> QED BY <1>1, <2>1, <2>2, <2>3, <2>4 DEF Next
<1>2. Inv /\ [Next]_vars =>
         (InstallerStep =>
            \A i \in Inodes : Linked(i) /\ ~Linked(i)' =>
                Expendable(i) \/ (pc = "rename" /\ i = dir[Services]))
  BY <1>1
<1> QED BY <1>2, Inductive, PTL DEF Spec, NoInventoryLost

(* No inventory is replaced by the command before its bytes are archived,  *)
(* on both ways of publication.                                            *)
THEOREM ArchivedBeforeReplaced == Spec => ArchivedFirst
<1>1. ASSUME Inv, [Next]_vars, InstallerStep, local.dest # Nil, dir[Services] = local.dest.ino,
             dir'[Services] # dir[Services]
      PROVE  BytesKept
  <2>1. Installer
    BY <1>1 DEF Next, InstallerStep, vars, Crash, Other, Inv, TypeOK
  <2>2. /\ dir \in [Names -> Inodes \cup {Nil}] /\ KnowledgeInv /\ Services \in Names
        /\ local.dest.ino # Nil
    BY <1>1, NameFacts, InodeAssumption DEF Inv, TypeOK, Locals, Identities
  <2>3. pc # "idle"
    BY <1>1, <2>1, Control DEF Begin, disk
  <2>4. /\ \A k \in Kinds : Name(k) \in Names /\ Name(k) # Services
        /\ Name("stage") # Services /\ Name("base") # Services /\ Name("guard") # Services
    BY <2>2, <2>3, NameFacts DEF KnowledgeInv, Kinds
  <2>5. pc \in {"exchange", "restore", "rename"}
    BY <1>1, <2>1, <2>2, <2>4, Effects
       DEF Changes, disk, Stage, Write, PublishSnapshot, GuardBase, Link
  <2> QED BY <1>1, <2>2, <2>5 DEF KnowledgeInv, Validated, Guarding, Guarded
<1>2. Inv /\ [Next]_vars =>
         (InstallerStep /\ local.dest # Nil /\ dir[Services] = local.dest.ino
             /\ dir'[Services] # dir[Services] => BytesKept)
  BY <1>1
<1> QED BY <1>2, Inductive, PTL DEF Spec, ArchivedFirst
------------------------------------------------------------------------------
(* Where the file of a command may be, and what a command that refused has *)
(* left: a second invariant, on top of the first.                          *)
Placing == {"published", "exchanged", "restore", "restored", "renamed",
            "unguard", "unbase", "unstage", "done"}
Parsed == {"read"} \cup Archiving \cup {"recheck", "publish", "base", "link", "guard",
                                        "compare", "exchange", "fallback", "rename"}
Settled == {"refused", "warned", "current"}

(* From its writing to its placing the stage is the command's own file, and  *)
(* from parsing on it holds an inventory that parses.                        *)
StagedInv ==
    /\ pc \in {"parse"} \cup Parsed => local.art["stage"] = Name("stage")
    /\ pc = "parse" => file[Name("stage")].bytes = local.src
    /\ pc \in Parsed => file[Name("stage")].bytes \in ValidBytes

(* Only a command that is placing its file may have it in place; what the    *)
(* exchange displaced, and puts back, is not that file.                      *)
PlacedInv ==
    /\ pc \notin Placing \cup {"idle"} => dir[Services] # Name("stage")
    /\ pc \in {"exchanged", "restore"} => dir[Name("stage")] # Name("stage")
    /\ pc \in {"restore", "restored"} => local.displaced # Name("stage")

(* The file of a command that refused is under no name that matters to       *)
(* the command that runs now.                                                *)
SettledInv ==
    /\ \A r \in Runs : r > run \/ (r = run /\ pc # "idle") => outcome[r] = "none"
    /\ \A r \in Runs : outcome[r] \in Settled =>
           /\ dir[Services] # << "stage", r >>
           /\ pc # "idle" => dir[Name("stage")] # << "stage", r >>

Published == StagedInv /\ PlacedInv /\ SettledInv

(* Only a step of the command that names the inventory changes what the    *)
(* command knows about its own file.                                       *)
LEMMA PlacedKept == ASSUME Inv, Published, Installer PROVE StagedInv' /\ PlacedInv'
<1>a. /\ dir \in [Names -> Inodes \cup {Nil}] /\ Services \in Names /\ local \in Locals
      /\ file \in [Inodes -> [bytes : Bytes \cup {NoBytes}, ver : Nat, private : BOOLEAN]]
      /\ StagedInv /\ PlacedInv
  BY NameFacts DEF Inv, TypeOK, Published
<1>b. pc # "idle" =>
         /\ \A k \in Kinds : Name(k) \in Names /\ Name(k) # Services
         /\ Name("stage") \in Names /\ Name("base") \in Names /\ Name("guard") \in Names
         /\ Name("stage") # Name("base") /\ Name("stage") # Name("guard")
         /\ Name("stage") # Services /\ Name("base") # Services /\ Name("guard") # Services
         /\ Name("stage") \in Inodes /\ Name("base") \in Inodes
  BY NameFacts DEF Inv, KnowledgeInv, Kinds
<1>c. pc # "idle" => Name("stage")' = Name("stage")
  BY Control DEF Begin, Name
<1>d. /\ Name("stage") # Name("base")
      /\ pc # "idle" => Name("stage") # Nil
  BY <1>b, InodeAssumption DEF Name
<1>e. Begin => dir'[Services] # Name("stage")'
  <2>1. Begin => run + 1 \in Runs /\ Unborn(run + 1) /\ run' = run + 1 /\ UNCHANGED dir
    BY InventoryAssumption DEF Begin, Inv, TypeOK, Runs, Unborn, disk
  <2> QED BY <1>a, <2>1 DEF Inv, FreshInv, Name
<1> USE DEF StagedInv, PlacedInv, Parsed, Archiving, Placing, Goto, End, Die, Preserve,
            Holds, Link, Swap, Move, disk, Locals, Kinds
<1>1. CASE Begin
  BY <1>1, <1>a, <1>b, <1>c, <1>d, <1>e DEF Begin
<1>2. CASE Snapshot
  BY <1>2, <1>a, <1>b, <1>c, <1>d, <1>e DEF Snapshot
<1>3. CASE Stage
  BY <1>3, <1>a, <1>b, <1>c, <1>d, <1>e DEF Stage
<1>4. CASE Write
  BY <1>4, <1>a, <1>b, <1>c, <1>d, <1>e DEF Write
<1>5. CASE Parse
  BY <1>5, <1>a, <1>b, <1>c, <1>d, <1>e DEF Parse
<1>6. CASE Read
  BY <1>6, <1>a, <1>b, <1>c, <1>d, <1>e DEF Read
<1>7. CASE Archive
  BY <1>7, <1>a, <1>b, <1>c, <1>d, <1>e DEF Archive
<1>8. CASE PublishSnapshot
  BY <1>8, <1>a, <1>b, <1>c, <1>d, <1>e DEF PublishSnapshot
<1>9. CASE VerifySnapshot
  BY <1>9, <1>a, <1>b, <1>c, <1>d, <1>e DEF VerifySnapshot
<1>10. CASE RecheckBytes
  BY <1>10, <1>a, <1>b, <1>c, <1>d, <1>e DEF RecheckBytes
<1>11. CASE Recheck
  BY <1>11, <1>a, <1>b, <1>c, <1>d, <1>e DEF Recheck
<1>12. CASE PublishNew
  BY <1>12, <1>a, <1>b, <1>c, <1>d, <1>e DEF PublishNew
<1>13. CASE PublishedNew
  BY <1>13, <1>a, <1>b, <1>c, <1>d, <1>e DEF PublishedNew
<1>14. CASE GuardBase
  BY <1>14, <1>a, <1>b, <1>c, <1>d, <1>e DEF GuardBase
<1>15. CASE GuardLink
  BY <1>15, <1>a, <1>b, <1>c, <1>d, <1>e DEF GuardLink
<1>16. CASE GuardCheck
  <2>1. /\ pc = "guard" /\ pc' \in {"compare", "fallback", "clean_stage"}
        /\ dir' = dir /\ file' = file
    BY <1>16 DEF GuardCheck
  <2>2. \/ local' = local
        \/ local' = [local EXCEPT !.guarded = IdentityAt(Name("guard")),
                                   !.art["guard"] = IdentityAt(Name("guard")).ino]
    BY <1>16 DEF GuardCheck
  <2>3. local'.art["stage"] = local.art["stage"]
    <3> DEFINE ino == IdentityAt(Name("guard")).ino
    <3>1. local'.art = local.art \/ local'.art = [local.art EXCEPT !["guard"] = ino]
      BY <1>a, <2>2
    <3> QED BY <1>a, <3>1
  <2>4. StagedInv'
    BY <2>1, <2>3, <1>a, <1>c
  <2>5. PlacedInv'
    BY <2>1, <1>a, <1>c
  <2> QED BY <2>4, <2>5
<1>17. CASE Compare
  BY <1>17, <1>a, <1>b, <1>c, <1>d, <1>e DEF Compare
<1>18. CASE Exchange
  BY <1>18, <1>a, <1>b, <1>c, <1>d, <1>e DEF Exchange
<1>19. CASE Exchanged
  BY <1>19, <1>a, <1>b, <1>c, <1>d, <1>e DEF Exchanged
<1>20. CASE Restore
  BY <1>20, <1>a, <1>b, <1>c, <1>d, <1>e DEF Restore
<1>21. CASE Restored
  BY <1>21, <1>a, <1>b, <1>c, <1>d, <1>e DEF Restored
<1>22. CASE Fallback
  BY <1>22, <1>a, <1>b, <1>c, <1>d, <1>e DEF Fallback
<1>23. CASE Rename
  BY <1>23, <1>a, <1>b, <1>c, <1>d, <1>e DEF Rename
<1>24. CASE Renamed
  BY <1>24, <1>a, <1>b, <1>c, <1>d, <1>e DEF Renamed
<1>25. CASE Unguard("guard", "unguard", "unbase")
  BY <1>25, <1>a, <1>b, <1>c, <1>d, <1>e DEF Unguard, Unlink
<1>26. CASE Unguard("base", "unbase", "unstage")
  BY <1>26, <1>a, <1>b, <1>c, <1>d, <1>e DEF Unguard, Unlink
<1>27. CASE Unguard("stage", "unstage", "done")
  BY <1>27, <1>a, <1>b, <1>c, <1>d, <1>e DEF Unguard, Unlink
<1>28. CASE Done
  BY <1>28, <1>a, <1>b, <1>c, <1>d, <1>e DEF Done
<1>29. CASE Clean("stage", "clean_stage", "clean_guard")
  BY <1>29, <1>a, <1>b, <1>c, <1>d, <1>e DEF Clean, Unlink
<1>30. CASE Clean("guard", "clean_guard", "clean_base")
  BY <1>30, <1>a, <1>b, <1>c, <1>d, <1>e DEF Clean, Unlink
<1>31. CASE Clean("base", "clean_base", "cleaned")
  BY <1>31, <1>a, <1>b, <1>c, <1>d, <1>e DEF Clean, Unlink
<1>32. CASE Cleaned
  BY <1>32, <1>a, <1>b, <1>c, <1>d, <1>e DEF Cleaned
<1> QED
  BY <1>1, <1>2, <1>3, <1>4, <1>5, <1>6, <1>7, <1>8, <1>9, <1>10,
     <1>11, <1>12, <1>13, <1>14, <1>15, <1>16, <1>17, <1>18, <1>19, <1>20,
     <1>21, <1>22, <1>23, <1>24, <1>25, <1>26, <1>27, <1>28, <1>29, <1>30,
     <1>31, <1>32 DEF Installer

(* How a command ends: only after the cleanup does it say that it refused. *)
LEMMA Verdicts ==
    ASSUME Inv, Installer
    PROVE  /\ \A r \in Runs : r # run \/ pc' # "idle" => outcome'[r] = outcome[r]
           /\ pc' = "idle" /\ outcome'[run] \in Settled => pc = "cleaned" /\ UNCHANGED disk
<1>a. outcome \in [Runs -> Outcomes] /\ (pc # "idle" => run \in Runs)
  BY DEF Inv, TypeOK, KnowledgeInv
<1> USE DEF Goto, End, Die, Preserve, Settled
<1>1. CASE Begin
  BY <1>1, <1>a DEF Begin
<1>2. CASE Snapshot
  BY <1>2, <1>a DEF Snapshot
<1>3. CASE Stage
  BY <1>3, <1>a DEF Stage
<1>4. CASE Write
  BY <1>4, <1>a DEF Write
<1>5. CASE Parse
  BY <1>5, <1>a DEF Parse
<1>6. CASE Read
  BY <1>6, <1>a DEF Read
<1>7. CASE Archive
  BY <1>7, <1>a DEF Archive
<1>8. CASE PublishSnapshot
  BY <1>8, <1>a DEF PublishSnapshot
<1>9. CASE VerifySnapshot
  BY <1>9, <1>a DEF VerifySnapshot
<1>10. CASE RecheckBytes
  BY <1>10, <1>a DEF RecheckBytes
<1>11. CASE Recheck
  BY <1>11, <1>a DEF Recheck
<1>12. CASE PublishNew
  BY <1>12, <1>a DEF PublishNew
<1>13. CASE PublishedNew
  BY <1>13, <1>a DEF PublishedNew
<1>14. CASE GuardBase
  BY <1>14, <1>a DEF GuardBase
<1>15. CASE GuardLink
  BY <1>15, <1>a DEF GuardLink
<1>16. CASE GuardCheck
  BY <1>16, <1>a DEF GuardCheck
<1>17. CASE Compare
  BY <1>17, <1>a DEF Compare
<1>18. CASE Exchange
  BY <1>18, <1>a DEF Exchange
<1>19. CASE Exchanged
  BY <1>19, <1>a DEF Exchanged
<1>20. CASE Restore
  BY <1>20, <1>a DEF Restore
<1>21. CASE Restored
  BY <1>21, <1>a DEF Restored
<1>22. CASE Fallback
  BY <1>22, <1>a DEF Fallback
<1>23. CASE Rename
  BY <1>23, <1>a DEF Rename
<1>24. CASE Renamed
  BY <1>24, <1>a DEF Renamed
<1>25. CASE Unguard("guard", "unguard", "unbase")
  BY <1>25, <1>a DEF Unguard, Unlink
<1>26. CASE Unguard("base", "unbase", "unstage")
  BY <1>26, <1>a DEF Unguard, Unlink
<1>27. CASE Unguard("stage", "unstage", "done")
  BY <1>27, <1>a DEF Unguard, Unlink
<1>28. CASE Done
  BY <1>28, <1>a DEF Done
<1>29. CASE Clean("stage", "clean_stage", "clean_guard")
  BY <1>29, <1>a DEF Clean, Unlink
<1>30. CASE Clean("guard", "clean_guard", "clean_base")
  BY <1>30, <1>a DEF Clean, Unlink
<1>31. CASE Clean("base", "clean_base", "cleaned")
  BY <1>31, <1>a DEF Clean, Unlink
<1>32. CASE Cleaned
  BY <1>32, <1>a DEF Cleaned
<1> QED
  BY <1>1, <1>2, <1>3, <1>4, <1>5, <1>6, <1>7, <1>8, <1>9, <1>10,
     <1>11, <1>12, <1>13, <1>14, <1>15, <1>16, <1>17, <1>18, <1>19, <1>20,
     <1>21, <1>22, <1>23, <1>24, <1>25, <1>26, <1>27, <1>28, <1>29, <1>30,
     <1>31, <1>32 DEF Installer

(* A command that refused is left alone by the commands after it.          *)
LEMMA SettledKept == ASSUME Inv, Published, Installer PROVE SettledInv'
<1>1. /\ dir \in [Names -> Inodes \cup {Nil}] /\ Services \in Names /\ Nil \notin Inodes
      /\ outcome \in [Runs -> Outcomes] /\ run \in 0..MaxRuns /\ MaxRuns \in Nat
      /\ SettledInv /\ PlacedInv /\ FreshInv
      /\ \A r \in Runs : << "stage", r >> \in Inodes
  BY NameFacts, InodeAssumption, InventoryAssumption DEF Inv, TypeOK, Published
<1>2. CASE Begin
  <2>1. /\ run + 1 \in Runs /\ Unborn(run + 1) /\ run' = run + 1 /\ pc = "idle"
        /\ UNCHANGED << dir, outcome >>
    BY <1>1, <1>2 DEF Begin, Runs, Unborn, disk
  <2>2. dir'[Name("stage")'] = Nil
    BY <1>1, <2>1 DEF FreshInv, Name, Kinds
  <2> QED BY <1>1, <2>1, <2>2 DEF SettledInv, Runs
<1>3. CASE ~Begin
  <2>1. /\ pc # "idle" /\ run' = run /\ run \in Runs /\ Name("stage")' = Name("stage")
    BY <1>3, Control DEF Name
  <2>2. /\ \A k \in Kinds : Name(k) \in Names /\ Name(k) # Services
        /\ Name("stage") \in Names /\ Name("base") \in Names /\ Name("guard") \in Names
        /\ Name("stage") # Name("base") /\ Name("stage") # Name("guard")
        /\ Name("stage") # Services /\ Name("base") # Services /\ Name("guard") # Services
    BY <2>1, NameFacts DEF Kinds
  <2>3. \A r \in Runs : r > run \/ (r = run /\ pc' # "idle") => outcome'[r] = "none"
    BY <1>1, <2>1, Verdicts DEF SettledInv, Runs
  <2>4. ASSUME NEW r \in Runs, outcome'[r] \in Settled
        PROVE  /\ dir'[Services] # << "stage", r >>
               /\ pc' # "idle" => dir'[Name("stage")] # << "stage", r >>
    <3>1. CASE r = run
      <4>1. pc' = "idle" /\ pc = "cleaned" /\ UNCHANGED disk
        BY <1>1, <2>1, <2>3, <2>4, <3>1, Verdicts DEF Settled
      <4> QED BY <1>1, <3>1, <4>1 DEF PlacedInv, Placing, Name, disk
    <3>2. CASE r # run
      <4>1. outcome[r] \in Settled
        BY <2>4, <3>2, Verdicts
      <4>2. dir[Services] # << "stage", r >> /\ dir[Name("stage")] # << "stage", r >>
        BY <1>1, <2>1, <4>1 DEF SettledInv
      <4>3. << "stage", r >> \notin {Nil, Name("stage")}
        BY <1>1, <3>2 DEF Name
      <4>4. CASE UNCHANGED dir
        BY <4>2, <4>4
      <4>5. CASE Stage
        BY <1>1, <2>2, <4>2, <4>3, <4>5 DEF Stage
      <4>6. CASE GuardBase
        BY <1>1, <2>2, <4>2, <4>6 DEF GuardBase
      <4>7. CASE Link(Name("guard"), dir[Services])
        BY <1>1, <2>2, <4>2, <4>7 DEF Link
      <4>8. CASE Swap(Name("stage"), Services)
        BY <1>1, <2>2, <4>2, <4>8 DEF Swap
      <4>9. CASE Move(Name("stage"), Services)
        BY <1>1, <2>2, <4>2, <4>3, <4>9 DEF Move
      <4>10. CASE \E k \in Kinds : Link(Name(k), Nil)
        BY <1>1, <2>2, <4>2, <4>3, <4>10 DEF Link
      <4> QED BY <4>4, <4>5, <4>6, <4>7, <4>8, <4>9, <4>10, Effects
              DEF Changes, Write, PublishSnapshot, disk
    <3> QED BY <3>1, <3>2
  <2> QED BY <2>1, <2>3, <2>4 DEF SettledInv
<1> QED BY <1>2, <1>3

(* A crash ends the command without a verdict.                             *)
LEMMA CrashKeepsPublished == ASSUME Inv, Published, Crash PROVE Published'
<1>1. pc' = "idle" /\ run' = run /\ UNCHANGED disk /\ outcome' = [outcome EXCEPT ![run] = "crashed"]
  BY DEF Crash, End
<1>2. SettledInv'
  <2>1. /\ outcome \in [Runs -> Outcomes] /\ run \in 0..MaxRuns /\ MaxRuns \in Nat /\ SettledInv
    BY InventoryAssumption DEF Inv, TypeOK, Published
  <2> QED BY <1>1, <2>1 DEF SettledInv, Settled, Runs, disk
<1> QED BY <1>1, <1>2 DEF Published, StagedInv, PlacedInv, Parsed, Archiving

(* Others put no file of a command under services.yml, and write in place  *)
(* only into what they find there.                                         *)
LEMMA OtherKeepsPublished == ASSUME Inv, Published, Other PROVE Published'
<1>1. /\ dir \in [Names -> Inodes \cup {Nil}] /\ Services \in Names /\ Nil \notin Inodes
      /\ file \in [Inodes -> [bytes : Bytes \cup {NoBytes}, ver : Nat, private : BOOLEAN]]
      /\ UNCHANGED << pc, run, local, outcome, crashes >> /\ Name("stage")' = Name("stage")
      /\ StagedInv /\ PlacedInv /\ SettledInv
      /\ \A r \in Runs : << "stage", r >> \in Inodes
      /\ pc # "idle" => run \in Runs
  BY NameFacts, InodeAssumption DEF Inv, TypeOK, KnowledgeInv, Published, Other, Name
<1>2. /\ pc # "idle" => /\ Name("stage") \in Names /\ Name("stage") # Services
                        /\ Name("stage") \in Inodes /\ Name("stage") # Nil
      /\ \A k, r : Edit(k) # << "stage", r >>
      /\ Edit(edits') # Name("stage")
  BY <1>1, NameFacts DEF Kinds, Edit, Name
<1>3. /\ \A n \in Names : n # Services => dir'[n] \in {dir[n], Nil}
      /\ dir'[Services] \in {dir[Services], Nil, Edit(edits')}
  <2>1. CASE Save
    BY <1>1, <2>1 DEF Save
  <2>2. CASE WriteInPlace \/ PutSnapshot
    BY <2>2 DEF WriteInPlace, PutSnapshot
  <2>3. CASE Remove
    BY <1>1, <2>3 DEF Remove, Link
  <2> QED BY <2>1, <2>2, <2>3 DEF Other
<1>4. pc # "idle" /\ dir[Services] # Name("stage") => file'[Name("stage")] = file[Name("stage")]
  <2>1. CASE Save
    BY <1>1, <1>2, <2>1 DEF Save
  <2>2. CASE WriteInPlace
    BY <1>1, <1>2, <2>2 DEF WriteInPlace
  <2>3. CASE Remove \/ PutSnapshot
    BY <2>3 DEF Remove, Link, PutSnapshot
  <2> QED BY <2>1, <2>2, <2>3 DEF Other
<1>5. StagedInv'
  BY <1>1, <1>4 DEF StagedInv, PlacedInv, Parsed, Archiving, Placing
<1>6. PlacedInv'
  BY <1>1, <1>2, <1>3 DEF PlacedInv, Placing
<1>7. SettledInv'
  BY <1>1, <1>2, <1>3 DEF SettledInv
<1> QED BY <1>5, <1>6, <1>7 DEF Published

(* The second invariant holds in every reachable state.                    *)
LEMMA PublicationInductive == Spec => [](Inv /\ Published)
<1>1. Init => Published
  <2> SUFFICES ASSUME Init PROVE Published
    OBVIOUS
  <2>1. \A r \in Runs : outcome[r] = "none"
    BY DEF Init
  <2> QED BY <2>1 DEF Init, Published, StagedInv, PlacedInv, SettledInv, Settled,
                            Parsed, Archiving
<1>2. ASSUME Inv, Published, [Next]_vars PROVE Published'
  <2>1. CASE UNCHANGED vars
    BY <1>2, <2>1 DEF vars, Published, StagedInv, PlacedInv, SettledInv, Name
  <2> QED BY <1>2, <2>1, PlacedKept, SettledKept, CrashKeepsPublished, OtherKeepsPublished
          DEF Next, Published
<1> QED BY <1>1, <1>2, Inductive, PTL DEF Spec

(* Whatever other programs do meanwhile, a command that reports a refusal  *)
(* has not left its file as the inventory, nor does a later command put it *)
(* there.                                                                  *)
THEOREM RefusedNeverPublished == Spec => []RefusedIsNotPublished
<1>1. Published => RefusedIsNotPublished
  BY DEF Published, SettledInv, Settled, RefusedIsNotPublished
<1> QED BY <1>1, PublicationInductive, PTL

(* No step of the command, on either way of publication, leaves the PKI    *)
(* without the inventory it had, nor with staged bytes that do not parse.  *)
THEOREM ActiveAlwaysWhole == Spec => ActiveStaysWhole
<1>1. ASSUME Inv, Published, [Next]_vars, InstallerStep, dir'[Services] # dir[Services]
      PROVE  /\ dir'[Services] # Nil
             /\ dir'[Services] = Name("stage") => file[Name("stage")].bytes \in ValidBytes
  <2>1. Installer
    BY <1>1 DEF Next, InstallerStep, vars, Crash, Other, Inv, TypeOK
  <2>2. /\ dir \in [Names -> Inodes \cup {Nil}] /\ Services \in Names
        /\ StagedInv /\ PlacedInv /\ KnowledgeInv
    BY <1>1, NameFacts DEF Inv, TypeOK, Published
  <2>3. pc # "idle"
    BY <1>1, <2>1, Control DEF Begin, disk
  <2>4. /\ \A k \in Kinds : Name(k) \in Names /\ Name(k) # Services
        /\ Name("stage") \in Names /\ Name("stage") \in Inodes /\ Name("stage") # Nil
        /\ Name("stage") # Services /\ Name("base") # Services /\ Name("guard") # Services
    BY <2>2, <2>3, NameFacts, InodeAssumption DEF KnowledgeInv, Kinds
  <2>5. \/ /\ pc \in {"exchange", "restore"} /\ dir[Name("stage")] # Nil
           /\ Swap(Name("stage"), Services)
        \/ pc = "publish" /\ Holds("stage") /\ Move(Name("stage"), Services)
        \/ pc = "rename" /\ dir[Name("stage")] # Nil /\ Move(Name("stage"), Services)
    BY <1>1, <2>1, <2>2, <2>4, Effects
       DEF Changes, disk, Stage, Write, PublishSnapshot, GuardBase, Link
  <2>6. dir'[Services] = dir[Name("stage")] /\ pc \in {"exchange", "restore", "publish", "rename"}
    BY <2>2, <2>4, <2>5 DEF Swap, Move
  <2>7. dir[Name("stage")] # Nil
    BY <2>2, <2>4, <2>5 DEF StagedInv, Parsed, Holds
  <2> QED BY <2>2, <2>6, <2>7 DEF StagedInv, PlacedInv, Parsed
<1>2. Inv /\ Published /\ [Next]_vars =>
         (InstallerStep /\ dir'[Services] # dir[Services] =>
            /\ dir'[Services] # Nil
            /\ dir'[Services] = Name("stage") => file[Name("stage")].bytes \in ValidBytes)
  BY <1>1
<1> QED BY <1>2, PublicationInductive, PTL DEF Spec, ActiveStaysWhole
==============================================================================
