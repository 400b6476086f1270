--------------------------- MODULE InventoryInstall ---------------------------
(***************************************************************************)
(* platform-pki inventory-install (inventory_install.py) publishes a       *)
(* reviewed file as inventory/services.yml: it archives the outgoing bytes *)
(* in inventory/history and replaces the file with a guarded exchange      *)
(* (publication.py, exchange_guarded_regular_files), or with a rename      *)
(* where the filesystem has no exchange.  The locks keep other commands    *)
(* out, not the operator's editor: every step may find services.yml saved, *)
(* rewritten in place or removed since the last one.  One action is one    *)
(* system call that changes or examines the directory.                     *)
(*                                                                         *)
(* A directory entry names an inode; the identity a step remembers is the  *)
(* inode with its link count and the version of its data (size, mtime and  *)
(* ctime), and a weaker check compares the inode only.                     *)
(***************************************************************************)
EXTENDS Naturals, FiniteSets

CONSTANTS
    Bytes,       \* contents an inventory file may have
    ValidBytes,  \* those that parse_inventory accepts
    NoBytes,     \* data of a file that is empty or not written out yet
    Nil,         \* no inode, no identity, no bytes
    MaxRuns,     \* commands that are run, one after the other (the locks)
    MaxEdits,    \* changes made by other programs
    MaxCrashes   \* commands that are killed

ASSUME InventoryAssumption ==
    /\ ValidBytes \subseteq Bytes
    /\ NoBytes \notin Bytes /\ Nil \notin Bytes \cup {NoBytes}
    /\ MaxRuns \in Nat /\ MaxEdits \in Nat /\ MaxCrashes \in Nat

VARIABLES
    dir,      \* dir[n]: the inode that name n of the directory refers to
    file,     \* file[i]: data, data version and "mode is 600" of inode i
    hist,     \* hist[b]: the data of history/<sha256 of b>.yml
    pc,       \* what the running command does next; "idle": none is running
    run,      \* number of the current or last command
    local,    \* the variables of the running command (see Locals)
    outcome,  \* outcome[r]: how command r ended
    edits, crashes

disk == << dir, file, hist >>
bounds == << edits, crashes >>
vars == << dir, file, hist, pc, run, local, outcome, edits, crashes >>

Runs == 1..MaxRuns
Kinds == {"stage", "guard", "base"}

(* Names: services.yml and the artifacts of each command, whose names are    *)
(* random: the stage, the guard's base and the guard link made next to it.   *)
Services == << "services", 0 >>
Names == {Services} \cup (Kinds \X Runs)
Name(k) == << k, run >>

(* Inodes: the first services.yml, what commands and editors create.         *)
Original == << "original", 0 >>
Edit(k) == << "edit", k >>
Inodes == {Original} \cup ({"stage", "base"} \X Runs) \cup ({"edit"} \X (1..MaxEdits))

ASSUME InodeAssumption == Nil \notin Inodes

Links(i) == Cardinality({n \in Names : dir[n] = i})
Linked(i) == \E n \in Names : dir[n] = i

(* OpenedDirectory.identity_at: a FileIdentity, or ABSENT.                   *)
IdentityAt(n) ==
    IF dir[n] = Nil THEN Nil
    ELSE [ino |-> dir[n], ver |-> file[dir[n]].ver, links |-> Links(dir[n])]

Identities == [ino : Inodes, ver : Nat, links : Nat]

(* _same_inode, with ABSENT equal to itself only.                            *)
Ino(identity) == IF identity = Nil THEN Nil ELSE identity.ino

(* source_bytes, exchange_supported, destination, destination_bytes, the     *)
(* inode known for each of _Artifacts, guarded, displaced_at_stage; the      *)
(* verdict the cleanup ends with and whether it left something behind.       *)
Locals ==
    [src : Bytes \cup {NoBytes}, swap : BOOLEAN, dest : Identities \cup {Nil},
     read : Bytes \cup {Nil}, art : [Kinds -> Inodes \cup {Nil}],
     guarded : Identities \cup {Nil}, displaced : Inodes \cup {Nil},
     verdict : {"refused", "current"}, left : BOOLEAN]

Steps == {"idle", "snapshot", "stage", "write", "parse", "read", "archive",
          "archiving", "verify", "rebytes", "recheck", "publish", "published",
          "base", "link", "guard", "compare", "exchange", "exchanged",
          "restore", "restored", "fallback", "rename", "renamed",
          "unguard", "unbase", "unstage", "done",
          "clean_stage", "clean_guard", "clean_base", "cleaned"}

Outcomes == {"none", "ok", "current", "refused", "warned", "preserved", "crashed"}

TypeOK ==
    /\ dir \in [Names -> Inodes \cup {Nil}]
    /\ file \in [Inodes -> [bytes : Bytes \cup {NoBytes}, ver : Nat,
                            private : BOOLEAN]]
    /\ hist \in [Bytes -> Bytes \cup {Nil}]
    /\ pc \in Steps /\ run \in 0..MaxRuns
    /\ local \in Locals
    /\ outcome \in [Runs -> Outcomes]
    /\ edits \in 0..MaxEdits /\ crashes \in 0..MaxCrashes

Fresh(b, mode) == [bytes |-> b, ver |-> 0, private |-> mode]
NoArtifacts == [k \in Kinds |-> Nil]
Start(b, s) ==
    [src |-> b, swap |-> s, dest |-> Nil, read |-> Nil, art |-> NoArtifacts,
     guarded |-> Nil, displaced |-> Nil, verdict |-> "refused", left |-> FALSE]
NotRunning == Start(NoBytes, FALSE)

(* services.yml is absent, or valid with mode 600 or another safe mode.      *)
Init ==
    /\ dir \in {[n \in Names |-> IF n = Services THEN i ELSE Nil] : i \in {Original, Nil}}
    /\ \E b \in ValidBytes, mode \in BOOLEAN :
          file = [i \in Inodes |-> IF i = Original THEN Fresh(b, mode) ELSE Fresh(NoBytes, TRUE)]
    /\ hist = [b \in Bytes |-> Nil]
    /\ pc = "idle" /\ run = 0
    /\ local = NotRunning
    /\ outcome = [r \in Runs |-> "none"]
    /\ edits = 0 /\ crashes = 0

------------------------------------------------------------------------------
(* The ends of a command: _die runs the finally clause; _preserve does not.  *)
Goto(step) == pc' = step /\ UNCHANGED << run, outcome >>
End(how) ==
    /\ pc' = "idle" /\ local' = NotRunning
    /\ outcome' = [outcome EXCEPT ![run] = how]
    /\ UNCHANGED run
Die == Goto("clean_stage") /\ UNCHANGED local
Preserve == End("preserved")

Link(n, i) == dir' = [dir EXCEPT ![n] = i] /\ UNCHANGED << file, hist >>
Swap(m, n) == dir' = [dir EXCEPT ![m] = dir[n], ![n] = dir[m]] /\ UNCHANGED << file, hist >>
Move(m, n) == dir' = [dir EXCEPT ![m] = Nil, ![n] = dir[m]] /\ UNCHANGED << file, hist >>
Holds(k) == dir[Name(k)] = local.art[k]

(* install_inventory: the locks are taken, the exchange has been probed, the *)
(* source is open and its bytes will not change.                             *)
Begin ==
    /\ pc = "idle" /\ run < MaxRuns
    /\ run' = run + 1 /\ pc' = "snapshot"
    /\ \E b \in Bytes, s \in BOOLEAN : local' = Start(b, s)
    /\ UNCHANGED << disk, outcome >>

(* _snapshot_destination *)
Snapshot ==
    /\ pc = "snapshot"
    /\ UNCHANGED disk
    /\ \/ /\ dir[Services] = Nil \/ Links(dir[Services]) = 1
          /\ local' = [local EXCEPT !.dest = IdentityAt(Services)]
          /\ Goto("stage")
       \/ dir[Services] # Nil /\ Links(dir[Services]) # 1 /\ Die

(* stage_file_bytes: O_EXCL under a random name, then the data and a check.  *)
Stage ==
    /\ pc = "stage"
    /\ dir' = [dir EXCEPT ![Name("stage")] = Name("stage")]
    /\ file' = [file EXCEPT ![Name("stage")] = Fresh(NoBytes, TRUE)]
    /\ Goto("write")
    /\ UNCHANGED << hist, local >>

Write ==
    /\ pc = "write"
    /\ file' = [file EXCEPT ![Name("stage")].bytes = local.src]
    /\ UNCHANGED << dir, hist >>
    /\ \/ /\ dir[Name("stage")] = Name("stage")
          /\ local' = [local EXCEPT !.art["stage"] = Name("stage")]
          /\ Goto("parse")
       \/ dir[Name("stage")] # Name("stage") /\ Die

(* Mutant: the staged bytes are published without being parsed. *)
MutantParse ==
    /\ pc = "parse" /\ Goto("read")
    /\ UNCHANGED << disk, local >>

Parse ==
    /\ pc = "parse"
    /\ UNCHANGED disk
    /\ \/ local.src \in ValidBytes /\ Goto("read") /\ UNCHANGED local
       \/ local.src \notin ValidBytes /\ Die

(* The destination is read through a descriptor bound to its identity.       *)
Read ==
    /\ pc = "read"
    /\ UNCHANGED disk
    /\ \/ local.dest = Nil /\ Goto("recheck") /\ UNCHANGED local
       \/ local.dest # Nil /\ IdentityAt(Services) # local.dest /\ Die
       \/ /\ local.dest # Nil /\ IdentityAt(Services) = local.dest
          /\ LET data == file[dir[Services]].bytes
                 current == data = local.src /\ file[dir[Services]].private
             IN /\ local' = [local EXCEPT !.read = data,
                                !.verdict = IF current THEN "current" ELSE @]
                /\ Goto(IF current THEN "clean_stage"
                        ELSE IF data = local.src THEN "recheck" ELSE "archive")

(* _archive_inventory: a snapshot already under this digest is not replaced. *)
Archive ==
    /\ pc = "archive"
    /\ Goto(IF hist[local.read] = Nil THEN "archiving" ELSE "verify")
    /\ UNCHANGED << disk, local >>

PublishSnapshot ==
    /\ pc = "archiving"
    /\ hist' = [hist EXCEPT ![local.read] = IF @ = Nil THEN local.read ELSE @]
    /\ Goto("verify")
    /\ UNCHANGED << dir, file, local >>

(* Mutant: a snapshot that is there already is trusted for its name. *)
MutantVerifySnapshot ==
    /\ pc = "verify" /\ Goto("rebytes")
    /\ UNCHANGED << disk, local >>

VerifySnapshot ==
    /\ pc = "verify"
    /\ UNCHANGED disk
    /\ \/ hist[local.read] = local.read /\ Goto("rebytes") /\ UNCHANGED local
       \/ hist[local.read] # local.read /\ Die

(* _recheck_destination_bytes, then _recheck_destination (inode only).       *)
RecheckBytes ==
    /\ pc = "rebytes"
    /\ UNCHANGED disk
    /\ \/ IdentityAt(Services) = local.dest /\ Goto("recheck") /\ UNCHANGED local
       \/ IdentityAt(Services) # local.dest /\ Die

Recheck ==
    /\ pc = "recheck"
    /\ UNCHANGED disk
    /\ \/ /\ dir[Services] = Ino(local.dest)
          /\ Goto(IF local.dest = Nil THEN "publish" ELSE "base")
          /\ UNCHANGED local
       \/ dir[Services] # Ino(local.dest) /\ Die

(* publish_no_clobber: RENAME_NOREPLACE, then the validation of its result.  *)
PublishNew ==
    /\ pc = "publish"
    /\ \/ /\ dir[Services] = Nil /\ Holds("stage")
          /\ Move(Name("stage"), Services)
          /\ Goto("published") /\ UNCHANGED local
       \/ (dir[Services] # Nil \/ ~Holds("stage")) /\ Die /\ UNCHANGED disk

PublishedNew ==
    /\ pc = "published"
    /\ UNCHANGED disk
    /\ LET valid == dir[Services] = local.art["stage"] /\ file[dir[Services]].ver = 0
       IN \/ valid /\ End("ok")
          \/ ~valid /\ Preserve

(* _create_guard: an empty base file, a hard link to services.yml next to    *)
(* it, and the check that both names still refer to the validated inode.     *)
GuardBase ==
    /\ pc = "base"
    /\ dir' = [dir EXCEPT ![Name("base")] = Name("base")]
    /\ local' = [local EXCEPT !.art["base"] = Name("base")]
    /\ Goto("link")
    /\ UNCHANGED << file, hist >>

GuardLink ==
    /\ pc = "link"
    /\ \/ /\ dir[Services] # Nil
          /\ Link(Name("guard"), dir[Services])
          /\ Goto("guard") /\ UNCHANGED local
       \/ dir[Services] = Nil /\ Die /\ UNCHANGED disk

(* Mutant: the cleanup is given the guard's name for its inode. *)
MutantGuardCheck ==
    /\ pc = "guard"
    /\ local' = [local EXCEPT !.art["guard"] = Name("guard")]
    /\ Goto("fallback")
    /\ UNCHANGED disk

(* Only a guard that passes is known to the cleanup.                         *)
GuardCheck ==
    /\ pc = "guard"
    /\ UNCHANGED disk
    /\ LET guarded == IdentityAt(Name("guard"))
           matches == /\ Ino(guarded) = local.dest.ino
                      /\ guarded = IdentityAt(Services)
       IN \/ /\ matches
             /\ local' = [local EXCEPT !.guarded = guarded, !.art["guard"] = guarded.ino]
             /\ Goto(IF local.swap THEN "compare" ELSE "fallback")
          \/ ~matches /\ Die

(* exchange_guarded_regular_files, up to the system call: full identities,   *)
(* and the destination has exactly the two links services.yml and guard.     *)
Compare ==
    /\ pc = "compare"
    /\ UNCHANGED disk
    /\ LET exact == /\ Holds("stage") /\ local.guarded.links = 2
                    /\ IdentityAt(Services) = local.guarded
                    /\ IdentityAt(Name("guard")) = local.guarded
       IN \/ exact /\ Goto("exchange") /\ UNCHANGED local
          \/ ~exact /\ Die

Exchange ==
    /\ pc = "exchange"
    /\ \/ /\ dir[Services] # Nil /\ dir[Name("stage")] # Nil
          /\ Swap(Name("stage"), Services)
          /\ Goto("exchanged") /\ UNCHANGED local
       \/ (dir[Services] = Nil \/ dir[Name("stage")] = Nil) /\ Die /\ UNCHANGED disk

(* Mutant: what was displaced is not compared with what was guarded. *)
MutantExchanged ==
    /\ pc = "exchanged"
    /\ local' = [local EXCEPT !.art["stage"] = dir[Name("stage")]]
    /\ Goto("unguard")
    /\ UNCHANGED disk

(* Mutant: an exchange that hit a competitor's file is not exchanged back. *)
MutantExchangedNotUndone ==
    /\ pc = "exchanged"
    /\ UNCHANGED disk
    /\ \/ /\ dir[Name("stage")] = local.guarded.ino
          /\ local' = [local EXCEPT !.art["stage"] = dir[Name("stage")]]
          /\ Goto("unguard")
       \/ dir[Name("stage")] # local.guarded.ino /\ Die

(* The installer goes on to remove what it displaced only if that is the     *)
(* guarded inode; a competitor's file is exchanged back.                     *)
Exchanged ==
    /\ pc = "exchanged"
    /\ UNCHANGED disk
    /\ LET placed == dir[Services] = local.art["stage"]
           displaced == dir[Name("stage")]
           expected == displaced = local.guarded.ino /\ Holds("guard")
       IN \/ /\ placed /\ expected
             /\ local' = [local EXCEPT !.art["stage"] = displaced]
             /\ Goto("unguard")
          \/ /\ placed /\ ~expected /\ displaced # Nil
             /\ local' = [local EXCEPT !.displaced = displaced]
             /\ Goto("restore")
          \/ (~placed \/ displaced = Nil) /\ Preserve

Restore ==
    /\ pc = "restore"
    /\ \/ /\ dir[Services] # Nil /\ dir[Name("stage")] # Nil
          /\ Swap(Name("stage"), Services)
          /\ Goto("restored") /\ UNCHANGED local
       \/ (dir[Services] = Nil \/ dir[Name("stage")] = Nil) /\ Preserve /\ UNCHANGED disk

Restored ==
    /\ pc = "restored"
    /\ UNCHANGED disk
    /\ LET undone == Holds("stage") /\ dir[Services] = local.displaced
       IN \/ undone /\ Die
          \/ ~undone /\ Preserve

(* _publish_fallback: the last look is at inodes, the rename takes whatever  *)
(* is there.                                                                 *)
Fallback ==
    /\ pc = "fallback"
    /\ UNCHANGED disk
    /\ LET same == dir[Services] = local.dest.ino /\ Holds("guard")
       IN \/ same /\ Goto("rename") /\ UNCHANGED local
          \/ ~same /\ Die

Rename ==
    /\ pc = "rename"
    /\ \/ /\ dir[Name("stage")] # Nil
          /\ Move(Name("stage"), Services)
          /\ Goto("renamed") /\ UNCHANGED local
       \/ dir[Name("stage")] = Nil /\ Preserve /\ UNCHANGED disk

Renamed ==
    /\ pc = "renamed"
    /\ UNCHANGED disk
    /\ LET valid == dir[Services] = local.art["stage"] /\ Holds("guard")
       IN \/ /\ valid /\ Goto("unguard")
             /\ local' = [local EXCEPT !.art["stage"] = Nil]
          \/ ~valid /\ Preserve

(* _remove_exact_name: unlinked if the name still has the inode.             *)
Unlink(k) ==
    /\ Link(Name(k), Nil)
    /\ local' = [local EXCEPT !.art[k] = Nil]

(* After publication the guard, its base and the previous inventory go; one  *)
(* that is not what it was makes the command keep the rest.                  *)
Unguard(k, here, next) ==
    /\ pc = here
    /\ \/ local.art[k] = Nil /\ Goto(next) /\ UNCHANGED << disk, local >>
       \/ local.art[k] # Nil /\ Holds(k) /\ Unlink(k) /\ Goto(next)
       \/ local.art[k] # Nil /\ ~Holds(k) /\ Preserve /\ UNCHANGED disk

Done == pc = "done" /\ End("ok") /\ UNCHANGED disk

(* _cleanup_artifacts: an artifact that is not what it was stays, and the    *)
(* command warns that something is left.                                     *)
Clean(k, here, next) ==
    /\ pc = here /\ Goto(next)
    /\ \/ local.art[k] = Nil /\ UNCHANGED << disk, local >>
       \/ local.art[k] # Nil /\ Holds(k) /\ Unlink(k)
       \/ /\ local.art[k] # Nil /\ ~Holds(k)
          /\ local' = [local EXCEPT !.left = TRUE] /\ UNCHANGED disk

Cleaned ==
    /\ pc = "cleaned"
    /\ End(IF local.left THEN "warned" ELSE local.verdict)
    /\ UNCHANGED disk

Installer ==
    /\ UNCHANGED bounds
    /\ \/ Begin \/ Snapshot \/ Stage \/ Write \/ Parse \/ Read
       \/ Archive \/ PublishSnapshot \/ VerifySnapshot \/ RecheckBytes \/ Recheck
       \/ PublishNew \/ PublishedNew
       \/ GuardBase \/ GuardLink \/ GuardCheck
       \/ Compare \/ Exchange \/ Exchanged \/ Restore \/ Restored
       \/ Fallback \/ Rename \/ Renamed
       \/ Unguard("guard", "unguard", "unbase")
       \/ Unguard("base", "unbase", "unstage")
       \/ Unguard("stage", "unstage", "done")
       \/ Done
       \/ Clean("stage", "clean_stage", "clean_guard")
       \/ Clean("guard", "clean_guard", "clean_base")
       \/ Clean("base", "clean_base", "cleaned")
       \/ Cleaned

(* A killed command leaves its artifacts; the kernel drops its locks.        *)
Crash ==
    /\ pc # "idle" /\ crashes < MaxCrashes
    /\ crashes' = crashes + 1
    /\ End("crashed")
    /\ UNCHANGED << disk, edits >>

------------------------------------------------------------------------------
(* What programs that take no PKI lock do to the directory meanwhile: an     *)
(* editor saves a new file over services.yml, writes it in place or removes  *)
(* it; somebody removes an artifact of the running command or publishes a    *)
(* history snapshot, right or wrong.                                         *)
Save ==
    \E b \in Bytes :
        /\ dir' = [dir EXCEPT ![Services] = Edit(edits')]
        /\ file' = [file EXCEPT ![Edit(edits')] = Fresh(b, TRUE)]
        /\ UNCHANGED hist

WriteInPlace ==
    /\ dir[Services] # Nil
    /\ \E b \in Bytes : file' = [file EXCEPT ![dir[Services]].bytes = b,
                                             ![dir[Services]].ver = @ + 1]
    /\ UNCHANGED << dir, hist >>

Remove ==
    \E n \in {Services} \cup {Name(k) : k \in Kinds} :
        /\ n \in Names /\ dir[n] # Nil
        /\ Link(n, Nil)

PutSnapshot ==
    \E b, c \in Bytes :
        /\ hist[b] = Nil
        /\ hist' = [hist EXCEPT ![b] = c]
        /\ UNCHANGED << dir, file >>

Other ==
    /\ edits < MaxEdits /\ edits' = edits + 1
    /\ Save \/ WriteInPlace \/ Remove \/ PutSnapshot
    /\ UNCHANGED << pc, run, local, outcome, crashes >>

Next == Installer \/ Crash \/ Other

Spec == Init /\ [][Next]_vars

------------------------------------------------------------------------------
(* The steps of the command, and what it may unlink for good: the files it   *)
(* made itself, and the inventory it validated once its bytes are kept.      *)
InstallerStep == edits' = edits /\ crashes' = crashes

OwnFile(i) == i \in {Name("stage"), Name("base")}
BytesKept == local.read = local.src \/ hist[local.read] = local.read
Expendable(i) ==
    \/ OwnFile(i)
    \/ local.dest # Nil /\ i = local.dest.ino /\ local.read # Nil /\ BytesKept

(* The command never destroys an inventory file that somebody else put in    *)
(* place while it ran: whatever loses its last name is its own, or is the    *)
(* validated file with its bytes archived.  The rename of the fallback is    *)
(* the exception the documentation makes.  Code: the guarded exchange, its   *)
(* exchange back and the identity-matched removals.                          *)
NoInventoryLost ==
    [][InstallerStep =>
          \A i \in Inodes :
              Linked(i) /\ ~Linked(i)' =>
                  Expendable(i) \/ (pc = "rename" /\ i = dir[Services])]_vars

(* When the command's file takes the place of the validated inventory, the   *)
(* outgoing bytes are in the history under their digest, unless they are the *)
(* same.  Code: _archive_inventory before publication.                       *)
ArchivedFirst ==
    [][InstallerStep /\ local.dest # Nil /\ dir[Services] = local.dest.ino
          /\ dir'[Services] # dir[Services] => BytesKept]_vars

(* The command never leaves the PKI without an inventory it had, nor with    *)
(* staged bytes that do not parse.  Code: the order of staging, parsing and  *)
(* atomic replacement, with a crash after any of them.                       *)
ActiveStaysWhole ==
    [][InstallerStep /\ dir'[Services] # dir[Services] =>
          /\ dir'[Services] # Nil
          /\ dir'[Services] = Name("stage") =>
                 file[Name("stage")].bytes \in ValidBytes]_vars

(* A command that says it refused has not left its file as the inventory.    *)
(* Code: every _die after an exchange is preceded by a verified exchange     *)
(* back.                                                                     *)
RefusedIsNotPublished ==
    \A r \in Runs :
        outcome[r] \in {"refused", "warned", "current"} => dir[Services] # << "stage", r >>

(* A command that refuses without the warning that artifacts are retained    *)
(* has left none.  Code: the finally clause of _install_locked.              *)
RefusalLeavesNothing ==
    \A r \in Runs, k \in Kinds : outcome[r] = "refused" => dir[<< k, r >>] = Nil
==============================================================================
