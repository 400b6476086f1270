------------------------------- MODULE PkiLocks -------------------------------
(***************************************************************************)
(* acquire_pki_locks (src/platform_pki/locks.py): every command takes a    *)
(* prefix of the ordered lock files of one PKI directory with non-blocking *)
(* flock(2) and releases it in reverse.  A lock belongs to an open file    *)
(* description, which a fork shares between two processes: the child must  *)
(* close what it inherited without unlocking it.                           *)
(*                                                                         *)
(* Every profile contains "lifecycle", so the duplicate registry refuses a *)
(* second context of one process and directory whichever thread asks: a    *)
(* process has at most one context, and a refused one changes nothing.     *)
(***************************************************************************)
EXTENDS Naturals, Sequences, FiniteSets

CONSTANTS
    Processes,     \* process identifiers; several may run a command at once
    Descriptions,  \* open file descriptions the kernel can hand out
    Profiles,      \* lengths of the lock prefixes the commands ask for
    None           \* no description

LOCK_ORDER == << "lifecycle", "root", "intermediate", "inventory", "export" >>
Names == {LOCK_ORDER[i] : i \in DOMAIN LOCK_ORDER}

ASSUME LocksAssumption ==
    /\ Profiles \subseteq DOMAIN LOCK_ORDER
    /\ None \notin Descriptions

VARIABLES
    present,  \* the lock files that exist; nothing ever removes one
    flock,    \* flock[n]: the description that holds file n's exclusive lock
    open,     \* open[p][n]: the description process p has open for lock n
    context,  \* context[p]: what p does (see Contexts)
    profile,  \* profile[p]: how many locks p's context asks for
    held      \* held[p]: how many of them its context has acquired

vars == << present, flock, open, context, profile, held >>

(* "none": no context; the steps of _open_lock for the next lock: its path   *)
(* was "absent" or "existing" before the open, the file was "linked" or       *)
(* opened, the description "locked"; "body": inside the with statement;       *)
(* "releasing"; "child": forked, inherited descriptors not closed yet;        *)
(* "dead": not a running process.                                             *)
Contexts == {"none", "acquiring", "absent", "existing", "linked", "locked",
             "body", "releasing", "child", "dead"}
Acquiring == {"acquiring", "absent", "existing", "linked", "locked"}

TypeOK ==
    /\ present \subseteq Names
    /\ flock \in [Names -> Descriptions \cup {None}]
    /\ open \in [Processes -> [Names -> Descriptions \cup {None}]]
    /\ context \in [Processes -> Contexts]
    /\ profile \in [Processes -> DOMAIN LOCK_ORDER]
    /\ held \in [Processes -> 0..Len(LOCK_ORDER)]

Init ==
    /\ present = {}
    /\ flock = [n \in Names |-> None]
    /\ open = [p \in Processes |-> [n \in Names |-> None]]
    /\ context = [p \in Processes |-> "dead"]
    /\ profile = [p \in Processes |-> 1]
    /\ held = [p \in Processes |-> 0]

------------------------------------------------------------------------------
(* The lock p acquires next; the locks its context believes it holds.        *)
Wanted(p) == LOCK_ORDER[held[p] + 1]
HeldBy(p) == {LOCK_ORDER[i] : i \in 1..held[p]}

Unused(d) == \A p \in Processes : \A n \in Names : open[p][n] # d
Fresh == CHOOSE d \in Descriptions : Unused(d)

(* The kernel drops a lock when its last descriptor is closed.               *)
Unshared(p, n) == \A q \in Processes \ {p} : open[q][n] # open[p][n]
FlockAfterClose(p, n) ==
    IF flock[n] = open[p][n] /\ Unshared(p, n) THEN None ELSE flock[n]

Start(p) ==
    /\ context[p] = "dead"
    /\ context' = [context EXCEPT ![p] = "none"]
    /\ UNCHANGED << present, flock, open, profile, held >>

(* Mutant: the index of the last lock is taken for the length of the prefix. *)
MutantReserve(p) ==
    /\ context[p] = "none"
    /\ \E k \in Profiles : profile' = [profile EXCEPT ![p] = k - 1]
    /\ context' = [context EXCEPT ![p] = "acquiring"]
    /\ UNCHANGED << present, flock, open, held >>

(* _reserve_context: the duplicate registry of this process is empty.        *)
Reserve(p) ==
    /\ context[p] = "none"
    /\ \E k \in Profiles : profile' = [profile EXCEPT ![p] = k]
    /\ context' = [context EXCEPT ![p] = "acquiring"]
    /\ UNCHANGED << present, flock, open, held >>

PreStat(p) ==
    /\ context[p] = "acquiring"
    /\ context' = [context EXCEPT ![p] =
                      IF Wanted(p) \in present THEN "existing" ELSE "absent"]
    /\ UNCHANGED << present, flock, open, profile, held >>

(* An absent lock file is created anonymous (O_TMPFILE), its descriptor open. *)
CreateAnonymous(p) ==
    /\ context[p] = "absent" /\ open[p][Wanted(p)] = None
    /\ \E d \in Descriptions : Unused(d)
    /\ open' = [open EXCEPT ![p][Wanted(p)] = Fresh]
    /\ UNCHANGED << present, flock, context, profile, held >>

(* link(2) publishes it unless another process has created the name first.   *)
PublishAnonymous(p) ==
    /\ context[p] = "absent" /\ open[p][Wanted(p)] # None
    /\ Wanted(p) \notin present
    /\ present' = present \cup {Wanted(p)}
    /\ context' = [context EXCEPT ![p] = "linked"]
    /\ UNCHANGED << flock, open, profile, held >>

OpenExisting(p) ==
    /\ context[p] = "existing"
    /\ \E d \in Descriptions : Unused(d)
    /\ open' = [open EXCEPT ![p][Wanted(p)] = Fresh]
    /\ context' = [context EXCEPT ![p] = "linked"]
    /\ UNCHANGED << present, flock, profile, held >>

(* Mutant: a shared lock is taken instead of an exclusive one.               *)
MutantFlock(p) ==
    /\ context[p] = "linked"
    /\ flock' = [flock EXCEPT ![Wanted(p)] = open[p][Wanted(p)]]
    /\ context' = [context EXCEPT ![p] = "locked"]
    /\ UNCHANGED << present, open, profile, held >>

(* flock(LOCK_EX | LOCK_NB)                                                  *)
Flock(p) ==
    /\ context[p] = "linked"
    /\ flock[Wanted(p)] = None
    /\ flock' = [flock EXCEPT ![Wanted(p)] = open[p][Wanted(p)]]
    /\ context' = [context EXCEPT ![p] = "locked"]
    /\ UNCHANGED << present, open, profile, held >>

(* The path still names the locked file: the lock counts as held.            *)
Recheck(p) ==
    /\ context[p] = "locked"
    /\ held' = [held EXCEPT ![p] = @ + 1]
    /\ context' = [context EXCEPT ![p] =
                      IF held[p] + 1 = profile[p] THEN "body" ELSE "acquiring"]
    /\ UNCHANGED << present, flock, open, profile >>

(* Contention (the name was linked first, or another description holds the   *)
(* lock) or any failed check or system call: the descriptor of the lock being *)
(* opened is closed, unlocked first if it was locked, and what was acquired   *)
(* before it is released.                                                     *)
AcquireFails(p) ==
    /\ context[p] \in Acquiring
    /\ LET n == Wanted(p)
       IN  /\ open' = [open EXCEPT ![p][n] = None]
           /\ flock' = [flock EXCEPT ![n] =
                           IF context[p] = "locked" THEN None
                           ELSE IF open[p][n] = None THEN @
                           ELSE FlockAfterClose(p, n)]
    /\ context' = [context EXCEPT ![p] = "releasing"]
    /\ UNCHANGED << present, profile, held >>

(* The body ends, normally or with an exception.                             *)
Leave(p) ==
    /\ context[p] = "body"
    /\ context' = [context EXCEPT ![p] = "releasing"]
    /\ UNCHANGED << present, flock, open, profile, held >>

(* _release_all: LOCK_UN and close, the last acquired lock first.            *)
Release(p) ==
    /\ context[p] = "releasing" /\ held[p] > 0
    /\ LET n == LOCK_ORDER[held[p]]
       IN  /\ open' = [open EXCEPT ![p][n] = None]
           /\ flock' = [flock EXCEPT ![n] = IF @ = open[p][n] THEN None ELSE @]
    /\ held' = [held EXCEPT ![p] = @ - 1]
    /\ UNCHANGED << present, context, profile >>

Unregister(p) ==
    /\ context[p] = "releasing" /\ held[p] = 0
    /\ context' = [context EXCEPT ![p] = "none"]
    /\ UNCHANGED << present, flock, open, profile, held >>

------------------------------------------------------------------------------
(* os.fork, or the fork inside subprocess: the child shares every            *)
(* description its parent has open at that moment.                           *)
Fork(p, c) ==
    /\ context[p] \notin {"child", "dead"} /\ context[c] = "dead"
    /\ open' = [open EXCEPT ![c] = open[p]]
    /\ context' = [context EXCEPT ![c] = "child"]
    /\ UNCHANGED << present, flock, profile, held >>

(* Mutant: the child unlocks the descriptors it inherited.                   *)
MutantCloseInherited(c, n) ==
    /\ context[c] = "child" /\ open[c][n] # None
    /\ open' = [open EXCEPT ![c][n] = None]
    /\ flock' = [flock EXCEPT ![n] = IF @ = open[c][n] THEN None ELSE @]
    /\ UNCHANGED << present, context, profile, held >>

(* _at_fork_child, or exec and O_CLOEXEC: closed, never unlocked.            *)
CloseInherited(c, n) ==
    /\ context[c] = "child" /\ open[c][n] # None
    /\ flock' = [flock EXCEPT ![n] = FlockAfterClose(c, n)]
    /\ open' = [open EXCEPT ![c][n] = None]
    /\ UNCHANGED << present, context, profile, held >>

(* Mutant: the child keeps the descriptors it inherited open.                *)
MutantClearRegistry(c) ==
    /\ context[c] = "child"
    /\ context' = [context EXCEPT ![c] = "none"]
    /\ UNCHANGED << present, flock, open, profile, held >>

(* The child's registry is empty: it may ask for locks of its own, and the   *)
(* contexts it inherited end without releasing anything.                     *)
ClearRegistry(c) ==
    /\ context[c] = "child" /\ \A n \in Names : open[c][n] = None
    /\ context' = [context EXCEPT ![c] = "none"]
    /\ UNCHANGED << present, flock, open, profile, held >>

(* A process ends or is killed: the kernel closes its descriptors.           *)
Exit(p) ==
    /\ context[p] # "dead"
    /\ flock' = [n \in Names |-> IF open[p][n] = None THEN flock[n]
                                 ELSE FlockAfterClose(p, n)]
    /\ open' = [open EXCEPT ![p] = [n \in Names |-> None]]
    /\ context' = [context EXCEPT ![p] = "dead"]
    /\ held' = [held EXCEPT ![p] = 0]
    /\ UNCHANGED << present, profile >>

------------------------------------------------------------------------------
Step(p) ==
    \/ Reserve(p) \/ PreStat(p) \/ CreateAnonymous(p) \/ PublishAnonymous(p)
    \/ OpenExisting(p) \/ Flock(p) \/ Recheck(p) \/ AcquireFails(p)
    \/ Leave(p) \/ Release(p) \/ Unregister(p)

Inherit(c) == ClearRegistry(c) \/ \E n \in Names : CloseInherited(c, n)

Next == \E p \in Processes :
            \/ Start(p) \/ Step(p) \/ Inherit(p) \/ Exit(p)
            \/ \E c \in Processes \ {p} : Fork(p, c)

Spec == Init /\ [][Next]_vars

(* A running process takes its next step; a forked child reaches its handler. *)
Fairness == \A p \in Processes :
    /\ WF_vars(Inherit(p))
    /\ WF_vars(Step(p) /\ context[p] # "none")

FairSpec == Spec /\ Fairness

------------------------------------------------------------------------------
(* Two processes never believe they hold the same lock.                      *)
MutualExclusion ==
    \A p, q \in Processes : p # q => HeldBy(p) \cap HeldBy(q) = {}

(* A lock a context counts as held really is locked by that context's own    *)
(* description: no fork, exit or failure of another process has dropped it.  *)
BeliefIsTrue ==
    \A p \in Processes : \A n \in HeldBy(p) :
        open[p][n] # None /\ flock[n] = open[p][n]

(* A lock whose holder is gone is free again, even if a child of the holder  *)
(* outlives it for a while.                                                  *)
LocksComeFree ==
    \A n \in Names : flock[n] # None ~> flock[n] = None
==============================================================================
