---------------------------- MODULE PkiLocks_proofs ----------------------------
(***************************************************************************)
(* Proofs that the PKI locks exclude each other for any number of          *)
(* processes, forks, exits and failures.  A description two processes share *)
(* is the hard case: the inductive invariant says only a freshly forked    *)
(* child shares one, and that no context counts a lock it does not own.    *)
(***************************************************************************)
EXTENDS PkiLocks, TLAPS

(* Two processes share a description only while one of them is a child that *)
(* has not closed what it inherited.                                       *)
OwnDescriptions ==
    \A p, q \in Processes : p # q /\ context[p] # "child" /\ context[q] # "child"
        => \A n \in Names : open[p][n] # None => open[p][n] # open[q][n]

(* What the program counter of a context implies of its locks.             *)
ContextInv ==
    \A p \in Processes :
        /\ context[p] \in {"none", "child", "dead"} => held[p] = 0
        /\ context[p] = "dead" => \A n \in Names : open[p][n] = None
        /\ context[p] \in Acquiring => held[p] < profile[p]
        /\ context[p] \in {"linked", "locked"} => open[p][Wanted(p)] # None
        /\ context[p] = "locked" => flock[Wanted(p)] = open[p][Wanted(p)]

Inv == TypeOK /\ OwnDescriptions /\ ContextInv /\ BeliefIsTrue

------------------------------------------------------------------------------
(* The lock names are five different ones.                                 *)
LEMMA LockOrder ==
    /\ DOMAIN LOCK_ORDER = 1..5 /\ Len(LOCK_ORDER) = 5
    /\ \A i \in 1..5 : LOCK_ORDER[i] \in Names
    /\ \A i, j \in 1..5 : LOCK_ORDER[i] = LOCK_ORDER[j] => i = j
BY DEF LOCK_ORDER, Names

(* A new description is one no process has open.                           *)
LEMMA FreshDescription ==
    ASSUME NEW d \in Descriptions, Unused(d)
    PROVE  Fresh \in Descriptions /\ Unused(Fresh)
BY DEF Fresh

LEMMA InitInv == Init => Inv
<1> SUFFICES ASSUME Init PROVE Inv
  OBVIOUS
<1>1. TypeOK
  BY LocksAssumption, LockOrder DEF Init, TypeOK, Contexts
<1>2. OwnDescriptions /\ BeliefIsTrue
  BY DEF Init, OwnDescriptions, BeliefIsTrue, HeldBy
<1>3. ContextInv
  BY DEF Init, ContextInv, Acquiring
<1> QED BY <1>1, <1>2, <1>3 DEF Inv

------------------------------------------------------------------------------
(* What a context holds are lock names.                                    *)
LEMMA HeldNames ==
    ASSUME TypeOK, NEW p \in Processes PROVE HeldBy(p) \subseteq Names
<1>1. held[p] \in 0..5
  BY LockOrder DEF TypeOK
<1> QED BY <1>1, LockOrder DEF HeldBy

(* The lock an acquiring context wants is one of the five, and not one of   *)
(* those it holds.                                                         *)
LEMMA WantedName ==
    ASSUME Inv, NEW p \in Processes, context[p] \in Acquiring
    PROVE  Wanted(p) \in Names /\ Wanted(p) \notin HeldBy(p)
<1>1. held[p] \in 0..5 /\ profile[p] \in 1..5 /\ held[p] < profile[p]
  BY LockOrder DEF Inv, TypeOK, ContextInv
<1>2. held[p] + 1 \in 1..5 /\ \A i \in 1..held[p] : i \in 1..5 /\ i # held[p] + 1
  BY <1>1
<1> QED BY <1>2, LockOrder DEF Wanted, HeldBy

(* Steps that leave descriptions and locks alone.                          *)
LEMMA ControlInv ==
    ASSUME Inv, NEW p \in Processes,
           \/ Start(p) \/ Reserve(p) \/ PreStat(p) \/ PublishAnonymous(p)
           \/ Leave(p) \/ Unregister(p) \/ ClearRegistry(p)
    PROVE  Inv'
<1>1. UNCHANGED << flock, open, held >>
  BY DEF Start, Reserve, PreStat, PublishAnonymous, Leave, Unregister, ClearRegistry
<1>2. \A q \in Processes \ {p} : context'[q] = context[q] /\ profile'[q] = profile[q]
  BY DEF Inv, TypeOK, Start, Reserve, PreStat, PublishAnonymous, Leave, Unregister,
         ClearRegistry
<1>3. TypeOK'
  <2>1. present' \subseteq Names
    <3>1. CASE PublishAnonymous(p)
      <4>1. Wanted(p) \in Names
        BY <3>1, WantedName DEF PublishAnonymous, Acquiring
      <4> QED BY <3>1, <4>1 DEF Inv, TypeOK, PublishAnonymous
    <3> QED BY <3>1 DEF Inv, TypeOK, Start, Reserve, PreStat, Leave, Unregister,
            ClearRegistry
  <2>2. context' \in [Processes -> Contexts]
    BY DEF Inv, TypeOK, Contexts, Start, Reserve, PreStat, PublishAnonymous, Leave,
       Unregister, ClearRegistry
  <2>3. profile' \in [Processes -> DOMAIN LOCK_ORDER]
    BY LocksAssumption DEF Inv, TypeOK, Start, Reserve, PreStat, PublishAnonymous,
       Leave, Unregister, ClearRegistry
  <2> QED BY <2>1, <2>2, <2>3, <1>1 DEF Inv, TypeOK
<1>4. OwnDescriptions'
  <2>1. CASE context[p] # "child"
    BY <2>1, <1>1, <1>2 DEF Inv, OwnDescriptions
  <2>2. CASE context[p] = "child"
    <3>1. ClearRegistry(p)
      BY <2>2 DEF Start, Reserve, PreStat, PublishAnonymous, Leave, Unregister
    <3>2. \A n \in Names : open[p][n] = None
      BY <3>1 DEF ClearRegistry
    <3> QED BY <3>2, <1>1, <1>2 DEF Inv, OwnDescriptions
  <2> QED BY <2>1, <2>2
<1>5. ContextInv'
  <2> SUFFICES ASSUME NEW q \in Processes
      PROVE /\ context'[q] \in {"none", "child", "dead"} => held'[q] = 0
            /\ context'[q] = "dead" => \A n \in Names : open'[q][n] = None
            /\ context'[q] \in Acquiring => held'[q] < profile'[q]
            /\ context'[q] \in {"linked", "locked"} => open'[q][Wanted(q)'] # None
            /\ context'[q] = "locked" => flock'[Wanted(q)'] = open'[q][Wanted(q)']
    BY DEF ContextInv
  <2>0. Wanted(q)' = Wanted(q)
    BY <1>1 DEF Wanted
  <2>1. CASE q # p
    BY <2>0, <2>1, <1>1, <1>2 DEF Inv, ContextInv
  <2>2. CASE q = p
    <3>1. CASE Start(p) \/ Leave(p) \/ Unregister(p) \/ ClearRegistry(p)
      BY <3>1, <2>2, <1>1 DEF Inv, TypeOK, ContextInv, Acquiring, Start, Leave,
         Unregister, ClearRegistry
    <3>2. CASE Reserve(p)
      BY <3>2, <2>2, <1>1, LocksAssumption, LockOrder
      DEF Inv, TypeOK, ContextInv, Acquiring, Reserve
    <3>3. CASE PreStat(p)
      BY <3>3, <2>2, <1>1 DEF Inv, TypeOK, ContextInv, Acquiring, PreStat
    <3>4. CASE PublishAnonymous(p)
      BY <3>4, <2>2, <1>1, <2>0 DEF Inv, TypeOK, ContextInv, Acquiring, PublishAnonymous
    <3> QED BY <3>1, <3>2, <3>3, <3>4
  <2> QED BY <2>1, <2>2
<1>6. BeliefIsTrue'
  BY <1>1 DEF Inv, BeliefIsTrue, HeldBy
<1> QED BY <1>3, <1>4, <1>5, <1>6 DEF Inv

------------------------------------------------------------------------------
(* Opening the lock wanted next: the description is nobody else's.          *)
LEMMA OpenInv ==
    ASSUME Inv, NEW p \in Processes, CreateAnonymous(p) \/ OpenExisting(p)
    PROVE  Inv'
<1> DEFINE w == Wanted(p)
<1>1. context[p] \in {"absent", "existing"} /\ context[p] \in Acquiring
  BY DEF CreateAnonymous, OpenExisting, Acquiring
<1>2. w \in Names /\ w \notin HeldBy(p)
  BY <1>1, WantedName
<1>3. Fresh \in Descriptions /\ Unused(Fresh)
  BY FreshDescription DEF CreateAnonymous, OpenExisting
<1>4. /\ open' = [open EXCEPT ![p][w] = Fresh]
      /\ UNCHANGED << present, flock, profile, held >>
  BY DEF CreateAnonymous, OpenExisting
<1>6. /\ context'[p] \in {"absent", "linked"}
      /\ \A q \in Processes \ {p} : context'[q] = context[q]
  BY DEF Inv, TypeOK, CreateAnonymous, OpenExisting
<1>7. \A q \in Processes, n \in Names :
          open'[q][n] = IF q = p /\ n = w THEN Fresh ELSE open[q][n]
  BY <1>2, <1>4 DEF Inv, TypeOK
<1>8. \A q \in Processes, n \in Names : open[q][n] # Fresh
  BY <1>3 DEF Unused
<1> HIDE DEF w
<1>9. TypeOK'
  <2>1. context' \in [Processes -> Contexts]
    BY DEF Inv, TypeOK, Contexts, CreateAnonymous, OpenExisting
  <2>2. open' \in [Processes -> [Names -> Descriptions \cup {None}]]
    BY <1>2, <1>3, <1>4 DEF Inv, TypeOK
  <2> QED BY <2>1, <2>2, <1>4 DEF Inv, TypeOK
<1>10. OwnDescriptions'
  <2> SUFFICES ASSUME NEW q \in Processes, NEW r \in Processes, q # r,
                      context'[q] # "child", context'[r] # "child",
                      NEW n \in Names, open'[q][n] # None
               PROVE  open'[q][n] # open'[r][n]
    BY DEF OwnDescriptions
  <2>1. context[q] # "child" /\ context[r] # "child"
    BY <1>1, <1>6
  <2>2. CASE (q = p \/ r = p) /\ n = w
    BY <2>2, <1>7, <1>8
  <2>3. CASE ~((q = p \/ r = p) /\ n = w)
    BY <2>1, <2>3, <1>7 DEF Inv, OwnDescriptions
  <2> QED BY <2>2, <2>3
<1>11. ContextInv'
  <2> SUFFICES ASSUME NEW q \in Processes
      PROVE /\ context'[q] \in {"none", "child", "dead"} => held'[q] = 0
            /\ context'[q] = "dead" => \A n \in Names : open'[q][n] = None
            /\ context'[q] \in Acquiring => held'[q] < profile'[q]
            /\ context'[q] \in {"linked", "locked"} => open'[q][Wanted(q)'] # None
            /\ context'[q] = "locked" => flock'[Wanted(q)'] = open'[q][Wanted(q)']
    BY DEF ContextInv
  <2>0. Wanted(q)' = Wanted(q)
    BY <1>4 DEF Wanted
  <2>1. CASE q # p
    <3>1. context'[q] = context[q]
      BY <2>1, <1>6
    <3>2. context[q] \in Acquiring => Wanted(q) \in Names
      BY WantedName
    <3> QED BY <3>1, <3>2, <2>0, <2>1, <1>4, <1>7 DEF Inv, ContextInv, Acquiring
  <2>2. CASE q = p
    <3>1. open'[p][w] # None
      BY <1>2, <1>3, <1>7, LocksAssumption
    <3>2. held'[p] < profile'[p]
      BY <1>1, <1>4 DEF Inv, ContextInv
    <3> QED BY <3>1, <3>2, <2>0, <2>2, <1>6 DEF w
  <2> QED BY <2>1, <2>2
<1>12. BeliefIsTrue'
  <2> SUFFICES ASSUME NEW q \in Processes, NEW n \in HeldBy(q)'
               PROVE  open'[q][n] # None /\ flock'[n] = open'[q][n]
    BY DEF BeliefIsTrue
  <2>1. n \in HeldBy(q) /\ n \in Names
    BY <1>4, HeldNames DEF HeldBy, Inv
  <2>2. ~(q = p /\ n = w)
    BY <2>1, <1>2
  <2> QED BY <2>1, <2>2, <1>4, <1>7 DEF Inv, BeliefIsTrue
<1> QED BY <1>9, <1>10, <1>11, <1>12 DEF Inv

------------------------------------------------------------------------------
(* Taking the lock and counting it.                                        *)
LEMMA FlockInv ==
    ASSUME Inv, NEW p \in Processes, Flock(p)
    PROVE  Inv'
<1> DEFINE w == Wanted(p)
<1>1. context[p] = "linked" /\ context[p] \in Acquiring /\ flock[w] = None
  BY DEF Flock, Acquiring
<1>2. w \in Names /\ w \notin HeldBy(p) /\ open[p][w] # None
  BY <1>1, WantedName DEF Inv, ContextInv
<1>3. /\ flock' = [flock EXCEPT ![w] = open[p][w]]
      /\ context' = [context EXCEPT ![p] = "locked"]
      /\ UNCHANGED << present, open, profile, held >>
  BY DEF Flock
<1>4. \A n \in Names : flock'[n] = IF n = w THEN open[p][w] ELSE flock[n]
  BY <1>2, <1>3 DEF Inv, TypeOK
<1>5. \A q \in Processes : context'[q] = IF q = p THEN "locked" ELSE context[q]
  BY <1>3 DEF Inv, TypeOK
<1> HIDE DEF w
<1>6. TypeOK'
  BY <1>2, <1>3 DEF Inv, TypeOK, Contexts
<1>7. OwnDescriptions'
  BY <1>1, <1>3, <1>5 DEF Inv, OwnDescriptions
<1>8. ContextInv'
  <2> SUFFICES ASSUME NEW q \in Processes
      PROVE /\ context'[q] \in {"none", "child", "dead"} => held'[q] = 0
            /\ context'[q] = "dead" => \A n \in Names : open'[q][n] = None
            /\ context'[q] \in Acquiring => held'[q] < profile'[q]
            /\ context'[q] \in {"linked", "locked"} => open'[q][Wanted(q)'] # None
            /\ context'[q] = "locked" => flock'[Wanted(q)'] = open'[q][Wanted(q)']
    BY DEF ContextInv
  <2>0. Wanted(q)' = Wanted(q)
    BY <1>3 DEF Wanted
  <2>1. CASE q # p
    <3>1. context'[q] = context[q]
      BY <2>1, <1>5
    <3>2. context[q] \in Acquiring => Wanted(q) \in Names
      BY WantedName
    <3>3. context[q] = "locked" => Wanted(q) # w
      BY <1>1 DEF Inv, ContextInv
    <3> QED BY <3>1, <3>2, <3>3, <2>0, <1>3, <1>4 DEF Inv, ContextInv, Acquiring
  <2>2. CASE q = p
    <3>1. held'[p] < profile'[p]
      BY <1>1, <1>3 DEF Inv, ContextInv
    <3> QED BY <3>1, <2>0, <2>2, <1>2, <1>3, <1>4, <1>5 DEF w
  <2> QED BY <2>1, <2>2
<1>9. BeliefIsTrue'
  <2> SUFFICES ASSUME NEW q \in Processes, NEW n \in HeldBy(q)'
               PROVE  open'[q][n] # None /\ flock'[n] = open'[q][n]
    BY DEF BeliefIsTrue
  <2>1. n \in HeldBy(q) /\ n \in Names
    BY <1>3, HeldNames DEF HeldBy, Inv
  <2>2. n # w
    BY <2>1, <1>1 DEF Inv, BeliefIsTrue
  <2> QED BY <2>1, <2>2, <1>3, <1>4 DEF Inv, BeliefIsTrue
<1> QED BY <1>6, <1>7, <1>8, <1>9 DEF Inv

LEMMA RecheckInv ==
    ASSUME Inv, NEW p \in Processes, Recheck(p)
    PROVE  Inv'
<1> DEFINE w == Wanted(p)
<1>1. context[p] = "locked" /\ context[p] \in Acquiring
  BY DEF Recheck, Acquiring
<1>2. w \in Names /\ open[p][w] # None /\ flock[w] = open[p][w]
  BY <1>1, WantedName DEF Inv, ContextInv
<1>3. held[p] \in 0..5 /\ profile[p] \in 1..5 /\ held[p] < profile[p]
  BY <1>1, LockOrder DEF Inv, TypeOK, ContextInv
<1>4. /\ held' = [held EXCEPT ![p] = held[p] + 1]
      /\ context' = [context EXCEPT ![p] =
                        IF held[p] + 1 = profile[p] THEN "body" ELSE "acquiring"]
      /\ UNCHANGED << present, flock, open, profile >>
  BY DEF Recheck
<1>5. \A q \in Processes :
        /\ context'[q] = IF q # p THEN context[q]
                         ELSE IF held[p] + 1 = profile[p] THEN "body" ELSE "acquiring"
        /\ held'[q] = IF q = p THEN held[p] + 1 ELSE held[q]
  BY <1>4 DEF Inv, TypeOK
<1>6. TypeOK'
  <2>1. held[p] + 1 \in 0..5
    BY <1>3
  <2>2. held' \in [Processes -> 0..Len(LOCK_ORDER)]
    BY <2>1, <1>4, LockOrder DEF Inv, TypeOK
  <2>3. context' \in [Processes -> Contexts]
    BY <1>4 DEF Inv, TypeOK, Contexts
  <2> QED BY <2>2, <2>3, <1>4 DEF Inv, TypeOK
<1>7. OwnDescriptions'
  BY <1>1, <1>4, <1>5 DEF Inv, OwnDescriptions
<1>8. ContextInv'
  <2> SUFFICES ASSUME NEW q \in Processes
      PROVE /\ context'[q] \in {"none", "child", "dead"} => held'[q] = 0
            /\ context'[q] = "dead" => \A n \in Names : open'[q][n] = None
            /\ context'[q] \in Acquiring => held'[q] < profile'[q]
            /\ context'[q] \in {"linked", "locked"} => open'[q][Wanted(q)'] # None
            /\ context'[q] = "locked" => flock'[Wanted(q)'] = open'[q][Wanted(q)']
    BY DEF ContextInv
  <2>1. CASE q # p
    <3>1. Wanted(q)' = Wanted(q)
      BY <2>1, <1>5 DEF Wanted
    <3> QED BY <3>1, <2>1, <1>4, <1>5 DEF Inv, ContextInv
  <2>2. CASE q = p
    BY <2>2, <1>3, <1>4, <1>5 DEF Acquiring
  <2> QED BY <2>1, <2>2
<1>9. BeliefIsTrue'
  <2> SUFFICES ASSUME NEW q \in Processes, NEW n \in HeldBy(q)'
               PROVE  open'[q][n] # None /\ flock'[n] = open'[q][n]
    BY DEF BeliefIsTrue
  <2>1. CASE n \in HeldBy(q)
    BY <2>1, <1>4 DEF Inv, BeliefIsTrue
  <2>2. CASE n \notin HeldBy(q)
    <3>1. q = p
      BY <2>2, <1>5 DEF HeldBy
    <3>2. PICK i \in 1..(held[p] + 1) : n = LOCK_ORDER[i]
      BY <3>1, <1>5 DEF HeldBy
    <3>3. i = held[p] + 1
      BY <3>1, <3>2, <2>2, <1>3 DEF HeldBy
    <3> QED BY <3>1, <3>2, <3>3, <1>2, <1>4 DEF Wanted
  <2> QED BY <2>1, <2>2
<1> QED BY <1>6, <1>7, <1>8, <1>9 DEF Inv

------------------------------------------------------------------------------
(* Closing descriptors.  Whatever a process closes, unlocked or not, a lock  *)
(* another process owns stays with it; only a process that is not a child   *)
(* unlocks.                                                                *)
Owns(q, n) == open[q][n] # None /\ flock[n] = open[q][n]

LEMMA OwnerKeeps ==
    ASSUME Inv, NEW p \in Processes, NEW q \in Processes, p # q,
           NEW n \in Names, Owns(q, n)
    PROVE  /\ FlockAfterClose(p, n) = flock[n]
           /\ context[p] # "child" /\ context[q] # "child" => flock[n] # open[p][n]
BY DEF Inv, OwnDescriptions, Owns, FlockAfterClose, Unshared

(* What a context holds or has just locked, it owns, and it is no child.    *)
LEMMA Owners ==
    ASSUME Inv, NEW q \in Processes
    PROVE  /\ \A n \in HeldBy(q) : n \in Names /\ Owns(q, n) /\ context[q] # "child"
           /\ context[q] = "locked" => Wanted(q) \in Names /\ Owns(q, Wanted(q))
<1>1. \A n \in HeldBy(q) : n \in Names /\ Owns(q, n)
  BY HeldNames DEF Inv, BeliefIsTrue, Owns
<1>2. \A n \in HeldBy(q) : held[q] # 0
  BY DEF HeldBy
<1>3. context[q] = "locked" => Wanted(q) \in Names
  BY WantedName DEF Acquiring
<1> QED BY <1>1, <1>2, <1>3 DEF Inv, ContextInv, Owns

(* What a step of p that closes descriptors has to show: the others' locks   *)
(* and descriptors are as they were, and p itself satisfies the invariant.  *)
LEMMA ClosingInv ==
    ASSUME Inv, NEW p \in Processes, TypeOK', UNCHANGED profile,
           \A q \in Processes \ {p} :
              /\ context'[q] = context[q] /\ held'[q] = held[q]
              /\ \A n \in Names : open'[q][n] = open[q][n],
           \A n \in Names : open'[p][n] \in {open[p][n], None},
           \A q \in Processes \ {p} : \A n \in Names :
              Owns(q, n) /\ (n \in HeldBy(q) \/ context[q] = "locked")
                 => flock'[n] = flock[n],
           context[p] = "child" => context'[p] \in {"child", "dead"},
           context'[p] \notin Acquiring,
           context'[p] \in {"none", "child", "dead"} => held'[p] = 0,
           context'[p] = "dead" => \A n \in Names : open'[p][n] = None,
           \A n \in HeldBy(p)' : open'[p][n] # None /\ flock'[n] = open'[p][n]
    PROVE  Inv'
<1>1. OwnDescriptions'
  <2> SUFFICES ASSUME NEW q \in Processes, NEW r \in Processes, q # r,
                      context'[q] # "child", context'[r] # "child",
                      NEW n \in Names, open'[q][n] # None
               PROVE  open'[q][n] # open'[r][n]
    BY DEF OwnDescriptions
  <2>1. open'[q][n] = open[q][n]
    OBVIOUS
  <2>2. CASE open'[r][n] = open[r][n]
    <3>1. CASE context[q] # "child" /\ context[r] # "child"
      BY <3>1, <2>1, <2>2 DEF Inv, OwnDescriptions
    <3>2. CASE context[q] = "child"
      <4>1. q = p /\ context'[p] = "dead"
        BY <3>2
      <4> QED BY <4>1
    <3>3. CASE context[r] = "child"
      <4>1. r = p /\ context'[p] = "dead"
        BY <3>3
      <4> QED BY <4>1
    <3> QED BY <3>1, <3>2, <3>3
  <2>3. CASE open'[r][n] = None
    BY <2>3
  <2> QED BY <2>2, <2>3
<1>2. ContextInv'
  <2> SUFFICES ASSUME NEW q \in Processes
      PROVE /\ context'[q] \in {"none", "child", "dead"} => held'[q] = 0
            /\ context'[q] = "dead" => \A n \in Names : open'[q][n] = None
            /\ context'[q] \in Acquiring => held'[q] < profile'[q]
            /\ context'[q] \in {"linked", "locked"} => open'[q][Wanted(q)'] # None
            /\ context'[q] = "locked" => flock'[Wanted(q)'] = open'[q][Wanted(q)']
    BY DEF ContextInv
  <2>1. CASE q # p
    <3>1. Wanted(q)' = Wanted(q)
      BY <2>1 DEF Wanted
    <3>2. context[q] \in {"linked", "locked"} => Wanted(q) \in Names
      BY WantedName DEF Acquiring
    <3>3. context[q] = "locked" => Owns(q, Wanted(q))
      BY Owners
    <3> QED BY <3>1, <3>2, <3>3, <2>1 DEF Inv, ContextInv, Owns
  <2>2. CASE q = p
    BY <2>2 DEF Acquiring
  <2> QED BY <2>1, <2>2
<1>3. BeliefIsTrue'
  <2> SUFFICES ASSUME NEW q \in Processes, NEW n \in HeldBy(q)'
               PROVE  open'[q][n] # None /\ flock'[n] = open'[q][n]
    BY DEF BeliefIsTrue
  <2>1. CASE q # p
    <3>1. n \in HeldBy(q)
      BY <2>1 DEF HeldBy
    <3>2. n \in Names /\ Owns(q, n)
      BY <3>1, Owners
    <3> QED BY <3>1, <3>2, <2>1 DEF Owns
  <2>2. CASE q = p
    BY <2>2
  <2> QED BY <2>1, <2>2
<1> QED BY <1>1, <1>2, <1>3 DEF Inv

LEMMA AcquireFailsInv ==
    ASSUME Inv, NEW p \in Processes, AcquireFails(p)
    PROVE  Inv'
<1> DEFINE w == Wanted(p)
           f == IF context[p] = "locked" THEN None
                ELSE IF open[p][w] = None THEN flock[w]
                ELSE FlockAfterClose(p, w)
<1>1. context[p] \in Acquiring /\ w \in Names /\ w \notin HeldBy(p)
  BY WantedName DEF AcquireFails
<1>2. /\ open' = [open EXCEPT ![p][w] = None]
      /\ flock' = [flock EXCEPT ![w] = f]
      /\ context' = [context EXCEPT ![p] = "releasing"]
      /\ UNCHANGED << present, profile, held >>
  BY DEF AcquireFails
<1>3. f \in {flock[w], None}
  BY DEF FlockAfterClose
<1>4. ASSUME NEW q \in Processes \ {p}, Owns(q, w),
             w \in HeldBy(q) \/ context[q] = "locked"
      PROVE  f = flock[w]
  <2>1. FlockAfterClose(p, w) = flock[w]
    BY <1>1, <1>4, OwnerKeeps
  <2>2. context[q] # "child" /\ context[p] # "child"
    BY <1>1, <1>4, Owners DEF Acquiring
  <2>3. context[p] # "locked"
    BY <1>1, <1>4, <2>2, OwnerKeeps, Owners DEF Owns
  <2> QED BY <2>1, <2>3
<1> HIDE DEF w, f
<1>5. TypeOK'
  BY <1>1, <1>2, <1>3 DEF Inv, TypeOK, Contexts
<1>6. \A q \in Processes, n \in Names :
        open'[q][n] = IF q = p /\ n = w THEN None ELSE open[q][n]
  BY <1>1, <1>2 DEF Inv, TypeOK
<1>7. \A n \in Names : flock'[n] = IF n = w THEN f ELSE flock[n]
  BY <1>1, <1>2 DEF Inv, TypeOK
<1>8. \A q \in Processes : context'[q] = IF q = p THEN "releasing" ELSE context[q]
  BY <1>2 DEF Inv, TypeOK
<1>9. \A n \in HeldBy(p)' : open'[p][n] # None /\ flock'[n] = open'[p][n]
  <2>1. HeldBy(p)' = HeldBy(p)
    BY <1>2 DEF HeldBy
  <2> QED BY <2>1, <1>1, <1>6, <1>7, Owners DEF Owns
<1>10. context[p] # "child" /\ context'[p] \notin Acquiring
  BY <1>1, <1>8 DEF Acquiring
<1>11. \A q \in Processes \ {p} : \A n \in Names :
              Owns(q, n) /\ (n \in HeldBy(q) \/ context[q] = "locked")
                 => flock'[n] = flock[n]
  BY <1>4, <1>7
<1> QED BY <1>2, <1>5, <1>6, <1>8, <1>9, <1>10, <1>11, ClosingInv

LEMMA ReleaseInv ==
    ASSUME Inv, NEW p \in Processes, Release(p)
    PROVE  Inv'
<1> DEFINE w == LOCK_ORDER[held[p]]
<1>1. context[p] = "releasing" /\ held[p] \in 1..5
  BY LockOrder DEF Release, Inv, TypeOK
<1>2. w \in Names /\ w \in HeldBy(p) /\ Owns(p, w)
  BY <1>1, LockOrder, Owners DEF HeldBy
<1>3. /\ open' = [open EXCEPT ![p][w] = None]
      /\ flock' = [flock EXCEPT ![w] = None]
      /\ held' = [held EXCEPT ![p] = held[p] - 1]
      /\ UNCHANGED << present, context, profile >>
  BY <1>2 DEF Release, Owns
<1>4. ASSUME NEW q \in Processes \ {p}, Owns(q, w),
             w \in HeldBy(q) \/ context[q] = "locked"
      PROVE  FALSE
  <2>1. context[q] # "child"
    BY <1>4, Owners
  <2> QED BY <2>1, <1>1, <1>2, <1>4, OwnerKeeps DEF Owns
<1>5. \A q \in Processes, n \in Names :
        open'[q][n] = IF q = p /\ n = w THEN None ELSE open[q][n]
  BY <1>2, <1>3 DEF Inv, TypeOK
<1>6. \A n \in Names : flock'[n] = IF n = w THEN None ELSE flock[n]
  BY <1>2, <1>3 DEF Inv, TypeOK
<1>7. \A q \in Processes : held'[q] = IF q = p THEN held[p] - 1 ELSE held[q]
  BY <1>3 DEF Inv, TypeOK
<1>8. TypeOK'
  <2>1. held[p] - 1 \in 0..5
    BY <1>1
  <2>2. held' \in [Processes -> 0..Len(LOCK_ORDER)]
    BY <2>1, <1>3, LockOrder DEF Inv, TypeOK
  <2> QED BY <2>2, <1>2, <1>3 DEF Inv, TypeOK
<1>9. \A n \in HeldBy(p)' : open'[p][n] # None /\ flock'[n] = open'[p][n]
  <2> SUFFICES ASSUME NEW n \in HeldBy(p)'
               PROVE  n \in HeldBy(p) /\ n # w
    BY <1>5, <1>6, Owners DEF Owns
  <2>1. PICK i \in 1..(held[p] - 1) : n = LOCK_ORDER[i]
    BY <1>7 DEF HeldBy
  <2>2. i \in 1..held[p] /\ i \in 1..5 /\ i # held[p]
    BY <1>1, <2>1
  <2> QED BY <2>1, <2>2, <1>1, LockOrder DEF HeldBy
<1> HIDE DEF w
<1>10. context'[p] = "releasing" /\ context'[p] \notin Acquiring
  BY <1>1, <1>3 DEF Acquiring
<1> QED BY <1>3, <1>4, <1>5, <1>6, <1>7, <1>8, <1>9, <1>10, <1>1, ClosingInv

LEMMA CloseInheritedInv ==
    ASSUME Inv, NEW p \in Processes, NEW w \in Names, CloseInherited(p, w)
    PROVE  Inv'
<1>1. context[p] = "child" /\ held[p] = 0
  BY DEF CloseInherited, Inv, ContextInv
<1>2. /\ open' = [open EXCEPT ![p][w] = None]
      /\ flock' = [flock EXCEPT ![w] = FlockAfterClose(p, w)]
      /\ UNCHANGED << present, context, profile, held >>
  BY DEF CloseInherited
<1>3. FlockAfterClose(p, w) \in {flock[w], None}
  BY DEF FlockAfterClose
<1>4. \A q \in Processes, n \in Names :
        open'[q][n] = IF q = p /\ n = w THEN None ELSE open[q][n]
  BY <1>2 DEF Inv, TypeOK
<1>5. \A n \in Names : flock'[n] = IF n = w THEN FlockAfterClose(p, w) ELSE flock[n]
  BY <1>2 DEF Inv, TypeOK
<1>6. TypeOK'
  BY <1>2, <1>3 DEF Inv, TypeOK
<1>7. \A q \in Processes \ {p} : \A n \in Names :
              Owns(q, n) /\ (n \in HeldBy(q) \/ context[q] = "locked")
                 => flock'[n] = flock[n]
  BY <1>5, OwnerKeeps
<1>8. HeldBy(p)' = {}
  BY <1>1, <1>2 DEF HeldBy
<1>9. context'[p] = "child" /\ held'[p] = 0 /\ context'[p] \notin Acquiring
  BY <1>1, <1>2 DEF Acquiring
<1> QED BY <1>1, <1>2, <1>4, <1>6, <1>7, <1>8, <1>9, ClosingInv

LEMMA ExitInv ==
    ASSUME Inv, NEW p \in Processes, Exit(p)
    PROVE  Inv'
<1>1. /\ flock' = [n \in Names |-> IF open[p][n] = None THEN flock[n]
                                   ELSE FlockAfterClose(p, n)]
      /\ open' = [open EXCEPT ![p] = [n \in Names |-> None]]
      /\ context' = [context EXCEPT ![p] = "dead"]
      /\ held' = [held EXCEPT ![p] = 0]
      /\ UNCHANGED << present, profile >>
  BY DEF Exit
<1>2. \A n \in Names : FlockAfterClose(p, n) \in {flock[n], None}
  BY DEF FlockAfterClose
<1>3. TypeOK'
  <2>1. flock' \in [Names -> Descriptions \cup {None}]
    BY <1>1, <1>2 DEF Inv, TypeOK
  <2>2. held' \in [Processes -> 0..Len(LOCK_ORDER)]
    BY <1>1, LockOrder DEF Inv, TypeOK
  <2> QED BY <2>1, <2>2, <1>1 DEF Inv, TypeOK, Contexts
<1>4. \A q \in Processes, n \in Names :
        open'[q][n] = IF q = p THEN None ELSE open[q][n]
  BY <1>1 DEF Inv, TypeOK
<1>5. \A q \in Processes :
        /\ context'[q] = IF q = p THEN "dead" ELSE context[q]
        /\ held'[q] = IF q = p THEN 0 ELSE held[q]
  BY <1>1 DEF Inv, TypeOK
<1>6. \A q \in Processes \ {p} : \A n \in Names :
              Owns(q, n) /\ (n \in HeldBy(q) \/ context[q] = "locked")
                 => flock'[n] = flock[n]
  BY <1>1, OwnerKeeps
<1>7. HeldBy(p)' = {}
  BY <1>5 DEF HeldBy
<1>8. context'[p] \notin Acquiring
  BY <1>5 DEF Acquiring
<1> QED BY <1>1, <1>3, <1>4, <1>5, <1>6, <1>7, <1>8, ClosingInv

------------------------------------------------------------------------------
(* A fork shares descriptions only with a child.                            *)
LEMMA ForkInv ==
    ASSUME Inv, NEW p \in Processes, NEW c \in Processes \ {p}, Fork(p, c)
    PROVE  Inv'
<1>1. /\ context[c] = "dead"
      /\ open' = [open EXCEPT ![c] = open[p]]
      /\ context' = [context EXCEPT ![c] = "child"]
      /\ UNCHANGED << present, flock, profile, held >>
  BY DEF Fork
<1>2. held[c] = 0
  BY <1>1 DEF Inv, ContextInv
<1>3. TypeOK'
  BY <1>1 DEF Inv, TypeOK, Contexts
<1>4. \A q \in Processes \ {c} :
          context'[q] = context[q] /\ open'[q] = open[q]
  BY <1>1 DEF Inv, TypeOK
<1>5. context'[c] = "child"
  BY <1>1 DEF Inv, TypeOK
<1>6. OwnDescriptions'
  BY <1>4, <1>5 DEF Inv, OwnDescriptions
<1>7. ContextInv'
  <2> SUFFICES ASSUME NEW q \in Processes
      PROVE /\ context'[q] \in {"none", "child", "dead"} => held'[q] = 0
            /\ context'[q] = "dead" => \A n \in Names : open'[q][n] = None
            /\ context'[q] \in Acquiring => held'[q] < profile'[q]
            /\ context'[q] \in {"linked", "locked"} => open'[q][Wanted(q)'] # None
            /\ context'[q] = "locked" => flock'[Wanted(q)'] = open'[q][Wanted(q)']
    BY DEF ContextInv
  <2>1. Wanted(q)' = Wanted(q)
    BY <1>1 DEF Wanted
  <2>2. CASE q # c
    BY <2>1, <2>2, <1>1, <1>4 DEF Inv, ContextInv
  <2>3. CASE q = c
    BY <2>3, <1>1, <1>2, <1>5 DEF Acquiring
  <2> QED BY <2>2, <2>3
<1>8. BeliefIsTrue'
  <2> SUFFICES ASSUME NEW q \in Processes, NEW n \in HeldBy(q)'
               PROVE  open'[q][n] # None /\ flock'[n] = open'[q][n]
    BY DEF BeliefIsTrue
  <2>1. n \in HeldBy(q) /\ q # c
    BY <1>1, <1>2 DEF HeldBy
  <2> QED BY <2>1, <1>1, <1>4 DEF Inv, BeliefIsTrue
<1> QED BY <1>3, <1>6, <1>7, <1>8 DEF Inv

------------------------------------------------------------------------------
LEMMA NextInv == Inv /\ [Next]_vars => Inv'
<1> SUFFICES ASSUME Inv, [Next]_vars PROVE Inv'
  OBVIOUS
<1>1. CASE UNCHANGED vars
  BY <1>1 DEF vars, Inv, TypeOK, OwnDescriptions, ContextInv, BeliefIsTrue, Wanted, HeldBy
<1>2. ASSUME NEW p \in Processes, Start(p) \/ Step(p) \/ Inherit(p) \/ Exit(p)
      PROVE  Inv'
  BY <1>2, ControlInv, OpenInv, FlockInv, RecheckInv, AcquireFailsInv, ReleaseInv,
     CloseInheritedInv, ExitInv DEF Step, Inherit
<1>3. ASSUME NEW p \in Processes, NEW c \in Processes \ {p}, Fork(p, c)
      PROVE  Inv'
  BY <1>3, ForkInv
<1> QED BY <1>1, <1>2, <1>3 DEF Next

(* The invariant holds in every reachable state, whatever the processes,    *)
(* descriptions and profiles are.                                          *)
THEOREM LocksInvariance == Spec => []Inv
BY InitInv, NextInv, PTL DEF Spec

(* The state of the locks stays well typed.                                 *)
THEOREM LocksTypeCorrect == Spec => []TypeOK
<1>1. Inv => TypeOK
  BY DEF Inv
<1> QED BY <1>1, LocksInvariance, PTL

(* A context that counts a lock as held owns it: no fork, exit or failure of *)
(* another process drops it.                                               *)
THEOREM BeliefHolds == Spec => []BeliefIsTrue
<1>1. Inv => BeliefIsTrue
  BY DEF Inv
<1> QED BY <1>1, LocksInvariance, PTL

(* No two processes hold the same PKI lock.                                 *)
THEOREM LocksExclude == Spec => []MutualExclusion
<1>1. ASSUME Inv, NEW p \in Processes, NEW q \in Processes, p # q,
             NEW n \in HeldBy(p), n \in HeldBy(q)
      PROVE  FALSE
  <2>1. Owns(p, n) /\ Owns(q, n) /\ n \in Names
    BY <1>1, Owners
  <2>2. context[p] # "child" /\ context[q] # "child"
    BY <1>1, Owners
  <2> QED BY <2>1, <2>2, <1>1 DEF Inv, OwnDescriptions, Owns
<1>2. Inv => MutualExclusion
  BY <1>1 DEF MutualExclusion
<1> QED BY <1>2, LocksInvariance, PTL
==============================================================================
