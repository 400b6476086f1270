-------------------------- MODULE CsrLifecycle_proofs --------------------------
(*****************************************************************************)
(* The life of a CSR: types, locks and decisions, proved for every set of    *)
(* requests, every predecessor relation and every assignment of nonces.      *)
(*                                                                           *)
(* Base (TypeOK, Named, Locked) is inductive: which process runs determines  *)
(* which journal there is, so that of the two journals at most one exists.   *)
(* DecisionInv adds how far a decision is, phase by phase of its journal. It *)
(* gives HistoryGrows as an action property and that every interrupted       *)
(* finalization passes the checks of its recovery.                           *)
(*                                                                           *)
(* Lineage adds that the finalized requests are one line of renewals, which  *)
(* the active pointer ends: ActiveIsHead. ChainOf is a recursive function; a  *)
(* line is its closed form (ChainOfLine).                                    *)
(*                                                                           *)
(* Effects says once which steps change which variable; every preservation   *)
(* proof splits on it.                                                       *)
(*****************************************************************************)
EXTENDS CsrLifecycle, TLAPS, FiniteSetTheorems

------------------------------------------------------------------------------
(* Which steps change what: every other one leaves that part of the state be. *)

JournalStep ==
    \/ \E r \in Requests : BeginSigning(r)
    \/ RecordReplay \/ RecordTransaction \/ RecordSigningReady \/ RecordSigningComplete
    \/ RecordKeyRemoved \/ RecordEntry \/ Commit
    \/ \E k \in Keys : RecordRestored(k)
    \/ RecordSigningResponse \/ RecordSignature
    \/ \E kind \in Kinds : RecordStage(kind) \/ RecordArtifact(kind)
    \/ RecordTerminal \/ RemoveSigningJournal

DatabaseStep ==
    \/ \E r \in Requests : BeginSigning(r)
    \/ PublishEntry \/ \E k \in Keys : RollbackEntry(k)

EndStep == (SigningFails \/ SigningStops) /\ SigningEnds

WorkStep ==
    \/ CopyDatabase \/ PublishEntry \/ RemoveDisplacedEntry
    \/ \E k \in Keys : RunOpenssl(k) \/ RollbackEntry(k) \/ RemoveDisplacedBackup(k)
    \/ SignResponse
    \/ \E kind \in Kinds : CreateStage(kind) \/ FillStage(kind) \/ PublishArtifact(kind)
    \/ RemoveSigningJournal \/ EndStep

TransactionStep ==
    CreateTransaction \/ StageProtocol \/ CreateTerminalDirectory \/ WriteTerminal \/ EndStep

DecisionStep ==
    \/ \E r \in Requests, action \in {"finalize", "abandon"} : BeginDecision(r, action)
    \/ FinalizationSteps \/ DecisionFails \/ DecisionKilled

ActorStep ==
    \/ \E r \in Requests : BeginSigning(r) \/ BeginHandler(r)
    \/ BeginRecovery \/ BeginFinalizationRecovery
    \/ \E r \in Requests, action \in {"finalize", "abandon"} : BeginDecision(r, action)
    \/ Preflight \/ RemoveSigningJournal
    \/ PublishAbandonment \/ PublishFinalizationJournal \/ RemoveFinalizationJournal
    \/ Ends

HandlerStep ==
    SigningFails \/ \E r \in Requests : BeginHandler(r) \/ HandlerGivesUp(r)

Effects ==
    /\ UNCHANGED journal \/ JournalStep
    /\ UNCHANGED << replay_requests, replay_nonces >> \/ ReserveRequest \/ ReserveNonce
    /\ UNCHANGED database \/ DatabaseStep
    /\ UNCHANGED work \/ WorkStep
    /\ UNCHANGED key_copies \/ CopyKey \/ RemoveSigningKey \/ RemoveKeyCopy
    /\ UNCHANGED transactions \/ TransactionStep
    /\ \/ UNCHANGED << candidates, responses >>
       \/ \E kind \in Kinds : PublishArtifact(kind)
    /\ \/ UNCHANGED << outcomes, active, deciding, staged, finalization >>
       \/ DecisionStep
    /\ UNCHANGED trust \/ \E t \in Trusts : InstallTrust(t)
    /\ UNCHANGED trust_of \/ StageProtocol
    /\ UNCHANGED exported \/ \E r \in Requests : ExportCertificate(r)
    /\ UNCHANGED outcome_exports \/ \E r \in Requests : ExportOutcome(r)
    /\ \/ UNCHANGED entries
       \/ \E r \in Requests : BeginSigning(r)
       \/ DecisionStep
    /\ UNCHANGED actor \/ ActorStep
    /\ UNCHANGED handlers \/ HandlerStep

(* Every step has these effects: the frames of the actions, taken together.  *)
LEMMA StepEffects == [Next]_vars => Effects
<1> SUFFICES ASSUME [Next]_vars PROVE Effects
  OBVIOUS
<1> USE DEF Effects, signing_vars, process_vars, history_vars
<1>1. CASE ReserveRequest \/ ReserveNonce \/ RecordReplay
  BY <1>1 DEF JournalStep, ReserveRequest, ReserveNonce, RecordReplay, ReplayFrame, WriterFrame
<1>2. CASE CreateTransaction \/ StageProtocol \/ RecordTransaction \/ CopyKey
  BY <1>2 DEF JournalStep, TransactionStep, CreateTransaction, StageProtocol,
     RecordTransaction, CopyKey, TransactionFrame, WriterFrame
<1>3. CASE CopyDatabase \/ RecordSigningReady \/ RecordSigningComplete \/ RemoveSigningKey
           \/ RecordKeyRemoved
  BY <1>3 DEF JournalStep, WorkStep, CopyDatabase, RecordSigningReady, RecordSigningComplete,
     RemoveSigningKey, RecordKeyRemoved, TransactionFrame, WriterFrame
<1>4. ASSUME NEW k \in Keys, RunOpenssl(k) PROVE Effects
  BY <1>4 DEF WorkStep, RunOpenssl, TransactionFrame, WriterFrame
<1>5. CASE PublishEntry \/ RemoveDisplacedEntry \/ RecordEntry \/ Commit
  BY <1>5 DEF JournalStep, DatabaseStep, WorkStep, PublishEntry, RemoveDisplacedEntry,
     RecordEntry, Commit, PublishFrame, WriterFrame
<1>6. CASE Preflight \/ RemoveKeyCopy
  BY <1>6 DEF ActorStep, Preflight, RemoveKeyCopy, RecoveryFrame
<1>7. ASSUME NEW k \in Keys, RollbackEntry(k) \/ RemoveDisplacedBackup(k) \/ RecordRestored(k)
      PROVE  Effects
  BY <1>7 DEF JournalStep, DatabaseStep, WorkStep, RollbackEntry, RemoveDisplacedBackup,
     RecordRestored, RollbackFrame, RecoveryFrame
<1>8. CASE RecordSigningResponse \/ SignResponse \/ RecordSignature
  BY <1>8 DEF JournalStep, WorkStep, RecordSigningResponse, SignResponse, RecordSignature,
     CompletionFrame, ArtifactsFrame, RecoveryFrame
<1>9. ASSUME NEW kind \in Kinds,
             \/ CreateStage(kind) \/ RecordStage(kind) \/ FillStage(kind)
             \/ PublishArtifact(kind) \/ RecordArtifact(kind)
      PROVE  Effects
  BY <1>9 DEF JournalStep, WorkStep, CreateStage, RecordStage, FillStage, PublishArtifact,
     RecordArtifact, CompletionFrame, ArtifactsFrame, RecoveryFrame
<1>10. CASE CreateTerminalDirectory \/ WriteTerminal \/ RecordTerminal \/ RemoveSigningJournal
  BY <1>10 DEF ActorStep, JournalStep, WorkStep, TransactionStep, CreateTerminalDirectory,
     WriteTerminal, RecordTerminal, RemoveSigningJournal, TerminalFrame, ArtifactsFrame,
     RecoveryFrame
<1>11. CASE FinalizationSteps
  BY <1>11 DEF ActorStep, DecisionStep, FinalizationSteps, StageOutcome, PublishAbandonment,
     StagePointer, PublishFinalizationJournal, PublishOutcome, RecordOutcome, PublishActive,
     RecordActive, RemoveOldActive, RemoveFinalizationJournal, DecisionFrame
<1>12. CASE SigningFails \/ SigningStops
  BY <1>12 DEF ActorStep, Ends, HandlerStep, WorkStep, TransactionStep, EndStep, SigningFails,
     SigningStops, SigningEndsFrame
<1>13. CASE DecisionFails \/ DecisionKilled \/ FinalizationStops
  BY <1>13 DEF ActorStep, Ends, DecisionStep, DecisionFails, DecisionKilled,
     FinalizationStops, DecisionFrame
<1>14. ASSUME NEW r \in Requests, BeginSigning(r) \/ BeginHandler(r) \/ HandlerGivesUp(r)
       PROVE  Effects
  BY <1>14 DEF ActorStep, HandlerStep, JournalStep, DatabaseStep, BeginSigning, BeginHandler,
     HandlerGivesUp
<1>15. CASE BeginRecovery \/ BeginFinalizationRecovery
  BY <1>15 DEF ActorStep, BeginRecovery, BeginFinalizationRecovery
<1>16. ASSUME NEW r \in Requests, NEW action \in {"finalize", "abandon"}, BeginDecision(r, action)
       PROVE  Effects
  BY <1>16 DEF ActorStep, DecisionStep, BeginDecision
<1>17. CASE Commands
  BY <1>17 DEF Commands, ExportCertificate, ExportOutcome, InstallTrust
<1>18. CASE UNCHANGED vars
  BY <1>18 DEF vars
<1> QED BY <1>1, <1>2, <1>3, <1>4, <1>5, <1>6, <1>7, <1>8, <1>9, <1>10, <1>11, <1>12, <1>13,
   <1>14, <1>15, <1>16, <1>17, <1>18 DEF Next, SigningSteps, WriterSteps, RecoverySteps, Ends,
   Starts

(* A journal names a request, and there is none but the empty one without.   *)
Named ==
    /\ SigningJournaled => Request \in Requests
    /\ ~SigningJournaled => journal = NoJournal

(* Who runs: a signing or its recovery under its journal, a decision under   *)
(* none, the recovery of a finalization under its own; and who was admitted to *)
(* change the database had its reservations recorded.                        *)
Locked ==
    /\ actor.process \in {"sign", "handle", "recover"} => SigningJournaled /\ ~Finalizing
    /\ actor.process = "decide" => ~SigningJournaled /\ ~Finalizing
    /\ actor.process = "finalize" => Finalizing
    /\ OneJournal
    /\ actor.checked /\ SigningJournaled => journal.replay
    /\ actor.checked /\ actor.process = "sign" => journal.committed

(* The database keys are numbered without repetition, and all of them are.   *)
LEMMA DatabaseKeys ==
    /\ Len(CSR_DB_KEYS) = 7 /\ DOMAIN CSR_DB_KEYS = 1..7
    /\ \A i \in 1..7 : CSR_DB_KEYS[i] \in Keys
    /\ \A k \in Keys : \E i \in 1..7 : CSR_DB_KEYS[i] = k
    /\ \A i, j \in 1..7 : CSR_DB_KEYS[i] = CSR_DB_KEYS[j] => i = j
BY DEF CSR_DB_KEYS, Keys

(* The names a journal step may have.                                        *)
LEMMA StepNames ==
    /\ {"planned", "replay-reserved", "transaction-staged", "signing-ready",
        "signing-complete", "sensitive-key-removed", "ca-published", "ca-committed",
        "response-signing", "response-signed", "candidate-published",
        "response-published", "journal-cleanup-pending"} = Steps
<1>1. {PlannedSteps[i] : i \in 1..7} =
        {"planned", "replay-reserved", "transaction-staged", "signing-ready",
        "signing-complete", "sensitive-key-removed", "ca-published"}
  BY DEF PlannedSteps
<1>2. {CommittedSteps[i] : i \in 1..5} =
        {"ca-committed", "response-signing", "response-signed", "candidate-published",
        "response-published"}
  BY DEF CommittedSteps
<1> QED BY <1>1, <1>2 DEF Steps

(* A journal stays a journal of some request, with fields of their types.    *)
LEMMA JournalTyped ==
    ASSUME TypeOK, Named, [Next]_vars
    PROVE  journal' \in JournalType /\ Named'
<1> USE DEF Named, SigningJournaled, Request
<1> HIDE DEF JournalType, Files
<1>0. journal \in JournalType /\ database \in [Keys -> Files]
  BY DEF TypeOK, SigningTypeOK
<1>1. CASE UNCHANGED journal
  BY <1>0, <1>1
<1>n. NoJournal \in JournalType /\ NoJournal.phase = "none"
  BY StepNames, DatabaseKeys DEF NoJournal, JournalType, Files, NoFile
<1>2. ASSUME NEW r \in Requests, BeginSigning(r) PROVE journal' \in JournalType /\ Named'
  <2>1. journal' = [NoJournal EXCEPT !.request = r, !.phase = "planned"]
    BY <1>2 DEF BeginSigning, InitialJournal
  <2> QED BY <2>1, <1>n DEF JournalType
<1>3. CASE RecordReplay \/ RecordTransaction \/ Commit
  <2>1. CASE RecordReplay
    BY <1>0, <2>1, StepNames DEF RecordReplay, Write, Step, ReplayDue, Signing, JournalType
  <2>2. CASE RecordTransaction
    BY <1>0, <2>2, StepNames DEF RecordTransaction, Write, Step, Signing, JournalType
  <2>3. CASE Commit
    BY <1>0, <2>3, StepNames DEF Commit, Write, Step, Signing, JournalType
  <2> QED BY <1>3, <2>1, <2>2, <2>3
<1>4. CASE RecordSigningComplete \/ RecordKeyRemoved
  <2>1. CASE RecordSigningComplete
    BY <1>0, <2>1, StepNames DEF RecordSigningComplete, Write, Step, Signing, JournalType
  <2>2. CASE RecordKeyRemoved
    BY <1>0, <2>2, StepNames DEF RecordKeyRemoved, Write, Step, Signing, JournalType
  <2> QED BY <1>4, <2>1, <2>2
<1>5. CASE RecordSigningReady
  BY <1>0, <1>5, StepNames DEF RecordSigningReady, Write, Step, Signing, JournalType
<1>6. CASE RecordEntry
  <2>1. journal.post + 1 \in 0..Len(CSR_DB_KEYS)
    BY <1>0, <1>6, DatabaseKeys DEF RecordEntry, EntryDue, JournalType
  <2> QED BY <1>0, <1>6, <2>1, StepNames DEF RecordEntry, EntryDue, Publishing, Signing,
     Write, Step, JournalType
<1>7. ASSUME NEW k \in Keys, RecordRestored(k) PROVE journal' \in JournalType /\ Named'
  BY <1>0, <1>7 DEF RecordRestored, RollbackDue, RollingBack, Checked, Recovering, Write,
     Current, JournalType
<1>8. CASE RecordSigningResponse \/ RecordSignature
  <2>1. CASE RecordSigningResponse
    BY <1>0, <2>1, StepNames DEF RecordSigningResponse, Completing, Write, Step, JournalType
  <2>2. CASE RecordSignature
    BY <1>0, <2>2, StepNames DEF RecordSignature, Completing, Write, Step, JournalType
  <2> QED BY <1>8, <2>1, <2>2
<1>9. ASSUME NEW kind \in Kinds, RecordStage(kind) \/ RecordArtifact(kind)
      PROVE  journal' \in JournalType /\ Named'
  <2>1. journal.phase = "ca-committed" /\ SigningJournaled
    BY <1>9 DEF RecordStage, RecordArtifact, StageDue, ArtifactDue, Completing
  <2>2. CASE RecordStage(kind)
    BY <1>0, <2>1, <2>2 DEF RecordStage, Write, JournalType
  <2>3. CASE RecordArtifact(kind)
    BY <1>0, <2>1, <2>3, StepNames DEF RecordArtifact, Write, Step, JournalType
  <2> QED BY <1>9, <2>2, <2>3
<1>10. CASE RecordTerminal
  BY <1>0, <1>10, StepNames DEF RecordTerminal, TerminalDue, Checked, Recovering, Write, Step,
     JournalType
<1>11. CASE RemoveSigningJournal
  BY <1>n, <1>11 DEF RemoveSigningJournal
<1> QED BY <1>1, <1>2, <1>3, <1>4, <1>5, <1>6, <1>7, <1>8, <1>9, <1>10, <1>11, StepEffects DEF
   Effects, JournalStep

(* The other variables, each through the steps that change it.               *)
LEMMA SigningTyped ==
    ASSUME TypeOK, Named, Locked, [Next]_vars
    PROVE  SigningTypeOK'
<1> USE DEF TypeOK, SigningTypeOK
<1>1. Effects
  BY StepEffects
<1>2. journal' \in JournalType
  BY JournalTyped
<1>q. SigningJournaled => Request \in Requests /\ NonceOf[Request] \in Nonces
  BY DEF Named, Nonces
<1>3. replay_requests' \in SUBSET Requests /\ replay_nonces' \in [Nonces -> Requests \cup {"nobody"}]
  BY <1>1, <1>q DEF Effects, ReserveRequest, ReserveNonce, ReplayDue, SigningJournaled
<1>f. /\ NoFile \in Files /\ \A r \in Requests : Issued(r) \in Files
      /\ \A k \in Keys : SigningJournaled => BackupOf(k) \in Files
  BY <1>q DEF NoFile, Issued, Files, BackupOf, JournalType
<1>4. database' \in [Keys -> Files]
  <2>1. ASSUME NEW r \in Requests, BeginSigning(r) PROVE database' \in [Keys -> Files]
    BY <2>1, <1>f DEF BeginSigning
  <2>2. CASE PublishEntry
    BY <2>2, <1>f, <1>q DEF PublishEntry, EntryDue, Publishing, Signing, SigningJournaled
  <2>3. ASSUME NEW k \in Keys, RollbackEntry(k) PROVE database' \in [Keys -> Files]
    BY <2>3, <1>f DEF RollbackEntry, RollbackDue, RollingBack, Checked, Recovering
  <2> QED BY <1>1, <2>1, <2>2, <2>3 DEF Effects, DatabaseStep
<1>5. key_copies' \in SUBSET Requests
  BY <1>1, <1>q DEF Effects, CopyKey, RemoveSigningKey, RemoveKeyCopy, Signing, SigningJournaled
<1>6. candidates' \in SUBSET Requests /\ responses' \in SUBSET Requests
  BY <1>1, <1>q DEF Effects, PublishArtifact, ArtifactDue, Completing, Checked, Recovering
<1>7. transactions' \in [Requests -> [holds : {"absent", "empty", "files"},
                         terminal : {"none", "failed-pre-commit", "published"}]]
  BY <1>1, <1>q DEF Effects, TransactionStep, CreateTransaction, StageProtocol,
     CreateTerminalDirectory, WriteTerminal, EndStep, SigningEnds, TornWrite, Outcome
<1>8. work' \in WorkType
  <2> USE DEF WorkType
  <2>1. CASE CopyDatabase
    BY <2>1 DEF CopyDatabase
  <2>2. CASE PublishEntry \/ RemoveDisplacedEntry
    BY <2>2 DEF PublishEntry, RemoveDisplacedEntry
  <2>3. ASSUME NEW k \in Keys, RunOpenssl(k) \/ RollbackEntry(k) \/ RemoveDisplacedBackup(k)
        PROVE  work' \in WorkType
    BY <2>3 DEF RunOpenssl, RollbackEntry, RemoveDisplacedBackup
  <2>4. CASE SignResponse \/ EndStep
    BY <2>4 DEF SignResponse, EndStep, SigningEnds, TornWrite
  <2>5. ASSUME NEW kind \in Kinds, CreateStage(kind) \/ FillStage(kind) \/ PublishArtifact(kind)
        PROVE  work' \in WorkType
    BY <2>5 DEF CreateStage, FillStage, PublishArtifact
  <2>6. CASE RemoveSigningJournal
    BY <2>6 DEF RemoveSigningJournal, NoWork
  <2> QED BY <1>1, <2>1, <2>2, <2>3, <2>4, <2>5, <2>6 DEF Effects, WorkStep
<1>9. actor' \in [process : Processes, checked : BOOLEAN]
  <2>1. CASE Preflight
    BY <2>1 DEF Preflight
  <2>2. CASE ActorStep /\ ~Preflight
    <3>1. \E p \in Processes, c \in BOOLEAN : actor' = [process |-> p, checked |-> c]
      <4>1. CASE \E r \in Requests : BeginSigning(r) \/ BeginHandler(r)
        BY <4>1 DEF BeginSigning, BeginHandler, Idle, Processes
      <4>2. CASE BeginRecovery \/ BeginFinalizationRecovery
        BY <4>2 DEF BeginRecovery, BeginFinalizationRecovery, Idle, Processes
      <4>3. CASE \E r \in Requests, action \in {"finalize", "abandon"} : BeginDecision(r, action)
        BY <4>3 DEF BeginDecision, Idle, Processes
      <4>4. CASE RemoveSigningJournal \/ PublishAbandonment \/ RemoveFinalizationJournal
        BY <4>4 DEF RemoveSigningJournal, PublishAbandonment, RemoveFinalizationJournal, Idle,
           Processes
      <4>5. CASE PublishFinalizationJournal
        BY <4>5 DEF PublishFinalizationJournal, Processes
      <4>6. CASE Ends
        BY <4>6 DEF Ends, SigningFails, SigningStops, DecisionFails, DecisionKilled,
           FinalizationStops, Idle, Processes
      <4> QED BY <2>2, <4>1, <4>2, <4>3, <4>4, <4>5, <4>6 DEF ActorStep
    <3> QED BY <3>1
  <2> QED BY <1>1, <2>1, <2>2 DEF Effects
<1>10. handlers' \in SUBSET Requests
  BY <1>1, <1>q DEF Locked, Effects, HandlerStep, SigningFails, BeginHandler, HandlerGivesUp
<1> QED BY <1>2, <1>3, <1>4, <1>5, <1>6, <1>7, <1>8, <1>9, <1>10 DEF SigningTypeOK

(* The same for decisions, exports, trust and the processes.                 *)
LEMMA HistoryTyped ==
    ASSUME TypeOK, [Next]_vars
    PROVE  HistoryTypeOK'
<1> USE DEF TypeOK, HistoryTypeOK, Nobody
<1>1. Effects
  BY StepEffects
<1>2. exported' \in SUBSET Requests /\ outcome_exports' \in SUBSET Requests
  BY <1>1 DEF Effects, ExportCertificate, ExportOutcome
<1>3. trust' \in Trusts /\ trust_of' \in [Requests -> Trusts]
  BY <1>1 DEF Effects, InstallTrust, StageProtocol
<1>4. entries' \in [DOMAIN NoEntries -> BOOLEAN]
  <2>1. ASSUME NEW r \in Requests, BeginSigning(r) PROVE entries' \in [DOMAIN NoEntries -> BOOLEAN]
    BY <2>1 DEF BeginSigning
  <2>2. ASSUME NEW r \in Requests, NEW action \in {"finalize", "abandon"}, BeginDecision(r, action)
        PROVE  entries' \in [DOMAIN NoEntries -> BOOLEAN]
    BY <2>2 DEF BeginDecision
  <2>3. CASE DecisionKilled
    BY <2>3 DEF DecisionKilled
  <2>4. CASE FinalizationSteps \/ DecisionFails
    BY <2>4 DEF DecisionFails, FinalizationSteps, StageOutcome, PublishAbandonment,
       StagePointer, PublishFinalizationJournal, PublishOutcome, RecordOutcome, PublishActive,
       RecordActive, RemoveOldActive, RemoveFinalizationJournal
  <2> QED BY <1>1, <2>1, <2>2, <2>3, <2>4 DEF Effects, DecisionStep
<1> DEFINE DecisionTyped ==
      /\ outcomes' \in [Requests -> {"none", "finalize", "abandon"}] /\ active' \in Nobody
      /\ deciding' \in [request : Nobody, action : {"none", "finalize", "abandon"}]
      /\ staged' \in [outcome : Nobody, pointer : Nobody]
      /\ finalization' \in [request : Nobody, phase : {"none", "planned", "outcome-published",
                                                     "active-published"}, pre : Nobody]
<1>5. DecisionTyped
  <2>1. ASSUME NEW r \in Requests, NEW action \in {"finalize", "abandon"}, BeginDecision(r, action)
        PROVE  DecisionTyped
    BY <2>1 DEF BeginDecision
  <2>2. CASE DecisionFails \/ DecisionKilled
    BY <2>2 DEF DecisionFails, DecisionKilled, NoStage, NoDecision
  <2>3. CASE StageOutcome \/ PublishAbandonment \/ StagePointer \/ PublishFinalizationJournal
    BY <2>3 DEF StageOutcome, PublishAbandonment, StagePointer, PublishFinalizationJournal,
       NoStage, NoDecision
  <2>4. CASE PublishOutcome \/ RecordOutcome \/ PublishActive
    BY <2>4 DEF PublishOutcome, RecordOutcome, PublishActive
  <2>5. CASE RecordActive \/ RemoveOldActive \/ RemoveFinalizationJournal
    BY <2>5 DEF RecordActive, RemoveOldActive, RemoveFinalizationJournal, NoFinalization
  <2>6. CASE UNCHANGED << outcomes, active, deciding, staged, finalization >>
    BY <2>6
  <2> QED BY <1>1, <2>1, <2>2, <2>3, <2>4, <2>5, <2>6 DEF Effects, DecisionStep,
     FinalizationSteps
<1> QED BY <1>2, <1>3, <1>4, <1>5

------------------------------------------------------------------------------
(* A journal that goes on keeps its request, its commit and its reservations; *)
(* only the commit rewrite and the removal of a finished journal end a phase. *)
GoesOn ==
    /\ journal'.phase # "none" /\ journal'.request = journal.request
    /\ journal.committed => journal'.committed
    /\ journal'.committed => journal.committed \/ Commit
    /\ journal.replay => journal'.replay

(* A journaled signing ends only with the removal of its journal.            *)
LEMMA JournalGoesOn ==
    ASSUME TypeOK, [Next]_vars, SigningJournaled
    PROVE  RemoveSigningJournal \/ GoesOn
<1>t. Effects /\ journal \in JournalType
  BY StepEffects DEF TypeOK, SigningTypeOK
<1> USE DEF SigningJournaled, Write, Step, JournalType, GoesOn
<1>1. CASE UNCHANGED journal
  BY <1>1
<1>2. CASE RecordReplay \/ RecordTransaction
  BY <1>2, <1>t DEF RecordReplay, RecordTransaction, ReplayDue, Signing
<1>3. CASE RecordSigningReady
  BY <1>3, <1>t DEF RecordSigningReady, Signing
<1>4. CASE RecordSigningComplete \/ RecordKeyRemoved \/ RecordEntry
  <2>1. CASE RecordSigningComplete
    BY <2>1, <1>t DEF RecordSigningComplete, Signing
  <2>2. CASE RecordKeyRemoved
    BY <2>2, <1>t DEF RecordKeyRemoved, Signing
  <2>3. CASE RecordEntry
    BY <2>3, <1>t DEF RecordEntry, EntryDue, Publishing, Signing
  <2> QED BY <1>4, <2>1, <2>2, <2>3
<1>5. CASE Commit
  BY <1>5, <1>t DEF Commit, Signing
<1>6. ASSUME NEW k \in Keys, RecordRestored(k)
      PROVE  GoesOn
  BY <1>6, <1>t DEF RecordRestored
<1>7. CASE RecordSigningResponse \/ RecordSignature
  BY <1>7, <1>t DEF RecordSigningResponse, RecordSignature, Completing
<1>8. ASSUME NEW kind \in Kinds, RecordStage(kind) \/ RecordArtifact(kind)
      PROVE  GoesOn
  <2>1. CASE RecordStage(kind)
    BY <2>1, <1>t DEF RecordStage
  <2>2. CASE RecordArtifact(kind)
    BY <2>2, <1>t DEF RecordArtifact
  <2> QED BY <1>8, <2>1, <2>2
<1>9. CASE RecordTerminal
  BY <1>9, <1>t DEF RecordTerminal
<1>10. ASSUME NEW r \in Requests, BeginSigning(r) PROVE FALSE
  BY <1>10 DEF BeginSigning, NoUnresolvedState
<1> QED BY <1>t, <1>1, <1>2, <1>3, <1>4, <1>5, <1>6, <1>7, <1>8, <1>9, <1>10 DEF Effects,
   JournalStep

(* While a signing is journaled nothing is decided.                          *)
LEMMA NoDecisionUnderJournal ==
    ASSUME Locked, SigningJournaled PROVE ~DecisionStep
<1>1. actor.process \notin {"decide", "finalize"} /\ ~NoUnresolvedState
  BY DEF Locked, OneJournal, NoUnresolvedState
<1> QED BY <1>1 DEF DecisionStep, BeginDecision, Command, FinalizationSteps, StageOutcome,
   PublishAbandonment, StagePointer, PublishFinalizationJournal, PublishOutcome,
   RecordOutcome, PublishActive, RecordActive, RemoveOldActive, RemoveFinalizationJournal,
   DecisionFails, DecisionKilled, Deciding, FinalizationPhase

(* ... and without a journal, signing only begins.                           *)
LEMMA NothingWithoutJournal ==
    ASSUME TypeOK, Locked, ~SigningJournaled, [Next]_vars
    PROVE  \/ \E r \in Requests : BeginSigning(r)
           \/ /\ UNCHANGED << journal, database, work, key_copies, transactions, candidates, responses,
                              replay_requests, replay_nonces, trust_of >>
              /\ ~Preflight /\ ~RemoveSigningJournal
<1> USE DEF SigningJournaled
<1>e. Effects /\ actor.process \notin {"sign", "handle", "recover"}
  BY StepEffects DEF Locked
<1>1. ~Recovering /\ ~ReplayDue /\ \A s : ~Signing(s)
  BY <1>e DEF Recovering, ReplayDue, Signing
<1>2. ~RollingBack /\ ~Completing /\ ~Checked /\ ~TerminalDue /\ ~EntryDue
  BY <1>1 DEF RollingBack, Completing, Checked, TerminalDue, EntryDue, Publishing
<1>3. /\ ~Preflight /\ ~RemoveSigningJournal
      /\ \A k \in Keys : ~RollbackEntry(k) /\ ~RemoveDisplacedBackup(k) /\ ~RecordRestored(k)
  BY <1>1, <1>2 DEF Preflight, RemoveSigningJournal, RollbackEntry, RemoveDisplacedBackup,
     RecordRestored, RollbackDue
<1>4. /\ UNCHANGED journal \/ \E r \in Requests : BeginSigning(r)
      /\ UNCHANGED database \/ \E r \in Requests : BeginSigning(r)
  BY <1>e, <1>1, <1>2, <1>3 DEF Effects, JournalStep, DatabaseStep, RecordReplay,
     RecordTransaction, RecordSigningReady, RecordSigningComplete, RecordKeyRemoved,
     RecordEntry, Commit, RecordSigningResponse, RecordSignature, RecordStage, RecordArtifact,
     StageDue, ArtifactDue, RecordTerminal, PublishEntry
<1>5. UNCHANGED << work, transactions >>
  BY <1>e, <1>1, <1>2, <1>3 DEF Effects, WorkStep, TransactionStep, CopyDatabase,
     PublishEntry, RemoveDisplacedEntry, RunOpenssl, SignResponse, CreateStage, FillStage,
     PublishArtifact, StageDue, ArtifactDue, EndStep, SigningFails, SigningStops,
     CreateTransaction, StageProtocol, CreateTerminalDirectory, WriteTerminal
<1>6. UNCHANGED << key_copies, candidates, responses, replay_requests, replay_nonces, trust_of >>
  BY <1>e, <1>1, <1>2 DEF Effects, CopyKey, RemoveSigningKey, RemoveKeyCopy, PublishArtifact,
     ArtifactDue, ReserveRequest, ReserveNonce, StageProtocol
<1> QED BY <1>3, <1>4, <1>5, <1>6

(* Whoever starts, ends or is killed, the two locks keep the processes apart. *)
LEMMA LockedNext ==
    ASSUME TypeOK, Named, Locked, [Next]_vars
    PROVE  Locked'
<1> USE DEF Locked, OneJournal, SigningJournaled
<1>e. Effects
  BY StepEffects
<1>j. SigningJournaled => RemoveSigningJournal \/ GoesOn
  BY JournalGoesOn
<1>t. NoJournal.phase = "none" /\ actor \in [process : Processes, checked : BOOLEAN]
  BY DEF NoJournal, TypeOK, SigningTypeOK
<1>1. CASE RemoveSigningJournal
  BY <1>1, <1>t DEF RemoveSigningJournal, Checked, Recovering, Idle, TerminalFrame,
     RecoveryFrame, history_vars, Finalizing
<1>2. CASE SigningJournaled /\ ~RemoveSigningJournal
  <2>1. GoesOn
    BY <1>2, <1>j
  <2>2. UNCHANGED finalization
    BY <1>2, <1>e, NoDecisionUnderJournal DEF Effects
  <2>3. ASSUME ActorStep
        PROVE  /\ actor'.process \in {"none", "handle", "recover"} \/ Preflight
               /\ actor'.checked => Preflight
    BY <1>2, <2>3, <1>t, NoDecisionUnderJournal DEF ActorStep, DecisionStep,
       FinalizationSteps, BeginSigning, BeginHandler, BeginRecovery,
       BeginFinalizationRecovery, BeginDecision, Command, NoUnresolvedState, Ends,
       SigningFails, SigningStops, DecisionFails, DecisionKilled, FinalizationStops, Idle
  <2>4. ASSUME Preflight PROVE Locked'
    BY <1>2, <2>1, <2>2, <2>4, <1>t DEF Preflight, GoesOn, Finalizing, signing_vars,
       history_vars
  <2> QED BY <1>2, <1>e, <1>t, <2>1, <2>2, <2>3, <2>4 DEF Effects, GoesOn, Finalizing
<1>3. CASE ~SigningJournaled
  <2>1. ASSUME NEW r \in Requests, BeginSigning(r) PROVE Locked'
    BY <2>1 DEF BeginSigning, NoUnresolvedState, Idle, InitialJournal, NoJournal, Finalizing
  <2>2. ASSUME UNCHANGED journal, ~Preflight, ~RemoveSigningJournal PROVE Locked'
    <3> DEFINE UnderLock == /\ actor'.process = "decide" => ~Finalizing'
                            /\ actor'.process = "finalize" => Finalizing'
                            /\ actor'.process \notin {"sign", "handle", "recover"}
    <3>0. SUFFICES UnderLock
      BY <1>3, <2>2
    <3> USE DEF Finalizing
    <3>1. ASSUME NEW r \in Requests, NEW action \in {"finalize", "abandon"}, BeginDecision(r, action)
          PROVE  UnderLock
      BY <3>1 DEF BeginDecision, Command, NoUnresolvedState, Idle
    <3>2. CASE PublishFinalizationJournal
      BY <3>2 DEF PublishFinalizationJournal
    <3>3. CASE RemoveFinalizationJournal
      BY <3>3 DEF RemoveFinalizationJournal, NoFinalization, Idle
    <3>4. CASE StageOutcome \/ PublishAbandonment \/ StagePointer
      BY <1>3, <3>4 DEF StageOutcome, PublishAbandonment, StagePointer, Deciding, Idle
    <3>5. CASE PublishOutcome \/ RecordOutcome \/ PublishActive \/ RecordActive \/ RemoveOldActive
      BY <1>3, <3>5 DEF PublishOutcome, RecordOutcome, PublishActive, RecordActive,
         RemoveOldActive, FinalizationPhase, TypeOK, HistoryTypeOK
    <3>6. CASE Ends
      BY <3>6 DEF Ends, SigningFails, SigningStops, DecisionFails, DecisionKilled,
         FinalizationStops, Idle
    <3>7. CASE BeginRecovery \/ \E r \in Requests : BeginHandler(r)
      BY <1>3, <3>7 DEF BeginRecovery, BeginHandler
    <3>8. CASE BeginFinalizationRecovery
      BY <3>8 DEF BeginFinalizationRecovery, history_vars
    <3>9. CASE UNCHANGED actor /\ UNCHANGED finalization
      BY <1>3, <3>9
    <3>10. ASSUME NEW r \in Requests, BeginSigning(r) PROVE FALSE
      BY <1>3, <2>2, <3>10 DEF BeginSigning, InitialJournal, NoJournal
    <3> QED BY <1>e, <2>2, <3>1, <3>2, <3>3, <3>4, <3>5, <3>6, <3>7, <3>8, <3>9, <3>10 DEF
       Effects, DecisionStep, ActorStep, FinalizationSteps, Ends
  <2> QED BY <1>3, <2>1, <2>2, NothingWithoutJournal
<1> QED BY <1>1, <1>2, <1>3

(* The repository before its first signing.                                  *)
LEMMA FirstState == Init => TypeOK /\ Named /\ Locked
<1> SUFFICES ASSUME Init PROVE TypeOK /\ Named /\ Locked
  OBVIOUS
<1> USE DEF Init, SigningInit, HistoryInit
<1>1. journal \in JournalType
  BY StepNames, DatabaseKeys DEF NoJournal, JournalType, Files, NoFile
<1>2. PICK old \in {NoFile, Original} :
        database = [k \in Keys |-> CASE k \in {"index", "index_attr", "serial"} -> Original
                                     [] k = "newcert" -> NoFile [] OTHER -> old]
  OBVIOUS
<1>3. database \in [Keys -> Files]
  BY <1>2 DEF Files, NoFile, Original
<1>4. SigningTypeOK
  BY <1>1, <1>3 DEF SigningTypeOK, NoWork, WorkType, Idle, Processes, Nonces
<1>5. HistoryTypeOK
  <2>1. trust \in Trusts /\ trust_of \in [Requests -> Trusts]
    BY TrustAssumption DEF Trusts
  <2>2. entries \in [DOMAIN NoEntries -> BOOLEAN]
    <3>1. /\ DOMAIN NoEntries = {"candidates", "outcomes", "lost_outcome", "lost_pointer"}
          /\ \A x \in DOMAIN NoEntries : NoEntries[x] = FALSE
      BY DEF NoEntries
    <3>2. NoEntries = [x \in DOMAIN NoEntries |-> FALSE]
      BY <3>1 DEF NoEntries
    <3> QED BY <3>2
  <2> QED BY <2>1, <2>2 DEF HistoryTypeOK, NoDecision, NoStage, NoFinalization, Nobody
<1>6. Named /\ Locked
  BY DEF Named, Locked, OneJournal, SigningJournaled, Finalizing, NoJournal, NoFinalization,
     Idle
<1> QED BY <1>4, <1>5, <1>6 DEF TypeOK

(* The base every other invariant is proved over.                            *)
Base == TypeOK /\ Named /\ Locked

(* Types, names and locks together are inductive.                            *)
LEMMA BaseNext == ASSUME Base, [Next]_vars PROVE Base'
BY JournalTyped, SigningTyped, HistoryTyped, LockedNext DEF Base, TypeOK

(* Every field of the state has its type, whatever processes are killed and  *)
(* whatever is started next.                                                 *)
THEOREM CsrTypeCorrect == Spec => []TypeOK
<1>1. Init => Base
  BY FirstState DEF Base
<1>2. Base /\ [Next]_vars => Base'
  BY BaseNext
<1>3. Base => TypeOK
  BY DEF Base
<1> QED BY <1>1, <1>2, <1>3, PTL DEF Spec

(* A signing journal and a finalization journal never exist together, so the *)
(* recovery a user must run is never ambiguous.                              *)
THEOREM NeverBothJournals == Spec => []OneJournal
<1>1. Init => Base
  BY FirstState DEF Base
<1>2. Base /\ [Next]_vars => Base'
  BY BaseNext
<1>3. Base => OneJournal
  BY DEF Base, Locked
<1> QED BY <1>1, <1>2, <1>3, PTL DEF Spec

------------------------------------------------------------------------------
(* A decision that runs: its request is undecided and builds on the active   *)
(* one, and only a finalization stages a pointer.                            *)
DecisionOpen ==
    LET r == deciding.request
    IN  /\ r \in Requests /\ outcomes[r] = "none" /\ active = PredecessorOf(r)
        /\ staged.outcome \in {"nobody", r} /\ staged.pointer \in {"nobody", r}
        /\ staged.pointer # "nobody" => deciding.action = "finalize" /\ staged.outcome = r
        /\ r \in candidates \cap responses \cap exported /\ transactions[r].holds = "files"

(* A journaled one: how far outcome and pointer are, phase by phase.         *)
FinalizationOpen ==
    LET r == finalization.request
        pre == finalization.pre
    IN  /\ r \in Requests /\ pre = PredecessorOf(r) /\ pre # r
        /\ r \in candidates \cap responses \cap exported /\ transactions[r].holds = "files"
        /\ \/ outcomes[r] = "none" /\ staged.outcome = r /\ finalization.phase = "planned"
           \/ outcomes[r] = "finalize" /\ staged.outcome = "nobody"
        /\ \/ active = pre /\ staged.pointer = r
           \/ active = r /\ staged.pointer \in {"nobody", pre} /\ finalization.phase # "planned"
        /\ finalization.phase = "active-published" => active = r

(* Decisions and their journal together, phase by phase.                     *)
DecisionInv ==
    /\ active # "nobody" => active \in Requests /\ outcomes[active] = "finalize"
    /\ ~Finalizing => finalization = NoFinalization
    /\ ~Deciding /\ ~Finalizing => staged = NoStage
    /\ Deciding => DecisionOpen
    /\ Finalizing => FinalizationOpen

(* What a decision rests on stays where it is.                               *)
LEMMA SourcesStay ==
    ASSUME Base, [Next]_vars
    PROVE  /\ candidates \subseteq candidates' /\ responses \subseteq responses'
           /\ exported \subseteq exported' /\ outcome_exports \subseteq outcome_exports'
           /\ \A r \in Requests : transactions[r].holds = "files" => transactions'[r].holds = "files"
<1> USE DEF Base
<1>1. Effects /\ transactions \in [Requests -> [holds : {"absent", "empty", "files"},
                         terminal : {"none", "failed-pre-commit", "published"}]]
  BY StepEffects DEF TypeOK, SigningTypeOK
<1>2. candidates \subseteq candidates' /\ responses \subseteq responses'
  BY <1>1 DEF Effects, PublishArtifact
<1>3. exported \subseteq exported' /\ outcome_exports \subseteq outcome_exports'
  BY <1>1 DEF Effects, ExportCertificate, ExportOutcome
<1>4. \A r \in Requests : transactions[r].holds = "files" => transactions'[r].holds = "files"
  <2>1. CASE CreateTransaction \/ StageProtocol \/ CreateTerminalDirectory
    BY <1>1, <2>1 DEF CreateTransaction, StageProtocol, CreateTerminalDirectory, Transaction
  <2>2. CASE WriteTerminal
    BY <1>1, <2>2 DEF WriteTerminal
  <2>3. CASE EndStep
    BY <1>1, <2>3 DEF EndStep, SigningEnds, TornWrite
  <2> QED BY <1>1, <2>1, <2>2, <2>3 DEF Effects, TransactionStep
<1> QED BY <1>2, <1>3, <1>4

(* Every step of a decision and of its recovery keeps the phase table.       *)
LEMMA DecisionNext ==
    ASSUME Base, DecisionInv, [Next]_vars
    PROVE  DecisionInv'
<1>e. Effects /\ TypeOK /\ TypeOK' /\ Locked
  BY StepEffects, BaseNext DEF Base
<1>s. /\ candidates \subseteq candidates' /\ responses \subseteq responses'
      /\ exported \subseteq exported'
      /\ \A r \in Requests : transactions[r].holds = "files" => transactions'[r].holds = "files"
  BY SourcesStay
<1>n. "nobody" \notin Requests
  BY RequestsAssumption
<1>t. /\ outcomes \in [Requests -> {"none", "finalize", "abandon"}]
      /\ finalization \in [request : Nobody, phase : {"none", "planned", "outcome-published",
                                                     "active-published"}, pre : Nobody]
      /\ staged \in [outcome : Nobody, pointer : Nobody]
      /\ deciding \in [request : Nobody, action : {"none", "finalize", "abandon"}]
      /\ active \in Nobody
  BY <1>e DEF TypeOK, HistoryTypeOK
<1> USE DEF DecisionInv, Deciding, Finalizing
<1>1. ASSUME UNCHANGED << outcomes, active, deciding, staged, finalization >>,
             actor'.process = "decide" <=> actor.process = "decide"
      PROVE  DecisionInv'
  BY <1>1, <1>s DEF DecisionOpen, FinalizationOpen, PredecessorOf
<1>2. ASSUME NEW r \in Requests, NEW action \in {"finalize", "abandon"}, BeginDecision(r, action)
      PROVE  DecisionInv'
  <2>1. /\ staged = NoStage /\ deciding' = [request |-> r, action |-> action]
        /\ UNCHANGED << candidates, responses, transactions, outcomes, active, staged, finalization, exported >>
        /\ outcomes[r] = "none" /\ ~Finalizing /\ actor'.process = "decide"
        /\ r \in candidates \cap responses \cap exported /\ transactions[r].holds = "files"
    BY <1>2, <1>t DEF BeginDecision, Command, NoUnresolvedState, Idle, MayDecide, Decided,
       Authentic, signing_vars
  <2>2. active = PredecessorOf(r)
    BY <1>2 DEF BeginDecision, MayDecide, PredecessorAccepted, PredecessorOf
  <2> QED BY <2>1, <2>2 DEF DecisionOpen, NoStage, PredecessorOf
<1>3. CASE StageOutcome \/ StagePointer
  BY <1>3, <1>t, <1>e DEF StageOutcome, StagePointer, DecisionFrame, signing_vars,
     DecisionOpen, PredecessorOf, Locked
<1>4. CASE PublishAbandonment
  <2>1. deciding.request # active
    BY <1>4, <1>n DEF PublishAbandonment, DecisionOpen
  <2> QED BY <1>4, <1>t, <1>e, <2>1 DEF PublishAbandonment, Idle, Locked
<1>5. CASE PublishFinalizationJournal
  <2>1. deciding.request # active
    BY <1>5, <1>n DEF PublishFinalizationJournal, DecisionOpen
  <2> QED BY <1>5, <1>t, <1>n, <2>1 DEF PublishFinalizationJournal, DecisionFrame,
     signing_vars, DecisionOpen, FinalizationOpen, PredecessorOf
<1>6. CASE PublishOutcome
  BY <1>6, <1>t, <1>n DEF PublishOutcome, OutcomePublished, FinalizationPhase, DecisionFrame,
     signing_vars, FinalizationOpen, PredecessorOf
<1>7. CASE RecordOutcome \/ PublishActive
  BY <1>7, <1>t, <1>n DEF RecordOutcome, PublishActive, PointerStaged, OutcomePublished,
     FinalizationPhase, DecisionFrame, signing_vars, FinalizationOpen, PredecessorOf
<1>8. CASE RecordActive \/ RemoveOldActive
  BY <1>8, <1>t, <1>n DEF RecordActive, RemoveOldActive, PointerPublished, FinalizationPhase,
     DecisionFrame, signing_vars, FinalizationOpen, PredecessorOf
<1>9. CASE RemoveFinalizationJournal
  BY <1>9, <1>t, <1>n DEF RemoveFinalizationJournal, FinalizationPhase, NoFinalization,
     NoStage, Idle, FinalizationOpen
<1>10. CASE DecisionFails \/ DecisionKilled
  BY <1>10, <1>e DEF DecisionFails, DecisionKilled, Idle, Locked
<1>11. CASE UNCHANGED << outcomes, active, deciding, staged, finalization >> /\ ActorStep
  BY <1>1, <1>2, <1>10, <1>11, <1>e, <1>t, <1>4, <1>5, <1>9 DEF ActorStep, BeginSigning,
     BeginHandler, BeginRecovery, BeginFinalizationRecovery, Ends, Preflight,
     RemoveSigningJournal, Checked, Recovering, SigningFails, SigningStops, FinalizationStops,
     Idle, TypeOK, SigningTypeOK
<1>12. CASE UNCHANGED << outcomes, active, deciding, staged, finalization >> /\ UNCHANGED actor
  BY <1>1, <1>12
<1> QED BY <1>e, <1>2, <1>3, <1>4, <1>5, <1>6, <1>7, <1>8, <1>9, <1>10, <1>11, <1>12 DEF
   Effects, DecisionStep, FinalizationSteps

(* Nothing is decided at first.                                              *)
LEMMA DecisionFirst == Init => DecisionInv
<1> SUFFICES ASSUME Init PROVE DecisionInv
  OBVIOUS
<1> QED BY DEF Init, SigningInit, HistoryInit, DecisionInv, Deciding, Finalizing, Idle,
   NoFinalization

(* Once decided, a request stays decided; exports stay; and the active pointer *)
(* moves only to a request that names the old one as its predecessor, however *)
(* often the decision and its recovery are interrupted.                      *)
THEOREM HistoryOnlyGrows == Spec => HistoryGrows
<1> DEFINE Grows ==
      /\ \A r \in Requests : Decided(r) => outcomes'[r] = outcomes[r]
      /\ exported \subseteq exported' /\ outcome_exports \subseteq outcome_exports'
      /\ active # "nobody" /\ active' # active => PredecessorOf(active') = active
<1>1. Base /\ DecisionInv /\ [Next]_vars => [Grows]_vars
  <2> SUFFICES ASSUME Base, DecisionInv, [Next]_vars PROVE Grows
    OBVIOUS
  <2>e. Effects /\ Locked
    BY StepEffects DEF Base
  <2>1. exported \subseteq exported' /\ outcome_exports \subseteq outcome_exports'
    BY SourcesStay
  <2>2. outcomes \in [Requests -> {"none", "finalize", "abandon"}]
    BY DEF Base, TypeOK, HistoryTypeOK
  <2>3. CASE PublishAbandonment \/ PublishOutcome
    BY <2>1, <2>2, <2>3 DEF PublishAbandonment, PublishOutcome, FinalizationPhase, Finalizing,
       OutcomePublished, Decided, DecisionInv, DecisionOpen, FinalizationOpen
  <2>4. CASE PublishActive
    BY <2>1, <2>4 DEF PublishActive, FinalizationPhase, Finalizing, PointerStaged,
       DecisionInv, FinalizationOpen
  <2>5. CASE UNCHANGED << outcomes, active >>
    BY <2>1, <2>5
  <2>6. DecisionStep => UNCHANGED << outcomes, active >> \/ PublishAbandonment \/ PublishOutcome \/ PublishActive
    BY DEF DecisionStep, BeginDecision, FinalizationSteps, StageOutcome, StagePointer,
       PublishFinalizationJournal, RecordOutcome, RecordActive, RemoveOldActive,
       RemoveFinalizationJournal, DecisionFails, DecisionKilled
  <2> QED BY <2>e, <2>3, <2>4, <2>5, <2>6 DEF Effects
<1>2. Init => Base /\ DecisionInv
  BY FirstState, DecisionFirst DEF Base
<1>3. Base /\ DecisionInv /\ [Next]_vars => Base' /\ DecisionInv'
  BY BaseNext, DecisionNext
<1> QED BY <1>1, <1>2, <1>3, PTL DEF Spec, HistoryGrows

(* A finalization that was interrupted, anywhere, is one its recovery accepts. *)
THEOREM FinalizationResumes == Spec => [](Finalizing => PreflightFinalization)
<1>1. Base /\ DecisionInv => (Finalizing => PreflightFinalization)
  <2> SUFFICES ASSUME Base, DecisionInv, Finalizing PROVE PreflightFinalization
    OBVIOUS
  <2>1. FinalizationOpen /\ finalization.phase \in {"planned", "outcome-published", "active-published"}
    BY DEF DecisionInv, Base, TypeOK, HistoryTypeOK, Finalizing
  <2>2. "nobody" \notin Requests
    BY RequestsAssumption
  <2>3. SourcesRetained /\ OutcomeState
    BY <2>1, <2>2 DEF FinalizationOpen, SourcesRetained, OutcomeState, OutcomePublished
  <2>4. ActiveState
    BY <2>1, <2>2 DEF FinalizationOpen, ActiveState, PointerStaged, PointerPublished
  <2>5. PhaseState
    BY <2>1, <2>2 DEF FinalizationOpen, PhaseState, OutcomePublished, PointerPublished
  <2> QED BY <2>3, <2>4, <2>5 DEF PreflightFinalization
<1>2. Init => Base /\ DecisionInv
  BY FirstState, DecisionFirst DEF Base
<1>3. Base /\ DecisionInv /\ [Next]_vars => Base' /\ DecisionInv'
  BY BaseNext, DecisionNext
<1> QED BY <1>1, <1>2, <1>3, PTL DEF Spec
------------------------------------------------------------------------------
(* The finalized requests form one line of renewals that the active pointer  *)
(* ends: the invariant behind ActiveIsHead.  Line numbers them from the first, *)
(* which renews nothing, and each renews the one before.                     *)
Line(s, m) ==
    /\ m \in Nat /\ s \in [1..m -> Requests]
    /\ \A i, j \in 1..m : s[i] = s[j] => i = j
    /\ \A i \in 1..m : PredecessorOf(s[i]) = IF i = 1 THEN "nobody" ELSE s[i - 1]

(* Every set of naturals has a least element: what an induction over the     *)
(* recursive function of ChainOf needs, read off its smallest counterexample. *)
LEMMA LeastNatural ==
    ASSUME NEW T, T \subseteq Nat, T # {}
    PROVE  \E n \in T : \A m \in T : n <= m
<1> DEFINE Down(n) == 0..n
           D == {Down(n) : n \in T}
<1>1. D \subseteq FiniteSubsetsOf(Nat) /\ D # {}
  <2>1. ASSUME NEW n \in T PROVE Down(n) \in FiniteSubsetsOf(Nat)
    <3>1. IsFiniteSet(0..n)
      BY FS_Interval
    <3> QED BY <3>1 DEF FiniteSubsetsOf
  <2> HIDE DEF Down
  <2> QED BY <2>1
<1>2. IsWellFoundedOn(StrictSubsetOrdering(Nat), FiniteSubsetsOf(Nat))
  BY FS_StrictSubsetOrderingWellFounded
<1>3. \E x \in D : \A y \in D : ~(<<y, x>> \in StrictSubsetOrdering(Nat))
  <2> HIDE DEF D
  <2> QED BY <1>1, <1>2, WFMin
<1>4. PICK n \in T : \A m \in T : ~(<<Down(m), Down(n)>> \in StrictSubsetOrdering(Nat))
  BY <1>3
<1>5. ASSUME NEW m \in T, m < n PROVE FALSE
  <2>1. Down(m) \subseteq Down(n) /\ Down(m) # Down(n) /\ Down(n) \subseteq Nat
    BY <1>5
  <2>2. <<Down(m), Down(n)>> \in StrictSubsetOrdering(Nat)
    BY <2>1 DEF StrictSubsetOrdering
  <2> QED BY <2>2, <1>4
<1> QED BY <1>5

(* The chain of the last request of a line is the line: the recursion of     *)
(* ChainOf goes back one request at a time and goes far enough.              *)
LEMMA ChainOfLine ==
    ASSUME NEW m, NEW s, Line(s, m), m > 0
    PROVE  ChainOf(s[m]) = {s[i] : i \in 1..m}
<1> DEFINE K == Cardinality(Requests)
           Before(X) == X \cup {PredecessorOf(x) : x \in X \cap Requests}
           Unfold(f) == [n \in 0..K |-> IF n = 0 THEN {s[m]} ELSE Before(f[n - 1])]
           reach == CHOOSE f : f = Unfold(f)
           A(n) == {s[i] : i \in {j \in 1..m : j >= m - n}}
                      \cup IF n >= m THEN {"nobody"} ELSE {}
<1>m. /\ m \in Nat /\ \A i \in 1..m : s[i] \in Requests
      /\ \A i \in 1..m : PredecessorOf(s[i]) = IF i = 1 THEN "nobody" ELSE s[i - 1]
  BY DEF Line
<1>1. ChainOf(s[m]) = reach[K] \cap Requests
  BY DEF ChainOf
<1>2. K \in Nat /\ m <= K
  <2>1. IsFiniteSet(Requests) /\ IsFiniteSet(1..m) /\ Cardinality(1..m) = m
    BY RequestsAssumption, FS_Interval DEF Line
  <2>2. s \in Injection(1..m, Requests)
    BY DEF Line, Injection, IsInjective
  <2> QED BY <2>1, <2>2, FS_Injection, FS_CardinalityType
<1>3. A(0) = {s[m]}
  BY DEF Line
<1>4. ASSUME NEW n \in Nat \ {0} PROVE A(n) = Before(A(n - 1))
  <2>0. "nobody" \notin Requests /\ m \in Nat /\ \A i \in 1..m : s[i] \in Requests
    BY RequestsAssumption DEF Line
  <2>1. ASSUME NEW x, x \in A(n) PROVE x \in Before(A(n - 1))
    <3>1. CASE x \in A(n - 1)
      BY <3>1
    <3>2. CASE \E j \in 1..m : j >= m - n /\ ~(j >= m - (n - 1)) /\ x = s[j]
      <4>1. PICK j \in 1..m : j = m - n /\ x = s[j]
        BY <2>0, <3>2
      <4>2. j + 1 \in 1..m /\ j + 1 >= m - (n - 1) /\ PredecessorOf(s[j + 1]) = s[j]
        BY <2>0, <4>1, <1>m DEF Line
      <4>3. s[j + 1] \in A(n - 1) \cap Requests
        BY <2>0, <4>2
      <4> HIDE DEF A
      <4> QED BY <4>1, <4>2, <4>3
    <3>3. CASE x = "nobody" /\ n = m
      <4>1. 1 \in 1..m /\ 1 >= m - (n - 1) /\ PredecessorOf(s[1]) = "nobody"
        BY <2>0, <3>3, <1>m DEF Line
      <4>2. s[1] \in A(n - 1) \cap Requests
        BY <2>0, <4>1
      <4> HIDE DEF A
      <4> QED BY <3>3, <4>1, <4>2
    <3> QED BY <2>0, <2>1, <3>1, <3>2, <3>3
  <2>2. ASSUME NEW x, x \in Before(A(n - 1)) PROVE x \in A(n)
    <3>1. CASE x \in A(n - 1)
      BY <2>0, <3>1
    <3>2. CASE \E y \in A(n - 1) \cap Requests : x = PredecessorOf(y)
      <4>1. PICK i \in 1..m : i >= m - (n - 1) /\ x = PredecessorOf(s[i])
        BY <2>0, <3>2
      <4>2. CASE i = 1
        BY <2>0, <4>1, <4>2 DEF Line
      <4>3. CASE i # 1
        <5>1. i - 1 \in 1..m /\ i - 1 >= m - n /\ x = s[i - 1]
          BY <2>0, <4>1, <4>3, <1>m DEF Line
        <5> QED BY <5>1
      <4> QED BY <4>2, <4>3
    <3> QED BY <2>2, <3>1, <3>2
  <2> QED BY <2>1, <2>2
<1> HIDE DEF A
<1>5. [n \in 0..K |-> A(n)] = Unfold([n \in 0..K |-> A(n)])
  <2> DEFINE g == [n \in 0..K |-> A(n)]
  <2>1. \A n \in 0..K : g[n] = IF n = 0 THEN {s[m]} ELSE Before(g[n - 1])
    <3> HIDE DEF Before
    <3> QED BY <1>2, <1>3, <1>4
  <2> HIDE DEF Before
  <2> QED BY <2>1
<1>6. reach = Unfold(reach)
  <2> HIDE DEF Unfold
  <2> QED BY <1>5
<1>7. \A n \in 0..K : reach[n] = A(n)
  <2> HIDE DEF reach, Before
  <2> DEFINE Bad == {n \in 0..K : reach[n] # A(n)}
  <2>1. SUFFICES ASSUME Bad # {} PROVE FALSE
    OBVIOUS
  <2>2. PICK n \in Bad : \A k \in Bad : n <= k
    <3>1. Bad \subseteq Nat
      BY <1>2
    <3> HIDE DEF Bad
    <3> QED BY <2>1, <3>1, LeastNatural
  <2>3. CASE n = 0
    BY <1>2, <1>3, <1>6, <2>2, <2>3
  <2>4. CASE n # 0
    <3>1. n - 1 \in 0..K /\ n - 1 \notin Bad
      BY <1>2, <2>2, <2>4
    <3>2. reach[n] = Before(reach[n - 1])
      BY <1>2, <1>6, <2>2, <2>4
    <3> QED BY <1>2, <1>4, <2>2, <2>4, <3>1, <3>2
  <2> QED BY <2>3, <2>4
<1>8. A(K) \cap Requests = {s[i] : i \in 1..m}
  <2>1. \A j \in 1..m : j >= m - K
    BY <1>2, <1>m
  <2> QED BY <2>1, RequestsAssumption DEF Line, A
<1> QED BY <1>1, <1>2, <1>7, <1>8

(* What the pointer acknowledges: a request whose outcome is published before *)
(* its pointer, under a finalization journal, is not yet one of the line.    *)
Finalized == {r \in Requests : outcomes[r] = "finalize"}
Succeeded ==
    IF Finalizing /\ active # finalization.request
    THEN Finalized \ {finalization.request} ELSE Finalized

LineTo(s, m, set, head) ==
    /\ Line(s, m) /\ {s[i] : i \in 1..m} = set
    /\ head = IF m = 0 THEN "nobody" ELSE s[m]

Lineage == \E m \in Nat : \E s \in [1..m -> Requests] : LineTo(s, m, Succeeded, active)

(* A request that names the head as its predecessor makes a line one longer. *)
LEMMA LineExtends ==
    ASSUME NEW m, NEW s, NEW set, NEW head, LineTo(s, m, set, head),
           NEW r \in Requests, r \notin set, PredecessorOf(r) = head
    PROVE  \E t \in [1..m + 1 -> Requests] : LineTo(t, m + 1, set \cup {r}, r)
<1> DEFINE t == [i \in 1..m + 1 |-> IF i = m + 1 THEN r ELSE s[i]]
<1>1. m \in Nat /\ s \in [1..m -> Requests] /\ \A i \in 1..m : s[i] \in set
  BY DEF LineTo, Line
<1>2. /\ t \in [1..m + 1 -> Requests] /\ t[m + 1] = r
      /\ \A i \in 1..m : t[i] = s[i] /\ t[i] # r
  BY <1>1
<1> HIDE DEF t
<1>3. \A i, j \in 1..m + 1 : t[i] = t[j] => i = j
  <2>1. \A i \in 1..m + 1 : i = m + 1 \/ i \in 1..m
    BY <1>1
  <2> QED BY <1>2, <2>1 DEF LineTo, Line
<1>4. ASSUME NEW i \in 1..m + 1
      PROVE  PredecessorOf(t[i]) = IF i = 1 THEN "nobody" ELSE t[i - 1]
  <2>1. CASE i = m + 1
    <3>1. CASE m = 0
      BY <1>2, <2>1, <3>1 DEF LineTo
    <3>2. CASE m # 0
      BY <1>1, <1>2, <2>1, <3>2 DEF LineTo
    <3> QED BY <3>1, <3>2
  <2>2. CASE i \in 1..m
    <3>1. i # 1 => i - 1 \in 1..m
      BY <1>1, <2>2
    <3> QED BY <1>2, <2>2, <3>1 DEF LineTo, Line
  <2> QED BY <1>1, <2>1, <2>2
<1>5. {t[i] : i \in 1..m + 1} = set \cup {r}
  <2>1. set = {s[i] : i \in 1..m} /\ 1..m + 1 = 1..m \cup {m + 1}
    BY <1>1 DEF LineTo
  <2> QED BY <1>2, <2>1
<1>6. LineTo(t, m + 1, set \cup {r}, r)
  BY <1>1, <1>2, <1>3, <1>4, <1>5 DEF LineTo, Line
<1> QED BY <1>2, <1>6

(* Only the publication of a pointer makes the line longer.                  *)
LEMMA LineageNext ==
    ASSUME Base, DecisionInv, Lineage, [Next]_vars
    PROVE  Lineage'
<1>e. Effects /\ DecisionInv'
  BY StepEffects, DecisionNext
<1>t. /\ outcomes \in [Requests -> {"none", "finalize", "abandon"}]
      /\ finalization \in [request : Nobody, phase : {"none", "planned", "outcome-published",
                                                     "active-published"}, pre : Nobody]
  BY DEF Base, TypeOK, HistoryTypeOK
<1>1. ASSUME Succeeded' = Succeeded, active' = active PROVE Lineage'
  BY <1>1 DEF Lineage
<1>2. CASE UNCHANGED << outcomes, active, finalization >>
  BY <1>1, <1>2 DEF Succeeded, Finalized, Finalizing
<1>3. CASE PublishAbandonment
  BY <1>1, <1>3, <1>t DEF PublishAbandonment, Succeeded, Finalized, Finalizing, Deciding,
     DecisionInv, DecisionOpen
<1>4. CASE PublishFinalizationJournal
  <2>1. /\ ~Finalizing /\ Finalizing' /\ active' = active /\ Finalized' = Finalized
        /\ finalization'.request \notin Finalized
    BY <1>4 DEF PublishFinalizationJournal, Finalizing, Finalized, Deciding, Base, Locked,
       DecisionInv, DecisionOpen
  <2> QED BY <1>1, <2>1 DEF Succeeded
<1>5. CASE PublishOutcome
  <2>1. /\ Finalizing /\ Finalizing' /\ UNCHANGED << active, finalization >>
        /\ active # finalization.request
        /\ Finalized' = Finalized \cup {finalization.request}
    BY <1>5, <1>t DEF PublishOutcome, FinalizationPhase, Finalizing, Finalized, DecisionInv,
       FinalizationOpen
  <2> QED BY <1>1, <2>1 DEF Succeeded
<1>6. CASE PublishActive
  <2> DEFINE r == finalization.request
  <2>1. /\ Finalizing /\ active' = r /\ active = PredecessorOf(r)
        /\ active # r /\ r \in Requests
        /\ outcomes[r] = "finalize" /\ UNCHANGED << outcomes, finalization >>
    BY <1>6 DEF PublishActive, PointerStaged, FinalizationPhase, Finalizing, DecisionInv,
       FinalizationOpen
  <2>2. r \notin Succeeded /\ Succeeded' = Succeeded \cup {r}
    BY <2>1 DEF Succeeded, Finalized, Finalizing
  <2>3. PICK m \in Nat : \E s \in [1..m -> Requests] : LineTo(s, m, Succeeded, active)
    BY DEF Lineage
  <2>4. \E t \in [1..m + 1 -> Requests] : LineTo(t, m + 1, Succeeded \cup {r}, r)
    BY <2>1, <2>2, <2>3, LineExtends
  <2>5. m + 1 \in Nat
    OBVIOUS
  <2> QED BY <2>1, <2>2, <2>4, <2>5 DEF Lineage
<1>7. CASE RecordOutcome \/ RecordActive
  <2>1. /\ Finalizing /\ Finalizing' /\ UNCHANGED << outcomes, active >>
        /\ finalization'.request = finalization.request
    BY <1>7, <1>t DEF RecordOutcome, RecordActive, FinalizationPhase, Finalizing
  <2> QED BY <1>1, <2>1 DEF Succeeded, Finalized
<1>8. CASE RemoveFinalizationJournal
  <2>1. /\ active = finalization.request /\ ~Finalizing' /\ UNCHANGED << outcomes, active >>
    BY <1>8 DEF RemoveFinalizationJournal, FinalizationPhase, Finalizing, NoFinalization,
       DecisionInv, FinalizationOpen
  <2> QED BY <1>1, <2>1 DEF Succeeded, Finalized
<1>9. DecisionStep => \/ UNCHANGED << outcomes, active, finalization >>
                      \/ PublishAbandonment \/ PublishFinalizationJournal \/ PublishOutcome
                      \/ PublishActive \/ RecordOutcome \/ RecordActive
                      \/ RemoveFinalizationJournal
  BY DEF DecisionStep, BeginDecision, FinalizationSteps, StageOutcome, StagePointer,
     RemoveOldActive, DecisionFails, DecisionKilled
<1> QED BY <1>e, <1>2, <1>3, <1>4, <1>5, <1>6, <1>7, <1>8, <1>9 DEF Effects

(* No line is there before the first decision.                               *)
LEMMA LineageFirst == Init => Lineage
<1> SUFFICES ASSUME Init PROVE Lineage
  OBVIOUS
<1>1. active = "nobody" /\ Succeeded = {}
  BY DEF Init, HistoryInit, Succeeded, Finalized, Finalizing, NoFinalization
<1> DEFINE s == [i \in 1..0 |-> "nobody"]
<1>2. s \in [1..0 -> Requests] /\ LineTo(s, 0, Succeeded, active)
  BY <1>1 DEF LineTo, Line
<1> QED BY <1>2 DEF Lineage

(* Outside a finalization the line is all that was finalized: its last       *)
(* request is the only one nobody renews, and its chain is the line.         *)
LEMMA LineHasHead ==
    ASSUME DecisionInv, Lineage
    PROVE  ActiveIsHead
<1> SUFFICES ASSUME ~Finalizing
             PROVE  /\ FinalizedHeads = {active} \ {"nobody"}
                    /\ active # "nobody" => ChainOf(active) = Finalized
  BY DEF ActiveIsHead, Finalized
<1>1. PICK m \in Nat : \E s \in [1..m -> Requests] : LineTo(s, m, Finalized, active)
  BY DEF Lineage, Succeeded
<1>2. PICK s \in [1..m -> Requests] : LineTo(s, m, Finalized, active)
  BY <1>1
<1>n. "nobody" \notin Requests
  BY RequestsAssumption
<1>3. Finalized = {s[i] : i \in 1..m} /\ Line(s, m)
  BY <1>2 DEF LineTo
<1>4. CASE m = 0
  <2>1. active = "nobody" /\ Finalized = {}
    BY <1>2, <1>3, <1>4 DEF LineTo
  <2> QED BY <2>1 DEF FinalizedHeads, Finalized
<1>5. CASE m > 0
  <2>1. active = s[m] /\ active \in Finalized /\ active # "nobody"
    BY <1>2, <1>3, <1>5, <1>n DEF LineTo, Line
  <2>2. ChainOf(active) = Finalized
    BY <1>3, <1>5, <2>1, ChainOfLine
  <2>3. FinalizedHeads = Finalized \ {PredecessorOf(r) : r \in Finalized}
    BY DEF FinalizedHeads, Finalized
  <2>4. ASSUME NEW i \in 1..m, i # m PROVE s[i] \in {PredecessorOf(r) : r \in Finalized}
    <3>1. i + 1 \in 1..m /\ PredecessorOf(s[i + 1]) = s[i]
      BY <1>3, <2>4 DEF Line
    <3> QED BY <1>3, <3>1
  <2>5. ASSUME NEW i \in 1..m PROVE PredecessorOf(s[i]) # s[m]
    <3>1. i # 1 => i - 1 \in 1..m /\ i - 1 # m
      BY <2>5
    <3>2. m \in 1..m
      BY <1>5
    <3> QED BY <1>3, <1>n, <2>1, <3>1, <3>2 DEF Line
  <2> QED BY <1>3, <2>1, <2>2, <2>3, <2>4, <2>5
<1> QED BY <1>4, <1>5

(* When no finalization is interrupted, the active pointer names the one     *)
(* finalized request that no other renews, and its chain is all finalized    *)
(* requests, however the decisions and their recoveries were interrupted.    *)
THEOREM ActivePointsAtTheHead == Spec => []ActiveIsHead
<1>1. Init => Base /\ DecisionInv /\ Lineage
  BY FirstState, DecisionFirst, LineageFirst DEF Base
<1>2. Base /\ DecisionInv /\ Lineage /\ [Next]_vars => Base' /\ DecisionInv' /\ Lineage'
  BY BaseNext, DecisionNext, LineageNext
<1>3. DecisionInv /\ Lineage => ActiveIsHead
  BY LineHasHead
<1> QED BY <1>1, <1>2, <1>3, PTL DEF Spec
==============================================================================
