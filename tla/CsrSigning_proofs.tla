--------------------------- MODULE CsrSigning_proofs ---------------------------
(*****************************************************************************)
(* The signing journal and the CA database: proofs that whatever write a     *)
(* process is killed after, the journal parses; that a copy of the CA key is *)
(* always accounted for; that nothing is published without a commit; that the*)
(* commit is final; that undecided candidates were signed under the installed*)
(* trust; that between signings the files of the database are all of one     *)
(* committed signing; and that the life of a CSR implements CsrLedger.       *)
(*                                                                           *)
(* ParsesPlanned, ParsesCommitted and ParsesTerminal are the parser's checks *)
(* phase by phase (ParsesCases shows they are the same). SigningInv is the   *)
(* inductive invariant, one conjunct per concern: each is shown preserved    *)
(* from itself and from the conjuncts before it.                             *)
(*                                                                           *)
(* PublishInv counts the entries a signer has published against the ones its *)
(* journal records. DatabaseInv says, journal by journal, which signing each *)
(* file is of. Together with SigningInv they make every step a step of the   *)
(* ledger or a stutter (LedgerStep).                                         *)
(*                                                                           *)
(* EvidenceInv is what a recovery compares with the journal: the rollback    *)
(* copies, the transaction directory and its terminal record, the signature  *)
(* and the stages. With LedgerInv it leaves recovery five windows in which   *)
(* to refuse (RefusesOnlyInWindows).                                         *)
(*****************************************************************************)
EXTENDS CsrLifecycle_proofs

------------------------------------------------------------------------------
(* The steps of a journal before and after the commit.                       *)
PlannedNames == {"planned", "replay-reserved", "transaction-staged", "signing-ready",
                 "signing-complete", "sensitive-key-removed", "ca-published"}
CommittedNames == {"ca-committed", "response-signing", "response-signed",
                   "candidate-published", "response-published"}

(* The steps of the two running phases, as sets.                             *)
LEMMA StepTables ==
    /\ \A s : (\E i \in 1..7 : s = PlannedSteps[i]) <=> s \in PlannedNames
    /\ \A s : (\E i \in 1..5 : s = CommittedSteps[i]) <=> s \in CommittedNames
    /\ \A s \in PlannedNames :
          /\ Reached(s, "replay-reserved") = (s # "planned")
          /\ Reached(s, "transaction-staged") = (s \notin {"planned", "replay-reserved"})
          /\ Reached(s, "signing-complete") =
                (s \in {"signing-complete", "sensitive-key-removed", "ca-published"})
<1>1. /\ \A s : (\E i \in 1..7 : s = PlannedSteps[i]) <=> s \in PlannedNames
      /\ \A s : (\E i \in 1..5 : s = CommittedSteps[i]) <=> s \in CommittedNames
  BY DEF PlannedSteps, CommittedSteps, PlannedNames, CommittedNames
<1>b. \A s, t : Reached(s, t) \in BOOLEAN
  BY DEF Reached
<1>2. ASSUME NEW s \in PlannedNames
      PROVE  Reached(s, "replay-reserved") = (s # "planned")
  <2>1. Reached(s, "replay-reserved") <=> s # "planned"
    BY DEF Reached, PlannedSteps, PlannedNames
  <2> QED BY <1>b, <2>1
<1>3. ASSUME NEW s \in PlannedNames
      PROVE  Reached(s, "transaction-staged") = (s \notin {"planned", "replay-reserved"})
  <2>1. Reached(s, "transaction-staged") <=> s \notin {"planned", "replay-reserved"}
    BY DEF Reached, PlannedSteps, PlannedNames
  <2> QED BY <1>b, <2>1
<1>4. ASSUME NEW s \in PlannedNames
      PROVE  Reached(s, "signing-complete") =
                (s \in {"signing-complete", "sensitive-key-removed", "ca-published"})
  <2>1. Reached(s, "signing-complete") <=>
                s \in {"signing-complete", "sensitive-key-removed", "ca-published"}
    BY DEF Reached, PlannedSteps, PlannedNames
  <2> QED BY <1>b, <2>1
<1> QED BY <1>1, <1>2, <1>3, <1>4

ParsesPlanned(j) ==
    /\ ~j.committed /\ j.step \in PlannedNames
    /\ j.replay <=> (j.step # "planned")
    /\ j.transaction <=> (j.step \notin {"planned", "replay-reserved"})
    /\ j.trust <=> j.transaction
    /\ j.sensitive_key <=> (j.step \notin EarlySteps)
    /\ j.contract <=> j.sensitive_key
    /\ j.removed <=> (j.step \in {"sensitive-key-removed", "ca-published"})
    /\ j.artifacts <=> (j.step \in {"signing-complete", "sensitive-key-removed", "ca-published"})
    /\ (j.post > 0) <=> (j.step = "ca-published")
    /\ ~j.contract => \A k \in Keys : j.pre[k] = NoFile
    /\ ~j.signature /\ ~j.candidate_stage /\ ~j.candidate_destination
    /\ ~j.response_stage /\ ~j.response_destination

ParsesCommitted(j) ==
    /\ j.committed /\ j.step \in CommittedNames
    /\ j.replay /\ j.transaction /\ j.trust /\ j.artifacts /\ j.sensitive_key /\ j.removed
    /\ j.contract /\ j.post = 7
    /\ j.signature <=> (j.step \notin {"ca-committed", "response-signing"})
    /\ j.response_destination => j.candidate_destination
    /\ j.candidate_destination => j.response_stage
    /\ j.response_stage => j.candidate_stage
    /\ j.candidate_stage => j.signature
    /\ j.step = "response-signed" => ~j.response_destination
    /\ j.step = "candidate-published" => j.candidate_destination
    /\ j.step = "response-published" => j.response_destination

ParsesTerminal(j) ==
    /\ j.step = "journal-cleanup-pending" /\ j.removed /\ j.replay /\ j.transaction
    /\ j.contract <=> j.sensitive_key
    /\ (j.artifacts => j.sensitive_key)
    /\ j.sensitive_key => j.trust
    /\ j.post > 0 => j.artifacts
    /\ ~j.contract => j.post = 0 /\ \A k \in Keys : j.pre[k] = NoFile
    /\ j.signature <=> j.committed
    /\ j.candidate_stage <=> j.committed
    /\ j.candidate_destination <=> j.committed
    /\ j.response_stage <=> j.committed
    /\ j.response_destination <=> j.committed
    /\ j.committed => j.trust /\ j.artifacts /\ j.post = 7

(* The checks of parse_signing_journal come down to one table per phase.     *)
LEMMA ParsesCases ==
    ASSUME NEW j \in JournalType
    PROVE  /\ j.phase = "planned" => (Parses(j) <=> ParsesPlanned(j))
           /\ j.phase = "ca-committed" => (Parses(j) <=> ParsesCommitted(j))
           /\ j.phase = "terminal" => (Parses(j) <=> ParsesTerminal(j))
<1> USE DEF JournalType
<1>1. ASSUME j.phase = "planned" PROVE Parses(j) <=> ParsesPlanned(j)
  <2> USE DEF ConsistentPhase, ConsistentSensitiveKey, ConsistentDatabase, PlannedEvidence,
              Published, Nothing, EarlySteps, ParsesPlanned, PlannedNames
  <2>1. ConsistentPhase(j) <=> j.step \in PlannedNames /\ ~j.committed
    <3>1. ConsistentPhase(j) <=> ~j.committed /\ \E i \in 1..7 : j.step = PlannedSteps[i]
      BY <1>1
    <3> HIDE DEF ConsistentPhase, PlannedNames
    <3> QED BY <3>1, StepTables
  <2>s. j.step \in PlannedNames =>
          /\ Reached(j.step, "replay-reserved") = (j.step # "planned")
          /\ Reached(j.step, "transaction-staged") = (j.step \notin {"planned", "replay-reserved"})
          /\ Reached(j.step, "signing-complete") =
                (j.step \in {"signing-complete", "sensitive-key-removed", "ca-published"})
    <3> HIDE DEF PlannedNames
    <3> QED BY StepTables
  <2>2. ASSUME Parses(j) PROVE ParsesPlanned(j)
    <3>1. /\ ConsistentPhase(j) /\ ConsistentSensitiveKey(j) /\ ConsistentDatabase(j)
          /\ PlannedEvidence(j) /\ j.step \in PlannedNames /\ ~j.committed
      BY <1>1, <2>1, <2>2 DEF Parses
    <3>2. /\ j.replay = (j.step # "planned")
          /\ j.transaction = (j.step \notin {"planned", "replay-reserved"})
          /\ j.trust = j.transaction
          /\ j.artifacts = (j.step \in {"signing-complete", "sensitive-key-removed", "ca-published"})
      BY <3>1, <2>s
    <3>3. /\ ~j.signature /\ ~j.candidate_stage /\ ~j.candidate_destination
          /\ ~j.response_stage /\ ~j.response_destination
      BY <3>1
    <3>4. /\ j.sensitive_key = (j.step \notin EarlySteps)
          /\ j.removed = (j.step \in {"sensitive-key-removed", "ca-published"})
      BY <1>1, <3>1
    <3>5. /\ j.contract = j.sensitive_key /\ (j.post > 0) = (j.step = "ca-published")
          /\ ~j.contract => \A k \in Keys : j.pre[k] = NoFile
      BY <1>1, <3>1, <3>4
    <3> QED BY <3>1, <3>2, <3>3, <3>4, <3>5
  <2>3. ASSUME ParsesPlanned(j) PROVE PlannedEvidence(j)
    <3>1. /\ j.replay = (j.step # "planned")
          /\ j.transaction = (j.step \notin {"planned", "replay-reserved"})
          /\ j.trust = j.transaction
          /\ j.artifacts = (j.step \in {"signing-complete", "sensitive-key-removed", "ca-published"})
      BY <1>1, <2>3
    <3>2. Published(j) = Nothing /\ ~j.signature
      BY <1>1, <2>3
    <3> QED BY <2>3, <2>s, <3>1, <3>2
  <2>4. ASSUME ParsesPlanned(j) PROVE ConsistentPhase(j) /\ ConsistentSensitiveKey(j) /\ ConsistentDatabase(j)
    BY <1>1, <2>1, <2>4, DatabaseKeys
  <2> QED BY <1>1, <2>2, <2>3, <2>4 DEF Parses
<1>2. ASSUME j.phase = "ca-committed" PROVE Parses(j) <=> ParsesCommitted(j)
  BY <1>2, StepTables, DatabaseKeys DEF Parses, ConsistentPhase, ConsistentSensitiveKey,
     ConsistentDatabase, CommittedEvidence, Published, Nothing, EarlySteps, ParsesCommitted,
     CommittedNames
<1>3. ASSUME j.phase = "terminal" PROVE Parses(j) <=> ParsesTerminal(j)
  BY <1>3, StepTables, DatabaseKeys DEF Parses, ConsistentPhase, ConsistentSensitiveKey,
     ConsistentDatabase, TerminalEvidence, Published, Nothing, EarlySteps, ParsesTerminal
<1> QED BY <1>1, <1>2, <1>3

(* The parser's table for the journal on disk, phase by phase.               *)
LEMMA JournalTable ==
    ASSUME TypeOK, JournalParses
    PROVE  /\ journal \in JournalType
           /\ journal.phase = "planned" => ParsesPlanned(journal)
           /\ journal.phase = "ca-committed" => ParsesCommitted(journal)
           /\ journal.phase = "terminal" => ParsesTerminal(journal)
BY ParsesCases DEF TypeOK, SigningTypeOK, JournalParses, SigningJournaled

(* ... and the tables suffice for the journal after a step.                  *)
LEMMA TableJournal ==
    ASSUME TypeOK',
           journal'.phase = "planned" => ParsesPlanned(journal'),
           journal'.phase = "ca-committed" => ParsesCommitted(journal'),
           journal'.phase = "terminal" => ParsesTerminal(journal')
    PROVE  JournalParses'
<1>1. journal' \in JournalType
  BY DEF TypeOK, SigningTypeOK
<1>2. journal'.phase \in {"none", "planned", "ca-committed", "terminal"}
  BY <1>1 DEF JournalType
<1> QED BY <1>1, <1>2, ParsesCases DEF JournalParses, SigningJournaled


------------------------------------------------------------------------------
(* A step that records something in the journal changes nothing else.        *)
Recording ==
    \/ RecordReplay \/ RecordTransaction \/ RecordSigningReady \/ RecordSigningComplete
    \/ RecordKeyRemoved \/ RecordEntry \/ Commit
    \/ \E k \in Keys : RecordRestored(k)
    \/ RecordSigningResponse \/ RecordSignature
    \/ \E kind \in Kinds : RecordStage(kind) \/ RecordArtifact(kind)
    \/ RecordTerminal

(* A step that rewrites the journal changes nothing else.                    *)
LEMMA RecordingFrame ==
    Recording => UNCHANGED << database, work, key_copies, transactions, candidates, responses,
                              replay_requests, replay_nonces, process_vars, history_vars >>
<1> SUFFICES ASSUME Recording
             PROVE  UNCHANGED << database, work, key_copies, transactions, candidates,
             responses,
                              replay_requests, replay_nonces, process_vars, history_vars >>
  OBVIOUS
<1> USE DEF process_vars, history_vars, WriterFrame
<1>1. CASE RecordReplay
  BY <1>1 DEF RecordReplay, ReplayFrame
<1>2. CASE RecordTransaction \/ RecordSigningReady \/ RecordSigningComplete \/ RecordKeyRemoved
  BY <1>2 DEF RecordTransaction, RecordSigningReady, RecordSigningComplete, RecordKeyRemoved,
     TransactionFrame
<1>3. CASE RecordEntry \/ Commit
  BY <1>3 DEF RecordEntry, Commit, PublishFrame
<1>4. CASE \E k \in Keys : RecordRestored(k)
  BY <1>4 DEF RecordRestored, RollbackFrame, RecoveryFrame
<1>5. CASE RecordSigningResponse \/ RecordSignature
  BY <1>5 DEF RecordSigningResponse, RecordSignature, CompletionFrame, ArtifactsFrame,
     RecoveryFrame
<1>6. CASE \E kind \in Kinds : RecordStage(kind) \/ RecordArtifact(kind)
  BY <1>6 DEF RecordStage, RecordArtifact, CompletionFrame, ArtifactsFrame, RecoveryFrame
<1>7. CASE RecordTerminal
  BY <1>7 DEF RecordTerminal, TerminalFrame, ArtifactsFrame, RecoveryFrame
<1> QED BY <1>1, <1>2, <1>3, <1>4, <1>5, <1>6, <1>7 DEF Recording

(* The journal is created, rewritten or removed, or left be.                 *)
LEMMA JournalChanges ==
    ASSUME [Next]_vars
    PROVE  \/ UNCHANGED journal \/ Recording \/ RemoveSigningJournal
           \/ \E r \in Requests : BeginSigning(r)
BY StepEffects DEF Effects, JournalStep, Recording

------------------------------------------------------------------------------
(* The objects a signing works on, as far as the journal accounts for them.  *)
WorkInv ==
    /\ ~SigningJournaled => work = NoWork
    /\ SigningJournaled /\ ~journal.committed =>
          work.stage = NoWork.stage /\ Request \notin candidates \cup responses
    /\ SigningJournaled /\ journal.committed => \A kind \in Kinds :
          /\ work.stage[kind] \in {"whole", "torn"} \/ Request \in Artifacts(kind) =>
                StageRecorded(kind)
          /\ DestinationRecorded(kind) => Request \in Artifacts(kind)

(* Every rewrite of the journal yields one that parses.                      *)
LEMMA ParsesNext ==
    ASSUME Base, JournalParses, WorkInv, [Next]_vars
    PROVE  JournalParses'
<1>t. /\ TypeOK /\ TypeOK' /\ Locked
      /\ journal \in JournalType
      /\ journal.phase = "planned" => ParsesPlanned(journal)
      /\ journal.phase = "ca-committed" => ParsesCommitted(journal)
      /\ journal.phase = "terminal" => ParsesTerminal(journal)
  BY BaseNext, JournalTable DEF Base
<1> DEFINE Tables == /\ journal'.phase = "planned" => ParsesPlanned(journal')
                     /\ journal'.phase = "ca-committed" => ParsesCommitted(journal')
                     /\ journal'.phase = "terminal" => ParsesTerminal(journal')
<1> SUFFICES Tables
  BY <1>t, TableJournal
<1> USE DEF Write, Step, JournalType
<1>1. CASE UNCHANGED journal
  BY <1>t, <1>1
<1>2. ASSUME NEW r \in Requests, BeginSigning(r) PROVE Tables
  BY <1>2 DEF BeginSigning, InitialJournal, NoJournal, ParsesPlanned, PlannedNames, EarlySteps
<1>3. CASE RemoveSigningJournal
  BY <1>3 DEF RemoveSigningJournal, NoJournal
<1>p. journal.phase = "planned" =>
         /\ ~journal.committed /\ journal.step \in PlannedNames /\ ParsesPlanned(journal)
         /\ journal.post \in 0..7
  BY <1>t, DatabaseKeys DEF ParsesPlanned
<1>4. CASE RecordReplay
  <2>1. /\ journal' = [journal EXCEPT !.step = "replay-reserved", !.replay = TRUE]
        /\ journal.phase = "planned" /\ journal.step = "planned"
    BY <1>t, <1>4 DEF RecordReplay, ReplayDue, ParsesPlanned
  <2> QED BY <1>t, <2>1 DEF ParsesPlanned, PlannedNames, EarlySteps
<1>5. CASE RecordTransaction
  BY <1>t, <1>5 DEF RecordTransaction, Signing, ParsesPlanned, PlannedNames, EarlySteps
<1>6. CASE RecordSigningReady
  <2>1. /\ journal' = [journal EXCEPT !.step = "signing-ready", !.sensitive_key = TRUE,
                                      !.contract = TRUE, !.pre = database]
        /\ journal.phase = "planned" /\ journal.step = "transaction-staged"
    BY <1>6 DEF RecordSigningReady, Signing
  <2> QED BY <1>t, <2>1 DEF ParsesPlanned, PlannedNames, EarlySteps
<1>7. CASE RecordSigningComplete
  <2>1. /\ journal' = [journal EXCEPT !.step = "signing-complete", !.artifacts = TRUE]
        /\ journal.phase = "planned" /\ journal.step = "signing-ready"
    BY <1>7 DEF RecordSigningComplete, Signing
  <2> QED BY <1>t, <2>1 DEF ParsesPlanned, PlannedNames, EarlySteps
<1>8. CASE RecordKeyRemoved
  <2>1. /\ journal' = [journal EXCEPT !.step = "sensitive-key-removed", !.removed = TRUE]
        /\ journal.phase = "planned" /\ journal.step = "signing-complete"
    BY <1>8 DEF RecordKeyRemoved, Signing
  <2> QED BY <1>t, <2>1 DEF ParsesPlanned, PlannedNames, EarlySteps
<1>9. CASE RecordEntry
  <2>1. /\ journal' = [journal EXCEPT !.step = "ca-published", !.post = journal.post + 1]
        /\ journal.phase = "planned" /\ journal.step \in {"sensitive-key-removed", "ca-published"}
    BY <1>9 DEF RecordEntry, EntryDue, Publishing, Signing
  <2>2. journal.post + 1 > 0
    BY <1>p, <2>1
  <2> QED BY <1>t, <2>1, <2>2 DEF ParsesPlanned, PlannedNames, EarlySteps
<1>10. CASE Commit
  BY <1>t, <1>10, DatabaseKeys DEF Commit, Signing, ParsesPlanned, PlannedNames, EarlySteps,
     ParsesCommitted, CommittedNames
<1>11. ASSUME NEW k \in Keys, RecordRestored(k) PROVE Tables
  <2>1. /\ journal' = [journal EXCEPT !.pre[k] = database[k]]
        /\ journal.contract /\ ~journal.committed
    BY <1>11 DEF RecordRestored, RollbackDue, RollingBack, Current
  <2> QED BY <1>t, <2>1 DEF ParsesPlanned, ParsesCommitted, ParsesTerminal
<1>12. CASE RecordSigningResponse
  BY <1>t, <1>12 DEF RecordSigningResponse, Completing, ParsesCommitted, CommittedNames
<1>13. CASE RecordSignature
  BY <1>t, <1>13 DEF RecordSignature, Completing, ParsesCommitted, CommittedNames
<1>c. ASSUME Completing
      PROVE  /\ journal.phase = "ca-committed" /\ ParsesCommitted(journal)
             /\ \A kind \in Kinds : work.stage[kind] = "whole" \/ Request \in Artifacts(kind) =>
                   StageRecorded(kind)
  BY <1>t, <1>c DEF Completing, WorkInv, SigningJournaled, ParsesCommitted
<1>14. ASSUME NEW kind \in Kinds, RecordStage(kind) PROVE Tables
  <2>1. /\ Completing /\ journal.signature
        /\ kind = "response" => journal.candidate_stage
    BY <1>14, <1>c DEF RecordStage, StageDue, Kinds, Artifacts, StageRecorded
  <2>2. CASE kind = "candidate"
    BY <1>14, <1>c, <2>1, <2>2 DEF RecordStage, ParsesCommitted, CommittedNames
  <2>3. CASE kind = "response"
    BY <1>14, <1>c, <2>1, <2>3 DEF RecordStage, ParsesCommitted, CommittedNames
  <2> QED BY <2>2, <2>3 DEF Kinds
<1>15. ASSUME NEW kind \in Kinds, RecordArtifact(kind) PROVE Tables
  <2>1. /\ Completing /\ journal.signature /\ journal.candidate_stage /\ journal.response_stage
        /\ kind = "response" => journal.candidate_destination
        /\ ~DestinationRecorded(kind)
    BY <1>15, <1>c DEF RecordArtifact, ArtifactDue, Kinds, StageRecorded
  <2>2. kind = "candidate" \/ kind = "response"
    BY DEF Kinds
  <2>3. CASE kind = "candidate"
    BY <1>15, <1>c, <2>1, <2>3 DEF RecordArtifact, DestinationRecorded, ParsesCommitted,
       CommittedNames
  <2>4. CASE kind = "response"
    BY <1>15, <1>c, <2>1, <2>4 DEF RecordArtifact, DestinationRecorded, ParsesCommitted,
       CommittedNames
  <2> QED BY <2>2, <2>3, <2>4
<1>16. CASE RecordTerminal
  <2>1. journal.replay /\ (journal.committed => journal.response_destination)
        /\ journal.phase \in {"planned", "ca-committed"}
    BY <1>t, <1>16 DEF RecordTerminal, TerminalDue, Checked, Recovering, Locked,
       SigningJournaled
  <2>2. CASE journal.phase = "planned"
    BY <1>t, <1>16, <2>1, <2>2 DEF RecordTerminal, ParsesPlanned, PlannedNames, EarlySteps,
       ParsesTerminal
  <2>3. CASE journal.phase = "ca-committed"
    BY <1>t, <1>16, <2>1, <2>3 DEF RecordTerminal, ParsesCommitted, ParsesTerminal
  <2> QED BY <2>1, <2>2, <2>3
<1> QED BY JournalChanges, <1>1, <1>2, <1>3, <1>4, <1>5, <1>6, <1>7, <1>8, <1>9, <1>10, <1>11,
   <1>12, <1>13, <1>14, <1>15, <1>16 DEF Recording

(* The evidence a recovery writes about a committed journal only accumulates, *)
(* and a destination is recorded after it is taken.                          *)
LEMMA RecordedWhenCommitted ==
    ASSUME TypeOK, Recording, journal.committed, JournalParses
    PROVE  \A kind \in Kinds :
              /\ StageRecorded(kind) => StageRecorded(kind)'
              /\ DestinationRecorded(kind)' => DestinationRecorded(kind) \/ Request \in Artifacts(kind)
<1>t. /\ journal \in JournalType
      /\ journal.phase = "planned" => ~journal.committed
  BY JournalTable DEF ParsesPlanned
<1> USE DEF Write, Step, JournalType, StageRecorded, DestinationRecorded
<1>1. CASE RecordSigningResponse \/ RecordSignature \/ RecordTerminal
  BY <1>1, <1>t DEF RecordSigningResponse, RecordSignature, RecordTerminal
<1>2. ASSUME NEW k \in Kinds, RecordStage(k)
      PROVE  \A kind \in Kinds :
              /\ StageRecorded(kind) => StageRecorded(kind)'
              /\ DestinationRecorded(kind)' => DestinationRecorded(kind)
  BY <1>2, <1>t DEF RecordStage
<1>3. ASSUME NEW k \in Kinds, RecordArtifact(k)
      PROVE  \A kind \in Kinds :
              /\ StageRecorded(kind) => StageRecorded(kind)'
              /\ DestinationRecorded(kind)' => DestinationRecorded(kind) \/ Request \in Artifacts(kind)
  <2>1. Request \in Artifacts(k)
    BY <1>3 DEF RecordArtifact
  <2>2. \A kind \in Kinds : (StageRecorded(kind)' = StageRecorded(kind))
    BY <1>3, <1>t DEF RecordArtifact
  <2>3. ASSUME NEW kind \in Kinds, kind # k PROVE DestinationRecorded(kind)' = DestinationRecorded(kind)
    BY <1>3, <1>t, <2>3 DEF RecordArtifact, Kinds
  <2> HIDE DEF StageRecorded, DestinationRecorded
  <2> QED BY <2>1, <2>2, <2>3
<1> QED BY <1>t, <1>1, <1>2, <1>3 DEF Recording, RecordReplay, RecordTransaction,
   RecordSigningReady, RecordSigningComplete, RecordKeyRemoved, RecordEntry, EntryDue,
   Publishing, Commit, Signing, ReplayDue, RecordRestored, RollbackDue, RollingBack

(* The reservations of a journal's request and of every answered one.        *)
Reserved(r) == r \in replay_requests /\ replay_nonces[NonceOf[r]] = r
ReplayInv ==
    /\ SigningJournaled /\ journal.replay => Reserved(Request)
    /\ \A r \in candidates \cup responses : Reserved(r)

(* Reservations are never taken back, and are there before they are recorded. *)
LEMMA ReplayNext ==
    ASSUME Base, ReplayInv, [Next]_vars
    PROVE  ReplayInv'
<1>e. /\ Effects /\ TypeOK /\ Named /\ Locked
      /\ candidates \subseteq Requests /\ responses \subseteq Requests
      /\ replay_nonces \in [Nonces -> Requests \cup {"nobody"}]
  BY StepEffects DEF Base, TypeOK, SigningTypeOK
<1>1. \A r \in Requests : Reserved(r) => Reserved(r)'
  BY <1>e, RequestsAssumption DEF Effects, ReserveRequest, ReserveNonce, Reserved, Nonces
<1>2. \A r \in (candidates \cup responses)' : Reserved(r)'
  <2>1. ASSUME NEW kind \in Kinds, PublishArtifact(kind)
        PROVE  /\ (candidates \cup responses)' \subseteq candidates \cup responses \cup {Request}
               /\ Reserved(Request) /\ Request \in Requests
    BY <1>e, <2>1 DEF PublishArtifact, ArtifactDue, Completing, Checked, Recovering,
       ReplayInv, Locked, Named
  <2> QED BY <1>e, <1>1, <2>1 DEF Effects, ReplayInv
<1>3. ASSUME SigningJournaled', journal'.replay PROVE Reserved(Request)'
  <2>1. CASE SigningJournaled /\ journal.replay
    <3>1. RemoveSigningJournal \/ journal'.request = journal.request
      BY <1>e, <2>1, JournalGoesOn DEF GoesOn
    <3>2. ~RemoveSigningJournal
      BY <1>3 DEF RemoveSigningJournal, NoJournal, SigningJournaled
    <3> QED BY <1>e, <1>1, <2>1, <3>1, <3>2 DEF ReplayInv, Request, Named
  <2>2. CASE ~(SigningJournaled /\ journal.replay)
    <3>1. ~journal.replay
      BY <1>e, <2>2 DEF Named, NoJournal
    <3>2. RecordReplay
      <4>1. \A r \in Requests : ~BeginSigning(r)
        BY <1>3 DEF BeginSigning, InitialJournal, NoJournal
      <4>2. ~RemoveSigningJournal
        BY <1>3 DEF RemoveSigningJournal, NoJournal
      <4>3. Recording /\ journal \in JournalType
        BY <1>3, <1>e, <3>1, <4>1, <4>2, JournalChanges DEF TypeOK, SigningTypeOK
      <4> USE DEF Write, Step, JournalType
      <4>4. CASE RecordTransaction \/ RecordSigningReady
        BY <4>3, <4>4, <1>3, <3>1 DEF RecordTransaction, RecordSigningReady
      <4>5. CASE RecordSigningComplete \/ RecordKeyRemoved
        BY <4>3, <4>5, <1>3, <3>1 DEF RecordSigningComplete, RecordKeyRemoved
      <4>6. CASE RecordEntry \/ Commit
        BY <4>3, <4>6, <1>3, <3>1 DEF RecordEntry, Commit
      <4>7. ASSUME NEW k \in Keys, RecordRestored(k) PROVE FALSE
        BY <4>3, <4>7, <1>3, <3>1 DEF RecordRestored
      <4>8. CASE RecordSigningResponse \/ RecordSignature
        BY <4>3, <4>8, <1>3, <3>1 DEF RecordSigningResponse, RecordSignature
      <4>9. ASSUME NEW kind \in Kinds, RecordStage(kind) \/ RecordArtifact(kind) PROVE FALSE
        BY <4>3, <4>9, <1>3, <3>1 DEF RecordStage, RecordArtifact
      <4>10. ~RecordTerminal
        BY <1>e, <3>1 DEF RecordTerminal, TerminalDue, Checked, Recovering, Locked
      <4> QED BY <4>3, <4>4, <4>5, <4>6, <4>7, <4>8, <4>9, <4>10 DEF Recording
    <3> QED BY <1>e, <3>2 DEF RecordReplay, Write, Step, Reserved, Request, TypeOK,
       SigningTypeOK, JournalType
  <2> QED BY <2>1, <2>2
<1> QED BY <1>2, <1>3 DEF ReplayInv

(* Stages and destinations keep to the order in which they are journaled.    *)
LEMMA WorkNext ==
    ASSUME Base, JournalParses, WorkInv, ReplayInv, [Next]_vars
    PROVE  WorkInv'
<1>e. /\ Effects /\ TypeOK /\ Named /\ Locked /\ work \in WorkType
      /\ journal.phase = "ca-committed" => journal.committed
      /\ journal.phase = "planned" => ~journal.committed
  BY StepEffects, JournalTable DEF Base, TypeOK, SigningTypeOK, ParsesCommitted, ParsesPlanned
<1>1. CASE Recording
  <2>1. /\ UNCHANGED << work, candidates, responses >>
        /\ SigningJournaled /\ SigningJournaled' /\ UNCHANGED Request
        /\ journal.committed => journal'.committed
        /\ journal'.committed => journal.committed \/ Commit
    <3>1. SigningJournaled
      BY <1>1, <1>e DEF Recording, RecordReplay, RecordTransaction, RecordSigningReady,
         RecordSigningComplete, RecordKeyRemoved, RecordEntry, EntryDue, Publishing, Commit,
         Signing, ReplayDue, RecordRestored, RollbackDue, RollingBack, RecordSigningResponse,
         RecordSignature, RecordStage, StageDue, RecordArtifact, ArtifactDue, Completing,
         RecordTerminal, TerminalDue, Checked, Recovering, SigningJournaled
    <3>2. ~RemoveSigningJournal \/ UNCHANGED << work >>
      BY <1>1, RecordingFrame
    <3>3. ~RemoveSigningJournal
      BY <1>1, RecordingFrame, <1>e DEF RemoveSigningJournal, Checked, process_vars, Idle
    <3> QED BY <1>1, <1>e, <3>1, <3>3, JournalGoesOn, RecordingFrame DEF GoesOn, Request,
       SigningJournaled
  <2>2. CASE ~journal'.committed
    BY <2>1, <2>2, <1>e DEF WorkInv
  <2>3. CASE journal.committed
    BY <2>1, <2>3, <1>1, <1>e, RecordedWhenCommitted DEF WorkInv, Artifacts
  <2>4. CASE ~journal.committed /\ Commit
    <3>1. /\ journal.phase = "planned" /\ ParsesPlanned(journal) /\ journal \in JournalType
          /\ journal' = [journal EXCEPT !.step = "ca-committed", !.phase = "ca-committed", !.committed = TRUE]
      BY <1>e, <2>4, JournalTable DEF Commit, Signing, Write, Step
    <3>2. \A kind \in Kinds : ~DestinationRecorded(kind)'
      BY <3>1 DEF DestinationRecorded, ParsesPlanned, JournalType
    <3>3. \A kind \in Kinds : work'.stage[kind] = "absent" /\ Request' \notin Artifacts(kind)'
      BY <2>1, <2>4 DEF WorkInv, Artifacts, NoWork
    <3>4. SigningJournaled' /\ journal'.committed
      BY <2>1, <3>1, <1>e DEF JournalType
    <3> QED BY <3>2, <3>3, <3>4 DEF WorkInv
  <2> QED BY <2>1, <2>2, <2>3, <2>4
<1>2. ASSUME NEW r \in Requests, BeginSigning(r) PROVE WorkInv'
  <2>1. r \notin candidates \cup responses
    BY <1>2 DEF BeginSigning, ReplayInv, Reserved
  <2> QED BY <1>2, <2>1 DEF BeginSigning, NoUnresolvedState, InitialJournal, NoJournal,
     WorkInv, SigningJournaled, Request
<1>3. CASE RemoveSigningJournal
  BY <1>3 DEF RemoveSigningJournal, NoJournal, WorkInv, SigningJournaled
<1>4. CASE UNCHANGED journal
  <2>1. CASE ~SigningJournaled
    <3>1. UNCHANGED work
      BY <1>e, <1>4, <2>1, NothingWithoutJournal DEF BeginSigning, InitialJournal, NoJournal,
         SigningJournaled
    <3> QED BY <1>4, <2>1, <3>1 DEF WorkInv, SigningJournaled
  <2> DEFINE Same == \A kind \in Kinds : /\ StageRecorded(kind)' = StageRecorded(kind)
                                         /\ DestinationRecorded(kind)' = DestinationRecorded(kind)
  <2>s. Same /\ UNCHANGED Request
    BY <1>4 DEF StageRecorded, DestinationRecorded, Request
  <2>2. CASE SigningJournaled /\ UNCHANGED << candidates, responses >> /\ work'.stage = work.stage
    BY <1>4, <2>2, <2>s DEF WorkInv, Artifacts, SigningJournaled
  <2>3. ASSUME NEW kind \in Kinds, CreateStage(kind) \/ FillStage(kind), SigningJournaled PROVE WorkInv'
    <3>1. /\ journal.committed /\ UNCHANGED << candidates, responses >>
          /\ \A other \in Kinds : work'.stage[other] = work.stage[other]
               \/ (other = kind /\ (work'.stage[other] = "begun" \/ StageRecorded(kind)))
      BY <1>e, <2>3 DEF CreateStage, FillStage, StageDue, Completing, ArtifactsFrame, WorkType
    <3> QED BY <1>4, <2>3, <2>s, <3>1 DEF WorkInv, Artifacts, SigningJournaled
  <2>4. ASSUME NEW kind \in Kinds, PublishArtifact(kind), SigningJournaled PROVE WorkInv'
    <3>1. /\ journal.committed
          /\ \A other \in Kinds : /\ work'.stage[other] = work.stage[other] \/ work'.stage[other] = "absent"
                                  /\ StageRecorded(other)
                                  /\ Artifacts(other) \subseteq Artifacts(other)'
      BY <1>e, <2>4 DEF PublishArtifact, ArtifactDue, Completing, WorkType, WorkInv,
         Artifacts, SigningJournaled
    <3> QED BY <1>4, <2>4, <2>s, <3>1 DEF WorkInv, SigningJournaled
  <2>5. CASE EndStep
    <3>1. UNCHANGED << candidates, responses >>
      BY <2>5 DEF EndStep, SigningFails, SigningStops, SigningEndsFrame
    <3>2. CASE work'.stage = work.stage
      BY <2>1, <2>2, <3>1, <3>2
    <3>3. ASSUME NEW kind \in Kinds, StageDue(kind), StageRecorded(kind),
                 work' = [work EXCEPT !.stage[kind] = "torn"]
          PROVE  WorkInv'
      <4>1. /\ journal.committed /\ SigningJournaled
            /\ \A other \in Kinds : work'.stage[other] = work.stage[other] \/ StageRecorded(other)
        BY <1>e, <3>3 DEF StageDue, Completing, WorkType, SigningJournaled
      <4> QED BY <1>4, <2>s, <3>1, <4>1 DEF WorkInv, Artifacts, SigningJournaled
    <3>4. ASSUME NEW sig, work' = [work EXCEPT !.signature = sig] PROVE work'.stage = work.stage
      BY <1>e, <3>4 DEF WorkType
    <3> QED BY <2>5, <3>2, <3>3, <3>4 DEF EndStep, SigningEnds, TornWrite
  <2>6. CASE UNCHANGED work /\ UNCHANGED << candidates, responses >>
    BY <2>1, <2>2, <2>6
  <2>7. CASE CopyDatabase \/ PublishEntry \/ RemoveDisplacedEntry \/ SignResponse
    <3>1. work'.stage = work.stage /\ UNCHANGED << candidates, responses >>
      BY <1>e, <2>7 DEF CopyDatabase, PublishEntry, RemoveDisplacedEntry, SignResponse,
         WorkType, TransactionFrame, PublishFrame, WriterFrame, ArtifactsFrame
    <3> QED BY <2>1, <2>2, <3>1
  <2>8. ASSUME NEW k \in Keys, RunOpenssl(k) \/ RollbackEntry(k) \/ RemoveDisplacedBackup(k) PROVE WorkInv'
    <3>1. work'.stage = work.stage /\ UNCHANGED << candidates, responses >>
      BY <1>e, <2>8 DEF RunOpenssl, RollbackEntry, RemoveDisplacedBackup, WorkType,
         TransactionFrame, WriterFrame, RollbackFrame
    <3> QED BY <2>1, <2>2, <3>1
  <2> QED BY <1>e, <1>3, <2>1, <2>3, <2>4, <2>5, <2>6, <2>7, <2>8 DEF Effects, WorkStep
<1> QED BY <1>1, <1>2, <1>3, <1>4, JournalChanges

(* A step that records leaves a journal, about the same request.             *)
LEMMA RecordingGoesOn ==
    ASSUME Base, JournalParses, Recording, [Next]_vars
    PROVE  SigningJournaled /\ GoesOn
<1>1. SigningJournaled
  BY DEF Recording, RecordReplay, RecordTransaction, RecordSigningReady,
     RecordSigningComplete, RecordKeyRemoved, RecordEntry, EntryDue, Publishing, Commit,
     Signing, ReplayDue, RecordRestored, RollbackDue, RollingBack, RecordSigningResponse,
     RecordSignature, RecordStage, StageDue, RecordArtifact, ArtifactDue, Completing,
     RecordTerminal, TerminalDue, Checked, Recovering, SigningJournaled
<1>2. ~RemoveSigningJournal
  BY RecordingFrame DEF RemoveSigningJournal, Checked, Recovering, process_vars, Idle
<1> QED BY <1>1, <1>2, JournalGoesOn DEF Base

(* The key copy is made and removed within the steps that account for it.    *)
LEMMA KeyNext ==
    ASSUME Base, JournalParses, KeyCopyAccountable, [Next]_vars
    PROVE  KeyCopyAccountable'
<1>e. /\ Effects /\ journal \in JournalType
      /\ journal.phase = "planned" => ParsesPlanned(journal)
  BY StepEffects, JournalTable DEF Base
<1> SUFFICES ASSUME NEW r \in key_copies'
             PROVE  /\ journal'.request = r /\ journal'.phase = "planned" /\ journal'.post = 0
                    /\ journal'.step \in {"transaction-staged", "signing-ready", "signing-complete"}
  BY DEF KeyCopyAccountable
<1> USE DEF JournalType, Request
<1>1. CASE r \in key_copies
  <2>1. /\ journal.request = r /\ journal.phase = "planned" /\ journal.post = 0
        /\ journal.step \in {"transaction-staged", "signing-ready", "signing-complete"}
        /\ journal.replay
    BY <1>e, <1>1 DEF KeyCopyAccountable, ParsesPlanned
  <2>2. CASE UNCHANGED journal
    BY <2>1, <2>2
  <2>3. CASE RecordSigningReady \/ RecordSigningComplete
    <3>1. CASE RecordSigningReady
      BY <1>e, <2>1, <3>1 DEF RecordSigningReady, Write, Step
    <3>2. CASE RecordSigningComplete
      BY <1>e, <2>1, <3>2 DEF RecordSigningComplete, Write, Step
    <3> QED BY <2>3, <3>1, <3>2
  <2>4. ASSUME NEW k \in Keys, RecordRestored(k)
        PROVE  /\ journal'.request = r /\ journal'.phase = "planned" /\ journal'.post = 0
               /\ journal'.step \in {"transaction-staged", "signing-ready", "signing-complete"}
    BY <1>e, <2>1, <2>4 DEF RecordRestored, Write
  <2>5. ~RemoveSigningJournal /\ \A q \in Requests : ~BeginSigning(q)
    BY <2>1 DEF RemoveSigningJournal, BeginSigning, NoUnresolvedState, SigningJournaled
  <2>6. ~RecordReplay /\ ~RecordTransaction /\ ~RecordKeyRemoved /\ ~RecordEntry /\ ~Commit /\ ~RecordTerminal
    BY <1>1, <2>1 DEF RecordReplay, ReplayDue, RecordTransaction, RecordKeyRemoved,
       RecordEntry, EntryDue, Publishing, Commit, Signing, RecordTerminal, TerminalDue
  <2>7. ~Completing
    BY <2>1 DEF Completing
  <2> QED BY <2>2, <2>3, <2>4, <2>5, <2>6, <2>7, JournalChanges DEF Recording,
     RecordSigningResponse, RecordSignature, RecordStage, StageDue, RecordArtifact,
     ArtifactDue
<1>2. CASE r \notin key_copies
  <2>1. CopyKey /\ r = Request
    BY <1>e, <1>2 DEF Effects, CopyKey, RemoveSigningKey, RemoveKeyCopy
  <2> QED BY <1>e, <2>1 DEF CopyKey, Signing, ParsesPlanned
<1> QED BY <1>1, <1>2

(* What the terminal records say, and which answers lack one.                *)
OutcomeInv ==
    /\ journal.phase = "terminal" => Transaction.terminal = Outcome
    /\ SigningJournaled /\ ~journal.committed => Transaction.terminal # "published"
    /\ \A r \in Requests : /\ transactions[r].holds = "absent" => transactions[r].terminal = "none"
                           /\ transactions[r].terminal = "published" => r \in candidates \cap responses
    /\ \A r \in candidates \cup responses :
          \/ transactions[r].terminal = "published"
          \/ journal.request = r /\ journal.committed /\ journal.signature

(* The terminal record is written once, and says what became of the signing. *)
LEMMA OutcomeNext ==
    ASSUME Base, JournalParses, WorkInv, OutcomeInv, [Next]_vars
    PROVE  OutcomeInv'
<1>e. /\ Effects /\ TypeOK /\ TypeOK' /\ Named /\ Named' /\ journal \in JournalType
      /\ journal.phase = "planned" => ParsesPlanned(journal)
      /\ journal.phase = "ca-committed" => ParsesCommitted(journal)
      /\ journal.phase = "terminal" => ParsesTerminal(journal)
      /\ transactions \in [Requests -> [holds : {"absent", "empty", "files"},
                                        terminal : {"none", "failed-pre-commit", "published"}]]
      /\ candidates \subseteq Requests /\ responses \subseteq Requests
      /\ candidates \subseteq candidates' /\ responses \subseteq responses'
  BY StepEffects, JournalTable, BaseNext, SourcesStay DEF Base, TypeOK, SigningTypeOK
<1> USE DEF Request, SigningJournaled
<1>w. ASSUME WriteTerminal
      PROVE  /\ transactions' = [transactions EXCEPT ![Request].terminal = Outcome]
             /\ Request \in Requests /\ Transaction.holds # "absent" /\ Transaction.terminal = "none"
             /\ journal.phase \notin {"none", "terminal"} /\ UNCHANGED << journal, candidates, responses >>
             /\ journal.committed => Request \in candidates \cap responses
  <2>1. /\ transactions' = [transactions EXCEPT ![Request].terminal = Outcome]
        /\ Request \in Requests /\ Transaction.holds # "absent" /\ Transaction.terminal = "none"
        /\ journal.phase \notin {"none", "terminal"} /\ UNCHANGED << journal, candidates, responses >>
        /\ journal.committed => journal.response_destination
    BY <1>e, <1>w DEF WriteTerminal, TerminalDue, Checked, Recovering, TerminalFrame,
       ArtifactsFrame, Named
  <2>2. journal.committed => journal.candidate_destination
    BY <1>e, <2>1 DEF ParsesPlanned, ParsesCommitted, JournalType
  <2> QED BY <2>1, <2>2 DEF WorkInv, Kinds, DestinationRecorded, Artifacts
<1>t. \A r \in Requests :
         /\ transactions'[r].holds = "absent" => transactions[r].holds = "absent"
         /\ \/ transactions'[r].terminal = transactions[r].terminal
            \/ /\ WriteTerminal /\ r = Request
               /\ transactions[r].terminal = "none" /\ transactions[r].holds # "absent"
               /\ transactions'[r].terminal = Outcome
  <2>1. CASE CreateTransaction \/ StageProtocol \/ CreateTerminalDirectory
    BY <1>e, <2>1 DEF CreateTransaction, StageProtocol, CreateTerminalDirectory
  <2>2. CASE WriteTerminal
    BY <1>e, <1>w, <2>2 DEF Transaction
  <2>3. CASE EndStep
    BY <1>e, <2>3 DEF EndStep, SigningEnds, TornWrite
  <2> QED BY <1>e, <2>1, <2>2, <2>3 DEF Effects, TransactionStep
<1>1. \A r \in Requests :
         /\ transactions'[r].holds = "absent" => transactions'[r].terminal = "none"
         /\ transactions'[r].terminal = "published" => r \in candidates' \cap responses'
  BY <1>e, <1>t, <1>w DEF OutcomeInv, Outcome, Transaction
<1>2. journal'.phase = "terminal" => (Transaction.terminal = Outcome)'
  <2> SUFFICES ASSUME journal'.phase = "terminal" PROVE (Transaction.terminal = Outcome)'
    OBVIOUS
  <2>1. CASE UNCHANGED journal
    <3>1. Request \in Requests /\ ~WriteTerminal /\ Transaction.terminal = Outcome
      BY <1>e, <1>w, <2>1 DEF Named, OutcomeInv
    <3> QED BY <1>t, <2>1, <3>1 DEF Outcome, Transaction
  <2>2. CASE RecordTerminal
    <3>1. UNCHANGED << transactions, Request >> /\ journal'.committed = journal.committed
      BY <1>e, <2>2 DEF RecordTerminal, Write, Step, JournalType
    <3> QED BY <2>2, <3>1 DEF RecordTerminal, Transaction, Outcome
  <2>3. ASSUME NEW k \in Keys, RecordRestored(k) PROVE (Transaction.terminal = Outcome)'
    <3>1. UNCHANGED << transactions, Request >> /\ journal'.committed = journal.committed
          /\ journal'.phase = journal.phase
      BY <1>e, <2>3 DEF RecordRestored, RollbackFrame, Write, JournalType
    <3> QED BY <3>1 DEF Transaction, Outcome, OutcomeInv
  <2>4. /\ ~RemoveSigningJournal
        /\ \A r \in Requests : ~BeginSigning(r)
    <3>1. ~RemoveSigningJournal
      BY DEF RemoveSigningJournal, NoJournal
    <3>2. ASSUME NEW r \in Requests, BeginSigning(r) PROVE FALSE
      BY <3>2 DEF NoJournal, BeginSigning, InitialJournal
    <3> QED BY <3>1, <3>2
  <2>5. ASSUME Recording, ~RecordTerminal, \A k \in Keys : ~RecordRestored(k) PROVE FALSE
    <3> USE DEF Write, Step, JournalType
    <3>1. ~RecordReplay /\ ~RecordTransaction /\ ~RecordSigningReady
      BY <1>e DEF RecordReplay, ReplayDue, RecordTransaction, RecordSigningReady, Signing
    <3>2. ~RecordSigningComplete /\ ~RecordKeyRemoved
      BY <1>e DEF RecordSigningComplete, RecordKeyRemoved, Signing
    <3>3. ~RecordEntry /\ ~Commit
      BY <1>e DEF RecordEntry, EntryDue, Publishing, Commit, Signing
    <3>4. ~RecordSigningResponse /\ ~RecordSignature
      BY <1>e DEF RecordSigningResponse, RecordSignature, Completing
    <3>5. ASSUME NEW kind \in Kinds PROVE ~RecordStage(kind) /\ ~RecordArtifact(kind)
      BY <1>e DEF RecordStage, StageDue, RecordArtifact, ArtifactDue, Completing
    <3> QED BY <2>5, <3>1, <3>2, <3>3, <3>4, <3>5 DEF Recording
  <2> QED BY JournalChanges, <2>1, <2>2, <2>3, <2>4, <2>5
<1>3. SigningJournaled' /\ ~journal'.committed => Transaction'.terminal # "published"
  <2> SUFFICES ASSUME SigningJournaled', ~journal'.committed PROVE Transaction'.terminal # "published"
    OBVIOUS
  <2>1. ASSUME NEW r \in Requests, BeginSigning(r) PROVE Transaction'.terminal # "published"
    <3>1. transactions'[r].terminal = "none" /\ journal'.request = r
      BY <1>e, <2>1 DEF BeginSigning, InitialJournal, NoJournal, OutcomeInv
    <3> QED BY <3>1 DEF Transaction
  <2>2. ASSUME SigningJournaled, ~journal.committed, UNCHANGED Request PROVE Transaction'.terminal # "published"
    <3>1. Request \in Requests /\ Transaction.terminal # "published" /\ Outcome # "published"
      BY <1>e, <2>2 DEF Named, OutcomeInv, Outcome
    <3> QED BY <1>t, <2>2, <3>1 DEF Transaction
  <2>3. ~RemoveSigningJournal
    BY DEF RemoveSigningJournal, NoJournal
  <2>4. CASE Recording
    <3>1. SigningJournaled /\ GoesOn
      BY <2>4, RecordingGoesOn
    <3> QED BY <2>2, <3>1 DEF GoesOn
  <2> QED BY JournalChanges, <2>1, <2>2, <2>3, <2>4
<1>4. \A r \in (candidates \cup responses)' :
          \/ transactions'[r].terminal = "published"
          \/ journal'.request = r /\ journal'.committed /\ journal'.signature
  <2> SUFFICES ASSUME NEW r \in (candidates \cup responses)', transactions'[r].terminal # "published"
               PROVE  journal'.request = r /\ journal'.committed /\ journal'.signature
    OBVIOUS
  <2>1. ASSUME NEW kind \in Kinds, PublishArtifact(kind), r \notin candidates \cup responses
        PROVE  journal'.request = r /\ journal'.committed /\ journal'.signature
    <3>1. r = Request /\ UNCHANGED journal /\ journal.signature /\ journal.phase = "ca-committed"
      BY <2>1 DEF PublishArtifact, ArtifactDue, Completing
    <3> QED BY <1>e, <3>1 DEF ParsesCommitted
  <2>2. CASE r \in candidates \cup responses
    <3>1. r \in Requests /\ transactions[r].terminal # "published"
      BY <1>e, <1>t, <2>2
    <3>2. journal.request = r /\ journal.committed /\ journal.signature
      BY <2>2, <3>1 DEF OutcomeInv
    <3>3. ~RemoveSigningJournal
      <4>1. ASSUME RemoveSigningJournal PROVE transactions'[r].terminal = "published"
        BY <3>2, <4>1 DEF RemoveSigningJournal, OutcomeInv, Outcome, Transaction
      <4> QED BY <4>1
    <3>4. \A q \in Requests : ~BeginSigning(q)
      BY <1>e, <3>2 DEF BeginSigning, NoUnresolvedState, Named, NoJournal
    <3>5. CASE Recording
      <4>1. GoesOn
        BY <3>5, RecordingGoesOn
      <4>2. journal'.signature
        <5> USE DEF Write, Step, JournalType
        <5>1. CASE RecordSigningResponse \/ RecordSignature \/ RecordTerminal
          BY <1>e, <3>2, <5>1 DEF RecordSigningResponse, RecordSignature, RecordTerminal
        <5>2. ASSUME NEW kind \in Kinds, RecordStage(kind) \/ RecordArtifact(kind)
              PROVE  journal'.signature
          BY <1>e, <3>2, <5>2 DEF RecordStage, RecordArtifact
        <5>3. ASSUME NEW k \in Keys, RecordRestored(k) PROVE journal'.signature
          BY <1>e, <3>2, <5>3 DEF RecordRestored
        <5>4. ~RecordReplay /\ ~RecordTransaction /\ ~RecordSigningReady /\ ~RecordKeyRemoved
          BY <1>e, <3>2 DEF RecordReplay, ReplayDue, RecordTransaction, RecordSigningReady,
             RecordKeyRemoved, Signing, ParsesPlanned
        <5>5. ~RecordSigningComplete /\ ~RecordEntry /\ ~Commit
          BY <1>e, <3>2 DEF RecordSigningComplete, RecordEntry, EntryDue, Publishing, Commit,
             Signing, ParsesPlanned
        <5> QED BY <3>5, <5>1, <5>2, <5>3, <5>4, <5>5 DEF Recording
      <4> QED BY <3>2, <4>1, <4>2 DEF GoesOn
    <3> QED BY JournalChanges, <3>2, <3>3, <3>4, <3>5
  <2> QED BY <1>e, <2>1, <2>2 DEF Effects
<1> QED BY <1>1, <1>2, <1>3, <1>4 DEF OutcomeInv

------------------------------------------------------------------------------
(* The trust a signing staged is the installed one for as long as it matters: *)
(* while its journal says so, from the staging on while the signer runs, and *)
(* until its candidate is decided.                                           *)
TrustInv ==
    /\ SigningJournaled /\ journal.trust => trust_of[Request] = trust
    /\ actor.process = "sign" /\ journal.phase = "planned" =>
          /\ journal.step = "planned" => Transaction.holds = "absent"
          /\ journal.step = "replay-reserved" /\ Transaction.holds = "files" =>
                trust_of[Request] = trust
    /\ \A r \in Pending : trust_of[r] = trust

(* The installed trust changes only while no signing depends on the old one. *)
LEMMA TrustNext ==
    ASSUME Base, JournalParses, WorkInv, DecisionInv, TrustInv, [Next]_vars
    PROVE  TrustInv'
<1>e. /\ Effects /\ TypeOK /\ TypeOK' /\ Named /\ Named' /\ Locked /\ journal \in JournalType
      /\ journal.phase = "planned" => ParsesPlanned(journal)
      /\ journal.phase = "ca-committed" => ParsesCommitted(journal)
      /\ transactions \in [Requests -> [holds : {"absent", "empty", "files"},
                                        terminal : {"none", "failed-pre-commit", "published"}]]
      /\ trust_of \in [Requests -> Trusts] /\ outcomes \in [Requests -> {"none", "finalize", "abandon"}]
      /\ candidates \subseteq Requests
  BY StepEffects, JournalTable, BaseNext DEF Base, TypeOK, SigningTypeOK, HistoryTypeOK
<1> USE DEF Request, SigningJournaled
<1>p. Pending' \subseteq Pending \cup {r \in {Request} : journal.trust /\ SigningJournaled}
  <2>1. \A r \in Requests : Decided(r) => Decided(r)'
    <3>1. CASE UNCHANGED outcomes
      BY <3>1 DEF Decided
    <3>2. CASE DecisionStep
      BY <1>e, <3>2 DEF Decided, DecisionStep, BeginDecision, FinalizationSteps, StageOutcome,
         StagePointer, PublishAbandonment, PublishFinalizationJournal, PublishOutcome,
         RecordOutcome, PublishActive, RecordActive, RemoveOldActive,
         RemoveFinalizationJournal, DecisionFails, DecisionKilled
    <3> QED BY <1>e, <3>1, <3>2 DEF Effects
  <2>2. ASSUME NEW kind \in Kinds, PublishArtifact(kind)
        PROVE  candidates' \subseteq candidates \cup {Request} /\ journal.trust /\ SigningJournaled
    BY <1>e, <2>2 DEF PublishArtifact, ArtifactDue, Completing, Checked, Recovering,
       ParsesCommitted
  <2> QED BY <1>e, <2>1, <2>2 DEF Effects, Pending
<1>1. ASSUME NEW t \in Trusts, InstallTrust(t) PROVE TrustInv'
  <2>1. Pending = {} /\ ~SigningJournaled /\ UNCHANGED << journal, actor >> /\ actor.process = "none"
    <3>1. t \in Nat /\ trust \in Nat /\ t # trust
      BY <1>1, <1>e, TrustAssumption DEF InstallTrust, Trusts, TypeOK, HistoryTypeOK
    <3>2. SchemaTwo(t) \/ SchemaTwo(trust)
      BY <3>1 DEF SchemaTwo
    <3> QED BY <1>1, <3>2 DEF InstallTrust, Command, NoUnresolvedState,
       RetainedHistoryTerminal, signing_vars, process_vars, Idle
  <2> QED BY <1>p, <2>1 DEF TrustInv
<1>2. CASE StageProtocol
  <2>1. /\ trust_of' = [trust_of EXCEPT ![Request] = trust] /\ UNCHANGED << journal, trust >>
        /\ journal.phase = "planned" /\ journal.step = "replay-reserved" /\ ~journal.committed
        /\ Request \notin candidates
    BY <1>2, <1>e DEF StageProtocol, Signing, TransactionFrame, WriterFrame, ParsesPlanned,
       WorkInv
  <2>2. \A r \in Pending' : r # Request /\ r \in Pending /\ r \in Requests
    BY <1>e, <2>1, <1>p, <1>2 DEF Pending, StageProtocol, TransactionFrame, WriterFrame, Decided
  <2> QED BY <1>e, <2>1, <2>2 DEF TrustInv, Named
<1>3. CASE UNCHANGED << trust, trust_of >> /\ ~StageProtocol
  <2>1. \A r \in Pending' : trust_of'[r] = trust'
    BY <1>3, <1>p DEF TrustInv
  <2>2. ASSUME NEW r \in Requests, BeginSigning(r) PROVE TrustInv'
    <3>1. /\ ~journal'.trust /\ journal'.step = "planned" /\ journal'.request = r
          /\ UNCHANGED transactions /\ transactions[r].holds = "absent"
      BY <2>2 DEF BeginSigning, InitialJournal, NoJournal
    <3> QED BY <2>1, <3>1 DEF TrustInv, Transaction
  <2>3. CASE RemoveSigningJournal
    BY <2>1, <2>3 DEF RemoveSigningJournal, NoJournal, TrustInv
  <2>4. CASE UNCHANGED journal
    <3>1. actor'.process = "sign" /\ journal'.phase = "planned" => actor.process = "sign"
      <4>1. ASSUME NEW r \in Requests, BeginSigning(r) PROVE ~UNCHANGED journal
        BY <4>1 DEF BeginSigning, NoUnresolvedState, InitialJournal, NoJournal
      <4> QED BY <2>4, <1>e, <4>1 DEF Effects, ActorStep, BeginHandler, BeginRecovery,
         BeginFinalizationRecovery, BeginDecision, Preflight, RemoveSigningJournal,
         PublishAbandonment, PublishFinalizationJournal, RemoveFinalizationJournal, Ends,
         SigningFails, SigningStops, DecisionFails, DecisionKilled, FinalizationStops, Idle,
         TypeOK, SigningTypeOK
    <3>2. ASSUME actor'.process = "sign", journal'.phase = "planned"
          PROVE  /\ journal.step = "planned" => Transaction'.holds = "absent"
                 /\ journal.step = "replay-reserved" /\ Transaction'.holds = "files" => Transaction.holds = "files"
      <4>0. actor.process = "sign" /\ journal.phase = "planned" /\ ~journal.committed /\ Request \in Requests
        BY <2>4, <3>1, <3>2, <1>e DEF ParsesPlanned, Named
      <4>1. ~Checked /\ ~EndStep
        BY <1>e, <4>0, <3>2 DEF Checked, Recovering, Locked, EndStep, SigningFails,
           SigningStops, Idle
      <4>2. CASE UNCHANGED transactions
        BY <2>4, <4>0, <4>2 DEF TrustInv, Transaction
      <4>3. CASE CreateTransaction
        <5>1. transactions'[Request].holds = "empty" /\ journal.step = "replay-reserved"
          BY <1>e, <4>0, <4>3 DEF CreateTransaction, Signing
        <5> QED BY <2>4, <5>1 DEF Transaction
      <4> QED BY <1>3, <4>1, <4>2, <4>3, <1>e DEF Effects, TransactionStep,
         CreateTerminalDirectory, WriteTerminal, TerminalDue
    <3> QED BY <1>3, <2>1, <2>4, <3>1, <3>2 DEF TrustInv
  <2>5. CASE Recording
    <3>1. UNCHANGED << transactions, actor >> /\ SigningJournaled /\ UNCHANGED Request
      BY <2>5, RecordingFrame, RecordingGoesOn DEF process_vars, GoesOn
    <3>2. CASE RecordReplay
      <4>1. /\ journal'.trust = journal.trust /\ journal'.step = "replay-reserved"
            /\ journal.step = "planned" /\ journal.phase = "planned"
        BY <1>e, <3>2 DEF RecordReplay, ReplayDue, Write, Step, JournalType, ParsesPlanned
      <4> QED BY <1>3, <2>1, <3>1, <4>1 DEF TrustInv, Transaction
    <3>3. CASE RecordTransaction
      <4>1. /\ journal.step = "replay-reserved" /\ journal.phase = "planned" /\ actor.process = "sign"
            /\ Transaction.holds = "files" /\ journal'.step = "transaction-staged"
        BY <1>e, <3>3 DEF RecordTransaction, Signing, Write, Step, JournalType
      <4> QED BY <1>3, <2>1, <3>1, <4>1 DEF TrustInv, Transaction
    <3>4. CASE ~RecordReplay /\ ~RecordTransaction
      <4>1. /\ journal'.trust = journal.trust
            /\ journal'.step \in {"planned", "replay-reserved"} /\ journal'.phase = "planned" =>
                   journal'.step = journal.step /\ journal.phase = "planned"
        <5> USE DEF Write, Step, JournalType
        <5>1. CASE RecordSigningReady
          BY <1>e, <5>1 DEF RecordSigningReady
        <5>2. CASE RecordSigningComplete \/ RecordKeyRemoved \/ RecordEntry \/ Commit
          BY <1>e, <5>2 DEF RecordSigningComplete, RecordKeyRemoved, RecordEntry, Commit
        <5>3. CASE RecordSigningResponse \/ RecordSignature \/ RecordTerminal
          BY <1>e, <5>3 DEF RecordSigningResponse, RecordSignature, RecordTerminal
        <5>4. ASSUME NEW kind \in Kinds, RecordStage(kind)
              PROVE  journal'.trust = journal.trust /\ journal'.phase = "ca-committed"
          BY <1>e, <5>4 DEF RecordStage, StageDue, Completing
        <5>5. ASSUME NEW kind \in Kinds, RecordArtifact(kind)
              PROVE  journal'.trust = journal.trust /\ journal'.phase = "ca-committed"
          BY <1>e, <5>5 DEF RecordArtifact, ArtifactDue, Completing
        <5>6. ASSUME NEW k \in Keys, RecordRestored(k)
              PROVE  journal' = [journal EXCEPT !.pre[k] = database[k]]
          BY <5>6 DEF RecordRestored, Current
        <5> QED BY <1>e, <2>5, <3>4, <5>1, <5>2, <5>3, <5>4, <5>5, <5>6 DEF Recording
      <4> QED BY <1>3, <2>1, <3>1, <4>1 DEF TrustInv, Transaction
    <3> QED BY <3>2, <3>3, <3>4
  <2> QED BY JournalChanges, <2>1, <2>2, <2>3, <2>4, <2>5, <1>e DEF BeginSigning, Named
<1> QED BY <1>e, <1>1, <1>2, <1>3 DEF Effects, InstallTrust, StageProtocol, TransactionFrame,
   WriterFrame

------------------------------------------------------------------------------
(* The inductive invariant of a signing.                                     *)
SigningInv ==
    /\ Base /\ DecisionInv /\ JournalParses /\ WorkInv /\ ReplayInv /\ KeyCopyAccountable
    /\ OutcomeInv /\ TrustInv

(* The conjuncts together are inductive.                                     *)
LEMMA SigningInvariant == Spec => []SigningInv
<1>1. Init => SigningInv
  <2> SUFFICES ASSUME Init PROVE SigningInv
    OBVIOUS
  <2>1. Base /\ DecisionInv
    BY FirstState, DecisionFirst DEF Base
  <2> QED BY <2>1 DEF Init, SigningInit, HistoryInit, SigningInv, JournalParses, WorkInv,
     ReplayInv, KeyCopyAccountable, OutcomeInv, TrustInv, SigningJournaled, NoJournal, Idle,
     Pending
<1>2. SigningInv /\ [Next]_vars => SigningInv'
  BY BaseNext, DecisionNext, ParsesNext, WorkNext, ReplayNext, KeyNext, OutcomeNext, TrustNext
     DEF SigningInv
<1> QED BY <1>1, <1>2, PTL DEF Spec

(* Whatever write a process is killed after, the journal left behind passes  *)
(* parse_signing_journal, so that recovery can begin.                        *)
THEOREM JournalAlwaysParses == Spec => []JournalParses
BY SigningInvariant, PTL DEF SigningInv

(* A copy of the CA key lies only where the journal says that a signing has  *)
(* one, before its first database entry is published.                        *)
THEOREM KeyCopiesAccounted == Spec => []KeyCopyAccountable
BY SigningInvariant, PTL DEF SigningInv

(* No candidate or response is published whose signing was not committed, or *)
(* whose request or nonce another request reserved.                          *)
THEOREM PublishedAfterCommit == Spec => []PublishedOnlyIfCommitted
<1>1. SigningInv => PublishedOnlyIfCommitted
  BY DEF SigningInv, PublishedOnlyIfCommitted, OutcomeInv, ReplayInv, Reserved
<1> QED BY <1>1, SigningInvariant, PTL

(* Every undecided candidate was signed under the trust that is installed.   *)
THEOREM PendingKnowInstalledTrust == Spec => []PendingUnderInstalledTrust
<1>1. SigningInv => PendingUnderInstalledTrust
  <2> SUFFICES ASSUME SigningInv, NEW r \in Requests,
                      r \in Pending \/ (journal.request = r /\ journal.trust)
               PROVE  trust_of[r] = trust
    BY DEF PendingUnderInstalledTrust
  <2> QED BY DEF SigningInv, TrustInv, Base, Named, NoJournal, Request
<1> QED BY <1>1, SigningInvariant, PTL

(* After the commit nothing restores a database entry, and the journal goes  *)
(* only once the terminal record, the candidate and the response are there.  *)
THEOREM CommitIsFinal == Spec => CommitIrrevocable
<1> DEFINE Kept ==
      journal.committed =>
          /\ database' = database
          /\ \/ journal'.committed /\ journal'.request = journal.request
             \/ /\ journal' = NoJournal /\ Transaction.terminal = "published"
                /\ Request \in candidates \cap responses
<1>1. SigningInv /\ [Next]_vars => [Kept]_vars
  <2> SUFFICES ASSUME SigningInv, [Next]_vars, journal.committed PROVE Kept
    OBVIOUS
  <2>e. /\ Effects /\ TypeOK /\ Named /\ Locked /\ SigningJournaled
        /\ journal.phase = "planned" => ~journal.committed
        /\ journal.phase = "terminal" => ParsesTerminal(journal)
    BY StepEffects, JournalTable DEF SigningInv, Base, ParsesPlanned, Named, NoJournal
  <2>1. database' = database
    BY <2>e DEF Effects, DatabaseStep, BeginSigning, NoUnresolvedState, PublishEntry,
       EntryDue, Publishing, Signing, RollbackEntry, RollbackDue, RollingBack
  <2>2. CASE RemoveSigningJournal
    <3>1. journal' = NoJournal /\ journal.phase = "terminal"
      BY <2>2 DEF RemoveSigningJournal
    <3>2. Transaction.terminal = "published"
      BY <3>1 DEF SigningInv, OutcomeInv, Outcome
    <3>3. Request \in candidates \cap responses
      BY <2>e, <3>1 DEF SigningInv, WorkInv, DestinationRecorded, Artifacts, Kinds,
         ParsesTerminal
    <3> QED BY <2>1, <3>1, <3>2, <3>3
  <2>3. CASE GoesOn
    BY <2>1, <2>3 DEF GoesOn
  <2> QED BY <2>e, <2>2, <2>3, JournalGoesOn
<1> QED BY <1>1, SigningInvariant, PTL DEF Spec, CommitIrrevocable
------------------------------------------------------------------------------

(* The signer while it publishes: the entries counted in its journal are the *)
(* new ones, and what it is yet to publish is staged.                        *)
Entry(i) == CSR_DB_KEYS[i]
New(k) == database[k] = Issued(Request)
Staged(k) == work.source[k] = "staged"
PublishInv ==
    actor.process = "sign" /\ journal.phase = "planned" =>
        /\ journal.step = "signing-complete" => \A k \in Keys : Staged(k)
        /\ journal.step \in {"sensitive-key-removed", "ca-published"} =>
              \A i \in 1..7 : /\ i <= journal.post => New(Entry(i))
                              /\ i > journal.post => Staged(Entry(i)) \/ New(Entry(i))
                              /\ i > journal.post + 1 => Staged(Entry(i))

(* A signer before its commit was one a step ago, or has just begun.         *)
LEMMA SignerGoesOn ==
    ASSUME Base, JournalParses, [Next]_vars, actor'.process = "sign", journal'.phase = "planned"
    PROVE  \/ \E r \in Requests : BeginSigning(r)
           \/ /\ actor.process = "sign" /\ journal.phase = "planned"
              /\ ~Checked /\ ~EndStep /\ UNCHANGED Request /\ ~journal.committed
<1>e. /\ Effects /\ Named /\ Locked /\ actor \in [process : Processes, checked : BOOLEAN]
      /\ journal \in JournalType /\ TypeOK
      /\ journal.phase = "planned" => ~journal.committed
      /\ journal.phase = "ca-committed" => journal.committed
  BY StepEffects, JournalTable DEF Base, TypeOK, SigningTypeOK, ParsesPlanned, ParsesCommitted
<1>1. ASSUME \A r \in Requests : ~BeginSigning(r) PROVE actor.process = "sign"
  BY <1>e, <1>1 DEF Effects, ActorStep, BeginHandler, BeginRecovery,
     BeginFinalizationRecovery, BeginDecision, Preflight, RemoveSigningJournal,
     PublishAbandonment, PublishFinalizationJournal, RemoveFinalizationJournal, Ends,
     SigningFails, SigningStops, DecisionFails, DecisionKilled, FinalizationStops, Idle
<1>2. ASSUME \A r \in Requests : ~BeginSigning(r), actor.process = "sign"
      PROVE  journal.phase = "planned" /\ UNCHANGED Request
  <2>1. SigningJournaled /\ ~RemoveSigningJournal
    BY <1>e, <1>2 DEF Locked, RemoveSigningJournal, NoJournal
  <2>2. GoesOn
    BY <1>e, <2>1, JournalGoesOn
  <2>3. CASE UNCHANGED journal
    BY <2>3 DEF Request
  <2>4. CASE Recording
    <3>1. journal'.phase = journal.phase
      BY <1>e, <2>4 DEF Recording, RecordReplay, RecordTransaction, RecordSigningReady,
         RecordSigningComplete, RecordKeyRemoved, RecordEntry, Commit, RecordRestored,
         RecordSigningResponse, RecordSignature, RecordStage, RecordArtifact, RecordTerminal,
         Write, Step, JournalType
    <3> QED BY <2>2, <3>1 DEF GoesOn, Request
  <2> QED BY <1>2, <2>1, <2>3, <2>4, JournalChanges
<1>3. ASSUME actor.process = "sign", journal.phase = "planned" PROVE ~Checked /\ ~EndStep
  BY <1>e, <1>3 DEF Checked, Recovering, Locked, EndStep, SigningFails, SigningStops, Idle
<1> QED BY <1>1, <1>2, <1>3, <1>e

(* Entries are published in the order of their keys, each before its count.  *)
LEMMA PublishNext ==
    ASSUME Base, JournalParses, PublishInv, [Next]_vars
    PROVE  PublishInv'
<1>e. /\ Effects /\ TypeOK /\ Named /\ journal \in JournalType /\ work \in WorkType
      /\ database \in [Keys -> Files]
      /\ journal.phase = "planned" => ParsesPlanned(journal)
  BY StepEffects, JournalTable DEF Base, TypeOK, SigningTypeOK
<1>k. /\ \A i \in 1..7 : Entry(i) \in Keys
      /\ \A i, j \in 1..7 : Entry(i) = Entry(j) => i = j
      /\ Len(CSR_DB_KEYS) = 7 /\ journal.post \in 0..7
      /\ \A k \in Keys : \E i \in 1..7 : k = Entry(i)
  BY <1>e, DatabaseKeys DEF Entry, JournalType
<1> SUFFICES ASSUME actor'.process = "sign", journal'.phase = "planned" PROVE PublishInv'
  BY DEF PublishInv
<1>1. ASSUME NEW r \in Requests, BeginSigning(r) PROVE PublishInv'
  BY <1>1 DEF BeginSigning, InitialJournal, NoJournal, PublishInv
<1>2. ASSUME actor.process = "sign", journal.phase = "planned", ~Checked, ~EndStep, UNCHANGED Request,
             ~journal.committed
      PROVE  PublishInv'
  <2>p. ParsesPlanned(journal)
    BY <1>e, <1>2
  <2>1. CASE UNCHANGED << journal, database, work >>
    BY <1>2, <2>1 DEF PublishInv, New, Staged
  <2>2. CASE Recording
    <3>0. UNCHANGED << database, work >>
      BY <2>2, RecordingFrame
    <3>1. CASE RecordSigningComplete
      BY <1>e, <3>0, <3>1 DEF RecordSigningComplete, Write, Step, JournalType, PublishInv,
         Staged
    <3>2. CASE RecordKeyRemoved
      <4>1. /\ journal' = [journal EXCEPT !.step = "sensitive-key-removed", !.removed = TRUE]
            /\ journal.post = 0 /\ \A k \in Keys : Staged(k)
        BY <1>2, <2>p, <1>e, <3>2 DEF RecordKeyRemoved, Signing, Write, Step, PublishInv,
           ParsesPlanned, JournalType
      <4>2. /\ journal'.post = 0 /\ journal'.step = "sensitive-key-removed"
            /\ \A k \in Keys : Staged(k)'
        BY <1>e, <3>0, <4>1 DEF JournalType, Staged
      <4> QED BY <1>k, <4>2 DEF PublishInv
    <3>3. CASE RecordEntry
      <4>1. /\ journal'.post = journal.post + 1 /\ journal'.step = "ca-published"
            /\ journal.step \in {"sensitive-key-removed", "ca-published"}
            /\ journal.post < 7 /\ ~Staged(Entry(journal.post + 1))
        BY <1>e, <1>k, <3>3 DEF RecordEntry, EntryDue, Publishing, Signing, NextKey, Entry,
           Write, Step, JournalType, Staged
      <4>2. \A i \in 1..7 : /\ New(Entry(i))' <=> New(Entry(i))
                            /\ Staged(Entry(i))' <=> Staged(Entry(i))
        BY <1>2, <3>0 DEF New, Staged, Entry
      <4>3. \A i \in 1..7 : /\ i <= journal.post => New(Entry(i))
                            /\ i > journal.post => Staged(Entry(i)) \/ New(Entry(i))
                            /\ i > journal.post + 1 => Staged(Entry(i))
        BY <1>2, <4>1 DEF PublishInv
      <4>4. New(Entry(journal.post + 1))
        BY <1>k, <4>1, <4>3
      <4>5. \A i \in 1..7 : /\ i <= journal.post + 1 => New(Entry(i))
                            /\ i > journal.post + 2 => Staged(Entry(i))
                            /\ i > journal.post + 1 => Staged(Entry(i))
        BY <1>k, <4>1, <4>3, <4>4
      <4> HIDE DEF Entry, New, Staged
      <4>6. \A i \in 1..7 : /\ i <= journal'.post => New(Entry(i))'
                            /\ i > journal'.post => Staged(Entry(i))'
                            /\ i > journal'.post + 1 => Staged(Entry(i))'
        BY <1>k, <4>1, <4>2, <4>5
      <4> QED BY <4>1, <4>6 DEF PublishInv
    <3>4. CASE ~RecordSigningComplete /\ ~RecordKeyRemoved /\ ~RecordEntry
      <4> DEFINE Late == {"signing-complete", "sensitive-key-removed", "ca-published"}
      <4>1. journal'.step \in Late => /\ journal'.step = journal.step /\ journal'.post = journal.post
        <5>1. CASE RecordReplay \/ RecordTransaction
          BY <1>e, <5>1 DEF RecordReplay, RecordTransaction, Write, Step, JournalType
        <5>2. CASE RecordSigningReady \/ Commit \/ RecordTerminal
          BY <1>e, <5>2 DEF RecordSigningReady, Commit, RecordTerminal, Write, Step, JournalType
        <5>3. ~RecordSigningResponse /\ ~RecordSignature /\ \A kind \in Kinds : ~RecordStage(kind) /\ ~RecordArtifact(kind)
          BY <1>2 DEF RecordSigningResponse, RecordSignature, RecordStage, StageDue,
             RecordArtifact, ArtifactDue, Completing
        <5>4. ASSUME NEW k \in Keys PROVE ~RecordRestored(k)
          BY <1>2 DEF RecordRestored, RollbackDue, RollingBack
        <5> QED BY <2>2, <3>4, <5>1, <5>2, <5>3, <5>4 DEF Recording
      <4> QED BY <1>2, <3>0, <4>1 DEF PublishInv, New, Staged, Entry
    <3> QED BY <3>1, <3>2, <3>3, <3>4
  <2>3. CASE PublishEntry \/ RemoveDisplacedEntry
    <3> DEFINE n == journal.post + 1
    <3>1. /\ UNCHANGED journal /\ journal.step \in {"sensitive-key-removed", "ca-published"}
          /\ n \in 1..7 /\ \A k \in Keys \ {Entry(n)} : database'[k] = database[k] /\ work'.source[k] = work.source[k]
          /\ database'[Entry(n)] = Issued(Request) \/ (~Staged(Entry(n)) /\ database'[Entry(n)] = database[Entry(n)])
      <4>1. UNCHANGED journal /\ journal.step \in {"sensitive-key-removed", "ca-published"} /\ n \in 1..7 /\ NextKey = Entry(n)
        BY <1>k, <2>3 DEF PublishEntry, RemoveDisplacedEntry, EntryDue, Publishing, Signing,
           NextKey, Entry
      <4>2. CASE PublishEntry
        BY <1>e, <1>k, <4>1, <4>2 DEF PublishEntry, WorkType
      <4>3. CASE RemoveDisplacedEntry
        BY <1>e, <1>k, <4>1, <4>3 DEF RemoveDisplacedEntry, WorkType, Staged
      <4> QED BY <2>3, <4>1, <4>2, <4>3
    <3>2. \A i \in 1..7 : i # n => /\ New(Entry(i))' <=> New(Entry(i))
                                   /\ Staged(Entry(i))' <=> Staged(Entry(i))
      BY <1>2, <1>k, <3>1 DEF New, Staged, Entry
    <3>3. New(Entry(n)) \/ Staged(Entry(n))
      BY <1>2, <1>k, <3>1 DEF PublishInv
    <3>4. New(Entry(n))'
      BY <1>2, <3>1, <3>3 DEF New, Entry
    <3>5. \A i \in 1..7 : /\ i <= journal.post => New(Entry(i)) /\ i # n
                          /\ i > journal.post => Staged(Entry(i)) \/ New(Entry(i))
                          /\ i > journal.post + 1 => Staged(Entry(i)) /\ i # n
      BY <1>2, <1>k, <3>1 DEF PublishInv
    <3> HIDE DEF Entry, New, Staged
    <3>6. \A i \in 1..7 : /\ i <= journal'.post => New(Entry(i))'
                          /\ i > journal'.post => Staged(Entry(i))' \/ New(Entry(i))'
                          /\ i > journal'.post + 1 => Staged(Entry(i))'
      BY <3>1, <3>2, <3>4, <3>5
    <3> QED BY <3>1, <3>6 DEF PublishInv
  <2>4. CASE CopyDatabase \/ \E k \in Keys : RunOpenssl(k)
    BY <1>2, <2>4 DEF CopyDatabase, RunOpenssl, Signing, PublishInv, TransactionFrame
  <2>5. /\ ~RemoveSigningJournal /\ ~SignResponse
        /\ \A k \in Keys : ~RollbackEntry(k) /\ ~RemoveDisplacedBackup(k)
        /\ \A kind \in Kinds : ~CreateStage(kind) /\ ~FillStage(kind) /\ ~PublishArtifact(kind)
        /\ \A r \in Requests : ~BeginSigning(r)
    BY <1>2 DEF RemoveSigningJournal, SignResponse, RollbackEntry, RemoveDisplacedBackup,
       RollbackDue, RollingBack, CreateStage, FillStage, StageDue, PublishArtifact,
       ArtifactDue, Completing, BeginSigning, NoUnresolvedState, SigningJournaled
  <2> QED BY <1>e, <1>2, <2>1, <2>2, <2>3, <2>4, <2>5, JournalChanges DEF Effects, WorkStep,
     DatabaseStep
<1> QED BY <1>1, <1>2, SignerGoesOn

------------------------------------------------------------------------------
(* Which signing the database files are of, journal by journal: `by' is the  *)
(* last committed one.                                                       *)
Final(by) == by \in {"base"} \cup {r \in Requests : transactions[r].terminal = "published"}
AllBy(files, by) ==
    \A k \in LedgerFiles : files[k].by = by \/ (by = "base" /\ files[k] = NoFile)

DatabaseInv ==
    /\ ~SigningJournaled =>
          \E by : Final(by) /\ AllBy(database, by) /\ database["newcert"] \in {NoFile, Issued(by)}
    /\ SigningJournaled /\ ~journal.committed /\ ~journal.contract =>
          \E by : Final(by) /\ AllBy(database, by) /\ database["newcert"] = NoFile
    /\ SigningJournaled /\ ~journal.committed /\ journal.contract =>
          /\ \E by : Final(by) /\ AllBy(journal.pre, by) /\ journal.pre["newcert"] = NoFile
          /\ \A k \in Keys :
                \/ database[k] = journal.pre[k]
                \/ /\ journal.phase = "planned"
                   /\ database[k] = Issued(Request) \/ (journal.pre[k] # NoFile /\ database[k] = BackupOf(k))
    /\ SigningJournaled /\ journal.committed => \A k \in Keys : New(k)

(* Nothing in the files a signing found is its own.                          *)
LEMMA PreIsForeign ==
    ASSUME Base, OutcomeInv, DatabaseInv, SigningJournaled, ~journal.committed, journal.contract
    PROVE  \A k \in Keys : journal.pre[k].by # Request /\ journal.pre[k] # Issued(Request)
<1>1. Request \in Requests /\ Transaction.terminal # "published" /\ "base" \notin Requests /\ "nobody" \notin Requests
  BY RequestsAssumption DEF Base, Named, OutcomeInv
<1>2. PICK by : Final(by) /\ AllBy(journal.pre, by) /\ journal.pre["newcert"] = NoFile
  BY DEF DatabaseInv
<1>3. by # Request
  BY <1>1, <1>2 DEF Final, Transaction
<1> QED BY <1>1, <1>2, <1>3 DEF AllBy, LedgerFiles, NoFile, Issued

(* A committed signing that was answered remains one.                        *)
LEMMA FinalStays == ASSUME Base, [Next]_vars, NEW by, Final(by) PROVE Final(by)'
<1>1. /\ Effects /\ transactions \in [Requests -> [holds : {"absent", "empty", "files"},
                                        terminal : {"none", "failed-pre-commit", "published"}]]
  BY StepEffects DEF Base, TypeOK, SigningTypeOK
<1>2. \A r \in Requests : transactions[r].terminal = "published" => transactions'[r].terminal = "published"
  <2>1. CASE CreateTransaction \/ StageProtocol \/ CreateTerminalDirectory
    BY <1>1, <2>1 DEF CreateTransaction, StageProtocol, CreateTerminalDirectory
  <2>2. CASE WriteTerminal
    BY <1>1, <2>2 DEF WriteTerminal, Transaction
  <2>3. CASE EndStep
    BY <1>1, <2>3 DEF EndStep, SigningEnds, TornWrite
  <2> QED BY <1>1, <2>1, <2>2, <2>3 DEF Effects, TransactionStep
<1> QED BY <1>2 DEF Final

(* No step, of a signer or of a rollback, mixes two signings in the files.   *)
LEMMA DatabaseNext ==
    ASSUME SigningInv, PublishInv, DatabaseInv, [Next]_vars
    PROVE  DatabaseInv'
<1>e. /\ Effects /\ Base /\ TypeOK /\ TypeOK' /\ Named /\ Locked /\ OutcomeInv /\ journal \in JournalType
      /\ journal.phase = "planned" => ParsesPlanned(journal)
      /\ journal.phase = "terminal" => ParsesTerminal(journal)
      /\ database \in [Keys -> Files]
      /\ \A by : Final(by) => Final(by)'
  BY StepEffects, JournalTable, BaseNext, FinalStays DEF SigningInv, Base, TypeOK, SigningTypeOK
<1>k. "newcert" \in Keys /\ LedgerFiles = Keys \ {"newcert"}
  BY DEF Keys, LedgerFiles
<1> USE DEF SigningJournaled, Request, New
<1>1. ASSUME NEW r \in Requests, BeginSigning(r) PROVE DatabaseInv'
  <2>1. /\ journal'.phase = "planned" /\ ~journal'.committed /\ ~journal'.contract /\ ~SigningJournaled
        /\ database' = [database EXCEPT !["newcert"] = NoFile]
    BY <1>1 DEF BeginSigning, NoUnresolvedState, InitialJournal, NoJournal
  <2>2. PICK by : Final(by) /\ AllBy(database, by)
    BY <2>1 DEF DatabaseInv
  <2>3. Final(by)' /\ AllBy(database', by) /\ database'["newcert"] = NoFile
    BY <1>e, <1>k, <2>1, <2>2 DEF AllBy
  <2> QED BY <2>1, <2>3 DEF DatabaseInv
<1>2. CASE RemoveSigningJournal
  <2>1. /\ journal' = NoJournal /\ journal'.phase = "none" /\ UNCHANGED << database, transactions >>
        /\ journal.phase = "terminal" /\ Request \in Requests
    BY <1>2, <1>e DEF RemoveSigningJournal, TerminalFrame, NoJournal, Named
  <2>2. CASE journal.committed
    <3>0. PICK r \in Requests : r = Request
      BY <2>1
    <3>1. Final(r)'
      BY <1>e, <2>1, <2>2, <3>0 DEF OutcomeInv, Outcome, Transaction, Final
    <3>2. AllBy(database, r) /\ database["newcert"] = Issued(r)
      BY <1>k, <2>1, <2>2, <3>0 DEF DatabaseInv, AllBy, Issued
    <3> QED BY <2>1, <3>1, <3>2 DEF DatabaseInv
  <2>3. CASE ~journal.committed
    <3>1. \E by : Final(by) /\ AllBy(database, by) /\ database["newcert"] = NoFile
      BY <1>k, <2>1, <2>3 DEF DatabaseInv, AllBy
    <3> QED BY <1>e, <2>1, <3>1 DEF DatabaseInv
  <2> QED BY <2>2, <2>3
<1>3. CASE Recording
  <2>1. /\ UNCHANGED database /\ UNCHANGED Request /\ SigningJournaled /\ SigningJournaled'
        /\ journal.committed => journal'.committed
        /\ journal'.committed => journal.committed \/ Commit
    BY <1>3, RecordingFrame, RecordingGoesOn DEF GoesOn, SigningInv
  <2>2. CASE journal.committed
    BY <2>1, <2>2 DEF DatabaseInv
  <2>3. CASE Commit
    <3>1. \A i \in 1..7 : New(Entry(i))
      BY <2>3, DatabaseKeys DEF Commit, Signing, PublishInv
    <3> QED BY <2>1, <2>3, <3>1, <1>e, DatabaseKeys DEF DatabaseInv, Entry, Commit, Write,
       Step, JournalType
  <2>4. CASE RecordSigningReady
    <3>1. /\ journal'.contract /\ ~journal'.committed /\ journal'.pre = database
          /\ ~journal.contract /\ ~journal.committed
      BY <1>e, <2>4 DEF RecordSigningReady, Signing, ParsesPlanned, EarlySteps, Write, Step,
         JournalType
    <3>2. PICK by : Final(by) /\ AllBy(database, by) /\ database["newcert"] = NoFile
      BY <2>1, <3>1 DEF DatabaseInv
    <3> QED BY <1>e, <2>1, <3>1, <3>2 DEF DatabaseInv, AllBy
  <2>5. ASSUME NEW k \in Keys, RecordRestored(k) PROVE DatabaseInv'
    <3>1. /\ journal' = [journal EXCEPT !.pre[k] = database[k]] /\ journal.contract /\ ~journal.committed
          /\ journal.pre[k] # NoFile /\ database[k] # journal.pre[k] /\ database[k] = BackupOf(k)
      BY <2>5 DEF RecordRestored, RollbackDue, RollingBack, Restored, Current, Write
    <3>2. /\ journal'.contract /\ ~journal'.committed /\ journal'.phase = journal.phase
          /\ journal'.pre = [journal.pre EXCEPT ![k] = BackupOf(k)] /\ journal.pre \in [Keys -> Files]
      BY <1>e, <3>1 DEF JournalType
    <3>3. /\ journal'.pre[k] = database[k] /\ journal'.pre[k].by = journal.pre[k].by
          /\ \A l \in Keys \ {k} : journal'.pre[l] = journal.pre[l] /\ BackupOf(l)' = BackupOf(l)
      BY <2>1, <3>1, <3>2 DEF BackupOf
    <3>4. PICK by : Final(by) /\ AllBy(journal.pre, by) /\ journal.pre["newcert"] = NoFile
      BY <2>1, <3>1 DEF DatabaseInv
    <3>5. Final(by)' /\ AllBy(journal'.pre, by) /\ journal'.pre["newcert"] = NoFile
      BY <1>e, <1>k, <3>1, <3>3, <3>4 DEF AllBy
    <3>6. \A l \in Keys :
                \/ database'[l] = journal'.pre[l]
                \/ /\ journal'.phase = "planned"
                   /\ database'[l] = Issued(Request)' \/ (journal'.pre[l] # NoFile /\ database'[l] = BackupOf(l)')
      BY <2>1, <3>1, <3>2, <3>3 DEF DatabaseInv, Issued
    <3> QED BY <2>1, <3>2, <3>5, <3>6 DEF DatabaseInv
  <2>6. CASE RecordTerminal /\ ~journal.committed
    <3>1. /\ journal'.contract = journal.contract /\ journal'.committed = journal.committed /\ journal'.pre = journal.pre
          /\ journal.contract => \A k \in Keys : database[k] = journal.pre[k]
      BY <1>e, <2>6 DEF RecordTerminal, TerminalDue, RolledBack, Untouched, Current, Write,
         Step, JournalType
    <3> QED BY <1>e, <2>1, <2>6, <3>1 DEF DatabaseInv, AllBy
  <2>7. CASE ~journal.committed /\ ~Commit /\ ~RecordSigningReady /\ ~RecordTerminal /\ \A k \in Keys : ~RecordRestored(k)
    <3>1. /\ journal'.contract = journal.contract /\ journal'.pre = journal.pre /\ journal'.phase = journal.phase
          /\ ~journal'.committed
      BY <1>e, <1>3, <2>1, <2>7 DEF Recording, RecordReplay, RecordTransaction,
         RecordSigningComplete, RecordKeyRemoved, RecordEntry, RecordSigningResponse,
         RecordSignature, RecordStage, RecordArtifact, Write, Step, JournalType
    <3>2. \A k \in Keys : BackupOf(k)' = BackupOf(k)
      BY <2>1, <3>1 DEF BackupOf
    <3> QED BY <1>e, <2>1, <2>7, <3>1, <3>2 DEF DatabaseInv, AllBy, Issued
  <2> QED BY <2>2, <2>3, <2>4, <2>5, <2>6, <2>7
<1>4. CASE UNCHANGED journal
  <2>0. UNCHANGED Request /\ \A k : BackupOf(k)' = BackupOf(k)
    BY <1>4 DEF BackupOf
  <2>1. CASE UNCHANGED database
    BY <1>e, <1>4, <2>0, <2>1 DEF DatabaseInv, AllBy
  <2>2. CASE PublishEntry
    <3>1. /\ journal.phase = "planned" /\ ~journal.committed /\ journal.contract
          /\ \A k \in Keys : database'[k] = database[k] \/ database'[k] = Issued(Request)
      BY <1>e, <2>2 DEF PublishEntry, EntryDue, Publishing, Signing, ParsesPlanned, EarlySteps
    <3> QED BY <1>e, <1>4, <2>0, <3>1 DEF DatabaseInv, AllBy, Issued
  <2>3. ASSUME NEW k \in Keys, RollbackEntry(k) PROVE DatabaseInv'
    <3>1. /\ ~journal.committed /\ journal.contract /\ SigningJournaled /\ New(k)
          /\ \A l \in Keys \ {k} : database'[l] = database[l]
          /\ database'[k] = journal.pre[k] \/ (journal.pre[k] # NoFile /\ database'[k] = BackupOf(k))
      BY <1>e, <2>3 DEF RollbackEntry, RollbackDue, RollingBack, Checked, Recovering,
         ToRollBack, Ours, Current
    <3>2. journal.phase = "planned"
      BY <1>e, <3>1, PreIsForeign DEF DatabaseInv
    <3> QED BY <1>e, <1>4, <2>0, <3>1, <3>2 DEF DatabaseInv, AllBy, Issued
  <2>4. \A r \in Requests : ~BeginSigning(r)
    BY <1>4 DEF BeginSigning, NoUnresolvedState, InitialJournal, NoJournal
  <2> QED BY <1>e, <2>1, <2>2, <2>3, <2>4 DEF Effects, DatabaseStep
<1> QED BY JournalChanges, <1>1, <1>2, <1>3, <1>4

(* The invariant of the whole.                                               *)
LedgerInv == SigningInv /\ PublishInv /\ DatabaseInv

(* The invariant the ledger rests on.                                        *)
LEMMA LedgerInvariant == Spec => []LedgerInv
<1>1. Init => PublishInv /\ DatabaseInv
  <2> SUFFICES ASSUME Init PROVE PublishInv /\ DatabaseInv
    OBVIOUS
  <2>1. PICK old \in {NoFile, Original} :
          database = [k \in Keys |-> CASE k \in {"index", "index_attr", "serial"} -> Original
                                       [] k = "newcert" -> NoFile [] OTHER -> old]
    BY DEF Init, SigningInit
  <2>2. AllBy(database, "base") /\ database["newcert"] = NoFile
    BY <2>1 DEF AllBy, LedgerFiles, Keys, Original
  <2> QED BY <2>2 DEF Init, SigningInit, PublishInv, DatabaseInv, SigningJournaled, NoJournal,
     Idle, Final
<1>2. SigningInv /\ PublishInv /\ DatabaseInv /\ [Next]_vars => PublishInv' /\ DatabaseInv'
  BY PublishNext, DatabaseNext DEF SigningInv
<1> QED BY <1>1, <1>2, SigningInvariant, PTL DEF Spec, LedgerInv

(* Between signings the database files are all of the last committed one,    *)
(* however many signings were interrupted, rolled back or completed since.   *)
THEOREM DatabaseAlwaysWhole == Spec => []DatabaseWhole
<1>1. LedgerInv => DatabaseWhole
  BY DEF LedgerInv, DatabaseInv, DatabaseWhole, Final, AllBy, LedgerFiles
<1> QED BY <1>1, LedgerInvariant, PTL

------------------------------------------------------------------------------
(* What the ledger sees of a step.                                           *)

ledgered == << TakenUp, SignedRequests, AnsweredRequests, Decisions, CurrentRequest >>

(* The first state is a first state of the ledger.                           *)
LEMMA LedgerFirst == Init => Ledger!Init
<1> SUFFICES ASSUME Init PROVE Ledger!Init
  OBVIOUS
<1>1. PICK old \in {NoFile, Original} :
          database = [k \in Keys |-> CASE k \in {"index", "index_attr", "serial"} -> Original
                                       [] k = "newcert" -> NoFile [] OTHER -> old]
  BY DEF Init, SigningInit
<1>2. TakenUp \in [LedgerFiles -> {"base", "nobody"}]
  <2>1. \A k \in LedgerFiles : database[k].by \in {"base", "nobody"}
    BY <1>1 DEF LedgerFiles, NoFile, Original
  <2>2. ~journal.contract
    BY DEF Init, SigningInit, NoJournal
  <2> QED BY <2>1, <2>2 DEF TakenUp
<1>3. SignedRequests = {} /\ AnsweredRequests = {}
  BY DEF Init, SigningInit, SignedRequests, AnsweredRequests, NoJournal
<1>4. Decisions = [r \in Requests |-> "none"] /\ CurrentRequest = "nobody"
  BY RequestsAssumption DEF Init, HistoryInit, Decisions, CurrentRequest, Finalizing,
     NoFinalization
<1> QED BY <1>2, <1>3, <1>4 DEF Ledger!Init

(* Whatever is signed is answered, except the request of a committed journal. *)
LEMMA SignedIsAnswered ==
    ASSUME LedgerInv
    PROVE  /\ AnsweredRequests \subseteq SignedRequests
           /\ \A r \in SignedRequests \ AnsweredRequests : journal.committed /\ r = Request
           /\ SigningJournaled /\ ~journal.committed => Request \notin SignedRequests
<1> USE DEF LedgerInv, SigningInv, OutcomeInv, SignedRequests, AnsweredRequests, Request, Transaction
<1>1. candidates \subseteq Requests /\ responses \subseteq Requests
  BY DEF Base, TypeOK, SigningTypeOK
<1> QED BY <1>1

(* The ledger sees a decision only through outcomes, pointer and journal.    *)
LEMMA DecisionsUnder ==
    ASSUME UNCHANGED << outcomes, active, finalization >>
    PROVE  UNCHANGED << Decisions, CurrentRequest >>
BY DEF Decisions, CurrentRequest, Finalizing

(* Every step is a step of the ledger, or the ledger does not see it.        *)
LEMMA LedgerStep ==
    ASSUME LedgerInv, LedgerInv', [Next]_vars
    PROVE  Ledger!Next \/ UNCHANGED ledgered
<1>e. /\ Effects /\ Base /\ Base' /\ TypeOK /\ Named /\ Locked /\ journal \in JournalType
      /\ journal.phase = "planned" => ParsesPlanned(journal)
      /\ journal.phase = "ca-committed" => ParsesCommitted(journal)
      /\ transactions \in [Requests -> [holds : {"absent", "empty", "files"},
                                        terminal : {"none", "failed-pre-commit", "published"}]]
      /\ candidates \subseteq Requests /\ responses \subseteq Requests
  BY StepEffects, JournalTable DEF LedgerInv, SigningInv, Base, TypeOK, SigningTypeOK
<1> USE DEF ledgered
<1>b. ASSUME NEW r \in Requests, BeginSigning(r) PROVE UNCHANGED ledgered
  <2>1. /\ UNCHANGED << transactions, candidates, responses, outcomes, active, finalization >>
        /\ ~journal.committed /\ ~journal.contract /\ ~journal'.committed /\ ~journal'.contract
        /\ \A k \in LedgerFiles : database'[k] = database[k]
    BY <1>b, <1>e DEF BeginSigning, NoUnresolvedState, Named, InitialJournal, NoJournal,
       LedgerFiles, TypeOK, SigningTypeOK
  <2> QED BY <2>1, DecisionsUnder DEF TakenUp, SignedRequests, AnsweredRequests
<1>r. CASE RemoveSigningJournal
  <2>1. /\ UNCHANGED << database, transactions, candidates, responses, outcomes, active, finalization >>
        /\ journal' = NoJournal /\ ~journal'.committed /\ ~journal'.contract /\ journal.phase = "terminal" /\ SigningJournaled
    BY <1>r DEF RemoveSigningJournal, TerminalFrame, ArtifactsFrame, RecoveryFrame,
       history_vars, NoJournal, SigningJournaled
  <2>2. TakenUp' = TakenUp
    <3>1. journal.contract /\ ~journal.committed => \A k \in Keys : database[k] = journal.pre[k]
      BY <2>1 DEF LedgerInv, DatabaseInv
    <3> QED BY <2>1, <3>1 DEF TakenUp, LedgerFiles
  <2>3. SignedRequests' = SignedRequests
    <3>1. journal.committed => Transaction.terminal = "published"
      BY <2>1 DEF LedgerInv, SigningInv, OutcomeInv, Outcome
    <3> QED BY <2>1, <3>1 DEF SignedRequests, Transaction, Request
  <2> QED BY <2>1, <2>2, <2>3, DecisionsUnder DEF AnsweredRequests
<1>c. CASE Commit
  <2>1. /\ UNCHANGED << database, transactions, candidates, responses, outcomes, active, finalization >>
        /\ journal'.committed /\ journal'.request = journal.request /\ ~journal.committed
        /\ SigningJournaled /\ SigningJournaled' /\ Request \in Requests
    BY <1>c, <1>e, RecordingFrame DEF Recording, history_vars, Commit, Signing, Write, Step,
       JournalType, ParsesPlanned, SigningJournaled, Named
  <2>2. SignedRequests' = SignedRequests \cup {Request} /\ AnsweredRequests' = AnsweredRequests
    BY <2>1 DEF SignedRequests, AnsweredRequests, Request
  <2>3. SignedRequests = AnsweredRequests /\ Request \notin SignedRequests
    BY <2>1, SignedIsAnswered
  <2>4. TakenUp' = [k \in LedgerFiles |-> Request]
    <3>1. \A k \in LedgerFiles : database'[k].by = Request
      BY <2>1 DEF LedgerInv, DatabaseInv, New, Issued, SigningJournaled, Request, LedgerFiles
    <3> QED BY <2>1, <3>1 DEF TakenUp
  <2>5. Ledger!Sign(Request)
    BY <2>1, <2>2, <2>3, <2>4, DecisionsUnder DEF Ledger!Sign, Ledger!Resolved
  <2> QED BY <2>1, <2>5 DEF Ledger!Next
<1>n. CASE Recording /\ ~Commit
  <2>1. /\ UNCHANGED << database, transactions, candidates, responses, outcomes, active, finalization >>
        /\ journal'.committed = journal.committed /\ journal'.request = journal.request
    BY <1>n, <1>e, RecordingFrame, RecordingGoesOn DEF LedgerInv, SigningInv, history_vars,
       GoesOn, TypeOK, SigningTypeOK, JournalType, Base
  <2>2. TakenUp' = TakenUp
    <3>1. CASE RecordSigningReady
      <4>1. journal'.contract /\ journal'.pre = database /\ ~journal.contract
        BY <1>e, <3>1 DEF RecordSigningReady, Signing, ParsesPlanned, EarlySteps, Write, Step,
           JournalType
      <4> QED BY <2>1, <4>1 DEF TakenUp
    <3>2. ASSUME NEW k \in Keys, RecordRestored(k) PROVE TakenUp' = TakenUp
      <4>1. /\ journal' = [journal EXCEPT !.pre[k] = database[k]] /\ database[k].by = journal.pre[k].by
        BY <3>2 DEF RecordRestored, Restored, Current, Write, BackupOf
      <4>2. /\ journal'.contract = journal.contract
            /\ \A l \in Keys : journal'.pre[l].by = journal.pre[l].by
        BY <1>e, <4>1 DEF JournalType
      <4> QED BY <2>1, <4>2 DEF TakenUp, LedgerFiles
    <3>3. CASE ~RecordSigningReady /\ \A k \in Keys : ~RecordRestored(k)
      <4>1. journal'.contract = journal.contract /\ journal'.pre = journal.pre
        BY <1>e, <1>n, <3>3 DEF Recording, RecordReplay, RecordTransaction,
           RecordSigningComplete, RecordKeyRemoved, RecordEntry, RecordSigningResponse,
           RecordSignature, RecordStage, RecordArtifact, RecordTerminal, Write, Step,
           JournalType
      <4> QED BY <2>1, <4>1 DEF TakenUp
    <3> QED BY <3>1, <3>2, <3>3
  <2> QED BY <2>1, <2>2, DecisionsUnder DEF SignedRequests, AnsweredRequests
<1>u. CASE UNCHANGED journal
  <2>1. TakenUp' = TakenUp
    <3>1. CASE UNCHANGED database
      BY <1>u, <3>1 DEF TakenUp
    <3>2. DatabaseStep => (journal.contract /\ ~journal.committed)
      <4>1. PublishEntry => (journal.contract /\ ~journal.committed)
        BY <1>e DEF PublishEntry, EntryDue, Publishing, Signing, ParsesPlanned, EarlySteps
      <4> QED BY <1>u, <4>1 DEF DatabaseStep, RollbackEntry, RollbackDue, RollingBack,
         BeginSigning, NoUnresolvedState, SigningJournaled, InitialJournal, NoJournal
    <3> QED BY <1>e, <1>u, <3>1, <3>2 DEF Effects, TakenUp
  <2>2. SignedRequests' = SignedRequests
    <3>1. \A r \in Requests :
             transactions'[r].terminal = transactions[r].terminal
               \/ (r = Request /\ (transactions'[r].terminal = "published" \/ transactions[r].terminal = "published" => journal.committed))
      <4>1. CASE CreateTransaction \/ StageProtocol \/ CreateTerminalDirectory
        BY <1>e, <4>1 DEF CreateTransaction, StageProtocol, CreateTerminalDirectory
      <4>2. CASE WriteTerminal
        BY <1>e, <4>2 DEF WriteTerminal, Transaction, Outcome
      <4>3. CASE EndStep
        BY <1>e, <4>3 DEF EndStep, SigningEnds, TornWrite
      <4> QED BY <1>e, <4>1, <4>2, <4>3 DEF Effects, TransactionStep
    <3> QED BY <1>u, <3>1 DEF SignedRequests, Request
  <2>3. CASE SigningJournaled
    <3>1. UNCHANGED << Decisions, CurrentRequest >>
      BY <1>e, <2>3, NoDecisionUnderJournal, DecisionsUnder DEF Effects
    <3>2. CASE UNCHANGED AnsweredRequests
      BY <2>1, <2>2, <3>1, <3>2
    <3>3. ASSUME NEW kind \in Kinds, PublishArtifact(kind), AnsweredRequests' # AnsweredRequests PROVE Ledger!Next
      <4>1. /\ AnsweredRequests' = AnsweredRequests \cup {Request} /\ Request \notin AnsweredRequests
            /\ Request \in Requests /\ journal.committed
        BY <1>e, <2>3, <3>3 DEF PublishArtifact, ArtifactDue, Completing, AnsweredRequests,
           Named, ParsesCommitted
      <4>2. Request \in SignedRequests
        BY <4>1 DEF SignedRequests, Request
      <4>3. Ledger!Answer(Request)
        BY <2>1, <2>2, <3>1, <4>1, <4>2 DEF Ledger!Answer
      <4> QED BY <4>1, <4>3 DEF Ledger!Next
    <3>4. UNCHANGED << candidates, responses >> => UNCHANGED AnsweredRequests
      BY DEF AnsweredRequests
    <3> QED BY <1>e, <3>2, <3>3, <3>4 DEF Effects
  <2>4. CASE ~SigningJournaled
    <3>1. UNCHANGED AnsweredRequests
      BY <1>e, <1>u, <2>4, NothingWithoutJournal DEF AnsweredRequests, BeginSigning,
         InitialJournal, NoJournal
    <3>2. SignedRequests = AnsweredRequests
      <4>1. ~journal.committed
        BY <1>e, <2>4 DEF Named, NoJournal
      <4> QED BY <4>1, SignedIsAnswered
    <3>3. CASE UNCHANGED << outcomes, active, finalization >>
      BY <2>1, <2>2, <3>1, <3>3, DecisionsUnder
    <3>d. /\ "nobody" \notin Requests /\ DecisionInv
          /\ outcomes \in [Requests -> {"none", "finalize", "abandon"}] /\ ~(Deciding /\ Finalizing)
      BY <1>e, RequestsAssumption DEF LedgerInv, SigningInv, TypeOK, HistoryTypeOK, Locked,
         Deciding
    <3>4. CASE PublishAbandonment
      <4> DEFINE r == deciding.request
      <4>1. /\ r \in Requests /\ outcomes[r] = "none" /\ finalization.request = "nobody" /\ ~Finalizing
            /\ outcomes' = [outcomes EXCEPT ![r] = "abandon"] /\ UNCHANGED << active, finalization >>
            /\ r \in candidates \cap responses
        BY <3>4, <3>d DEF PublishAbandonment, DecisionInv, DecisionOpen, NoFinalization
      <4>2. Decisions[r] = "none" /\ Decisions' = [Decisions EXCEPT ![r] = "abandon"]
        BY <3>d, <4>1 DEF Decisions
      <4>3. CurrentRequest' = CurrentRequest
        BY <4>1 DEF CurrentRequest, Finalizing
      <4>4. r \in AnsweredRequests
        BY <4>1 DEF AnsweredRequests
      <4> HIDE DEF r
      <4>5. Ledger!Abandon(r)
        BY <2>1, <2>2, <3>1, <3>2, <4>2, <4>3, <4>4 DEF Ledger!Abandon, Ledger!Resolved
      <4> QED BY <4>1, <4>5 DEF Ledger!Next
    <3>5. CASE PublishFinalizationJournal
      <4> DEFINE r == deciding.request
      <4>1. /\ r \in Requests /\ outcomes[r] = "none" /\ finalization.request = "nobody" /\ ~Finalizing
            /\ active = PredecessorOf(r)
            /\ finalization' = [request |-> r, phase |-> "planned", pre |-> active] /\ UNCHANGED << active, outcomes >>
            /\ r \in candidates \cap responses
        BY <3>5, <3>d DEF PublishFinalizationJournal, DecisionInv, DecisionOpen, NoFinalization
      <4>2. Decisions[r] = "none" /\ Decisions' = [Decisions EXCEPT ![r] = "finalize"]
        BY <3>d, <4>1 DEF Decisions
      <4>3. CurrentRequest' = r /\ CurrentRequest = [q \in Requests |-> PredecessorOf(q)][r]
        BY <4>1 DEF CurrentRequest, Finalizing
      <4>4. r \in AnsweredRequests
        BY <4>1 DEF AnsweredRequests
      <4> HIDE DEF r
      <4>5. Ledger!Finalize(r)
        BY <2>1, <2>2, <3>1, <3>2, <4>2, <4>3, <4>4 DEF Ledger!Finalize, Ledger!Resolved
      <4> QED BY <4>1, <4>5 DEF Ledger!Next
    <3>6. CASE FinalizationSteps /\ ~PublishAbandonment /\ ~PublishFinalizationJournal
      <4>1. UNCHANGED << Decisions, CurrentRequest >>
        <5>1. CASE StageOutcome \/ StagePointer
          BY <5>1, DecisionsUnder DEF StageOutcome, StagePointer
        <5>f. ASSUME actor.process = "finalize", Finalizing
              PROVE  FinalizationOpen /\ finalization \in [request : Nobody, phase : {"none", "planned", "outcome-published",
                                                     "active-published"}, pre : Nobody]
          BY <1>e, <3>d, <5>f DEF DecisionInv, TypeOK, HistoryTypeOK
        <5>2. CASE PublishOutcome
          <6>1. /\ UNCHANGED << finalization, active >> /\ Finalizing /\ finalization.request \in Requests
                /\ outcomes' = [outcomes EXCEPT ![finalization.request] = "finalize"]
            BY <5>2, <5>f DEF PublishOutcome, FinalizationPhase, Finalizing, FinalizationOpen
          <6> QED BY <3>d, <6>1 DEF Decisions, CurrentRequest, Finalizing
        <5>3. CASE RecordOutcome \/ RecordActive
          <6>1. /\ UNCHANGED << outcomes, active >> /\ Finalizing /\ Finalizing' /\ finalization'.request = finalization.request
            BY <5>3, <5>f DEF RecordOutcome, RecordActive, FinalizationPhase, Finalizing
          <6> QED BY <6>1 DEF Decisions, CurrentRequest
        <5>4. CASE PublishActive \/ RemoveOldActive
          BY <5>4 DEF PublishActive, RemoveOldActive, FinalizationPhase, Finalizing,
             Decisions, CurrentRequest
        <5>5. CASE RemoveFinalizationJournal
          <6>1. /\ UNCHANGED << outcomes, active >> /\ finalization' = NoFinalization
                /\ outcomes[finalization.request] = "finalize" /\ active = finalization.request /\ Finalizing
            BY <5>5, <5>f, <3>d DEF RemoveFinalizationJournal, FinalizationPhase, Finalizing,
               FinalizationOpen
          <6> QED BY <3>d, <6>1 DEF Decisions, CurrentRequest, Finalizing, NoFinalization
        <5> QED BY <3>6, <5>1, <5>2, <5>3, <5>4, <5>5 DEF FinalizationSteps
      <4> QED BY <2>1, <2>2, <3>1, <4>1
    <3>7. DecisionStep => FinalizationSteps \/ UNCHANGED << outcomes, active, finalization >>
      BY DEF DecisionStep, BeginDecision, DecisionFails, DecisionKilled
    <3> QED BY <1>e, <3>3, <3>4, <3>5, <3>6, <3>7 DEF Effects
  <2> QED BY <2>3, <2>4
<1> QED BY JournalChanges, <1>b, <1>r, <1>c, <1>n, <1>u

(* Seen through its committed signings, its answers and its decisions, the   *)
(* whole of it is a ledger that takes up one request at a time.              *)
THEOREM CsrImplementsLedger == Spec => ImplementsLedger
<1>1. LedgerInv /\ LedgerInv' /\ [Next]_vars => [Ledger!Next]_ledgered
  BY LedgerStep
<1> QED BY <1>1, LedgerFirst, LedgerInvariant, PTL DEF Spec, ImplementsLedger, Ledger!Spec,
   Ledger!ledger_vars, ledgered

------------------------------------------------------------------------------
(* What recovery finds of an interrupted signing, and that it suffices.        *)

(* The rollback copies that a database of these files calls for.               *)
Due(files) == [k \in Keys |-> IF files[k] = NoFile THEN "absent" ELSE "copy"]

(* Which rollback copies stand beside the database: one of every file that the *)
(* signing found, until a rollback gives them back; an entry that is the       *)
(* signing's own still has its copy, a restored one has given it up.           *)
BackupInv ==
    /\ SigningJournaled /\ ~journal.contract =>
          work = NoWork \/ work.backup = Due(database)
    /\ SigningJournaled /\ journal.contract /\ ~journal.committed => \A k \in Keys :
          /\ journal.pre[k] = NoFile => work.backup[k] = "absent"
          /\ New(k) => journal.artifacts /\ work.backup[k] = Due(journal.pre)[k]
          /\ database[k] = BackupOf(k) /\ database[k] # journal.pre[k] => work.backup[k] # "copy"
    /\ actor.process = "sign" /\ journal.phase = "planned" /\ journal.contract =>
          work.backup = Due(journal.pre)
    /\ SigningJournaled /\ journal.committed => work.backup = Due(journal.pre)

(* Which fields of the evidence a rewrite of the journal may change.           *)
LEMMA RecordingFields ==
    ASSUME journal \in JournalType, Recording
    PROVE  /\ \/ journal'.contract = journal.contract /\ journal'.pre = journal.pre
              \/ RecordSigningReady
              \/ \E k \in Keys : RecordRestored(k)
           /\ journal'.artifacts = journal.artifacts \/ RecordSigningComplete
           /\ journal'.transaction = journal.transaction \/ RecordTransaction \/ RecordTerminal
           /\ journal'.signature = journal.signature \/ RecordSignature
           /\ journal'.phase = journal.phase \/ Commit \/ RecordTerminal
<1> USE DEF Write, Step, JournalType
<1>1. CASE RecordReplay \/ RecordTransaction \/ RecordSigningReady
  BY <1>1 DEF RecordReplay, RecordTransaction, RecordSigningReady
<1>2. CASE RecordSigningComplete \/ RecordKeyRemoved \/ RecordEntry \/ Commit
  BY <1>2 DEF RecordSigningComplete, RecordKeyRemoved, RecordEntry, Commit
<1>3. ASSUME NEW k \in Keys, RecordRestored(k)
      PROVE  /\ journal'.artifacts = journal.artifacts
             /\ journal'.transaction = journal.transaction
             /\ journal'.signature = journal.signature /\ journal'.phase = journal.phase
  BY <1>3 DEF RecordRestored
<1>4. CASE RecordSigningResponse \/ RecordSignature \/ RecordTerminal
  BY <1>4 DEF RecordSigningResponse, RecordSignature, RecordTerminal
<1>5. ASSUME NEW kind \in Kinds, RecordStage(kind) \/ RecordArtifact(kind)
      PROVE  /\ journal'.contract = journal.contract /\ journal'.pre = journal.pre
             /\ journal'.artifacts = journal.artifacts
             /\ journal'.transaction = journal.transaction
             /\ journal'.signature = journal.signature /\ journal'.phase = journal.phase
  BY <1>5 DEF RecordStage, RecordArtifact
<1> QED BY <1>1, <1>2, <1>3, <1>4, <1>5 DEF Recording

(* Only the copying, the publication and the rollback of entries change the    *)
(* database or its rollback copies once a signing is journaled.                *)
LEMMA BackupChanges ==
    ASSUME Base, JournalParses, SigningJournaled, UNCHANGED journal, [Next]_vars
    PROVE  \/ UNCHANGED << database, work >>
           \/ UNCHANGED << database, work.backup >> /\ journal.contract
           \/ CopyDatabase \/ PublishEntry
           \/ \E k \in Keys : RollbackEntry(k) \/ RemoveDisplacedBackup(k)
<1>e. /\ Effects /\ work \in WorkType /\ journal \in JournalType
      /\ journal.phase = "planned" => ParsesPlanned(journal)
      /\ journal.phase = "ca-committed" => ParsesCommitted(journal)
  BY StepEffects, JournalTable DEF Base, TypeOK, SigningTypeOK
<1> USE DEF SigningJournaled
<1>1. \A r \in Requests : ~BeginSigning(r)
  BY DEF BeginSigning, NoUnresolvedState
<1>2. ~RemoveSigningJournal
  BY DEF RemoveSigningJournal, NoJournal
<1>c. Completing => journal.contract
  BY <1>e DEF Completing, ParsesCommitted
<1>p. EntryDue => journal.contract
  BY <1>e DEF EntryDue, Publishing, Signing, ParsesPlanned, EarlySteps
<1>3. CASE RemoveDisplacedEntry
  BY <1>e, <1>p, <1>3 DEF RemoveDisplacedEntry, WorkType
<1>4. ASSUME NEW k \in Keys, RunOpenssl(k)
      PROVE  UNCHANGED << database, work.backup >> /\ journal.contract
  BY <1>e, <1>4 DEF RunOpenssl, Signing, ParsesPlanned, EarlySteps, TransactionFrame, WorkType
<1>5. CASE SignResponse
  BY <1>e, <1>c, <1>5 DEF SignResponse, CompletionFrame, WorkType
<1>6. ASSUME NEW kind \in Kinds, CreateStage(kind) \/ FillStage(kind) \/ PublishArtifact(kind)
      PROVE  UNCHANGED << database, work.backup >> /\ journal.contract
  BY <1>e, <1>c, <1>6 DEF CreateStage, FillStage, StageDue, PublishArtifact, ArtifactDue,
     CompletionFrame, WorkType
<1>7. CASE EndStep
  <2>1. UNCHANGED database
    BY <1>7 DEF EndStep, SigningFails, SigningStops, SigningEndsFrame
  <2>2. UNCHANGED work \/ (UNCHANGED work.backup /\ Completing)
    BY <1>e, <1>7 DEF EndStep, SigningEnds, TornWrite, StageDue, WorkType
  <2> QED BY <1>c, <2>1, <2>2
<1>8. CASE UNCHANGED work
  BY <1>e, <1>1, <1>8 DEF Effects, DatabaseStep
<1> QED BY <1>e, <1>1, <1>2, <1>3, <1>4, <1>5, <1>6, <1>7, <1>8 DEF Effects, WorkStep

(* Every step keeps the copies that a rollback needs.                          *)
LEMMA BackupNext ==
    ASSUME SigningInv, PublishInv, DatabaseInv, BackupInv, [Next]_vars
    PROVE  BackupInv'
<1>e. /\ Effects /\ Base /\ TypeOK /\ Named /\ Locked /\ JournalParses /\ WorkInv /\ OutcomeInv
      /\ journal \in JournalType
      /\ journal.phase = "planned" => ParsesPlanned(journal)
      /\ journal.phase = "ca-committed" => ParsesCommitted(journal)
      /\ journal.phase = "terminal" => ParsesTerminal(journal)
      /\ database \in [Keys -> Files] /\ work \in WorkType
  BY StepEffects, JournalTable DEF SigningInv, Base, TypeOK, SigningTypeOK
<1> USE DEF SigningJournaled, Request, New
<1>1. ASSUME NEW r \in Requests, BeginSigning(r) PROVE BackupInv'
  <2>1. /\ ~journal'.contract /\ ~journal'.committed /\ work' = NoWork
    BY <1>1, <1>e DEF BeginSigning, NoUnresolvedState, InitialJournal, NoJournal, WorkInv
  <2> QED BY <2>1 DEF BackupInv
<1>2. CASE RemoveSigningJournal
  BY <1>2 DEF RemoveSigningJournal, NoJournal, BackupInv
<1>n. SigningJournaled => Request \in Requests /\ Request # "nobody"
  BY <1>e, RequestsAssumption DEF Named
<1>3. CASE Recording
  <2>1. /\ UNCHANGED << database, work, actor >> /\ UNCHANGED Request
        /\ SigningJournaled /\ SigningJournaled'
        /\ journal.committed => journal'.committed
        /\ journal'.committed => journal.committed \/ Commit
    BY <1>e, <1>3, RecordingFrame, RecordingGoesOn DEF GoesOn, process_vars
  <2>2. CASE RecordSigningReady
    <3>1. /\ journal' = [journal EXCEPT !.step = "signing-ready", !.sensitive_key = TRUE,
                                        !.contract = TRUE, !.pre = database]
          /\ ~journal.contract /\ ~journal.committed /\ work # NoWork
      BY <1>e, <2>2 DEF RecordSigningReady, Signing, Write, Step, ParsesPlanned, EarlySteps
    <3>2. journal'.contract /\ journal'.pre = database /\ ~journal'.committed
      BY <1>e, <3>1 DEF JournalType
    <3>3. work.backup = Due(database)
      BY <2>1, <3>1 DEF BackupInv
    <3>4. \A k \in Keys : ~New(k)
      <4>1. PICK by : Final(by) /\ AllBy(database, by) /\ database["newcert"] = NoFile
        BY <2>1, <3>1 DEF DatabaseInv
      <4>2. by # Request /\ Request # "base" /\ Request # "nobody"
        BY <1>e, <2>1, <3>1, <4>1, RequestsAssumption DEF Final, OutcomeInv, Transaction, Named
      <4> QED BY <4>1, <4>2 DEF AllBy, LedgerFiles, Issued, NoFile
    <3> QED BY <2>1, <3>2, <3>3, <3>4 DEF BackupInv, Due
  <2>3. ASSUME NEW k \in Keys, RecordRestored(k) PROVE BackupInv'
    <3>1. /\ journal' = [journal EXCEPT !.pre[k] = database[k]] /\ journal.contract
          /\ ~journal.committed /\ database[k] = BackupOf(k) /\ actor.process # "sign"
      BY <1>e, <2>1, <2>3 DEF RecordRestored, RollbackDue, RollingBack, Checked, Locked,
         Restored, Current, Write
    <3>2. /\ journal'.contract /\ ~journal'.committed /\ journal'.pre[k] = database[k]
          /\ \A l \in Keys \ {k} : journal'.pre[l] = journal.pre[l]
          /\ journal'.artifacts = journal.artifacts /\ journal'.phase = journal.phase
      BY <1>e, <3>1 DEF JournalType
    <3>4. database[k] # Issued(Request) /\ database[k] # NoFile
      BY <1>n, <2>1, <3>1 DEF BackupOf, Issued, NoFile
    <3>3. \A l \in Keys \ {k} : BackupOf(l)' = BackupOf(l)
      BY <2>1, <3>2 DEF BackupOf
    <3> QED BY <2>1, <3>1, <3>2, <3>3, <3>4 DEF BackupInv, Due
  <2>4. CASE ~RecordSigningReady /\ \A k \in Keys : ~RecordRestored(k)
    <3>1. /\ journal'.contract = journal.contract /\ journal'.pre = journal.pre
          /\ journal.artifacts => journal'.artifacts
      BY <1>e, <1>3, <2>4, RecordingFields DEF RecordSigningComplete, Write, Step, JournalType
    <3>2. \A k \in Keys : BackupOf(k)' = BackupOf(k)
      BY <2>1, <3>1 DEF BackupOf
    <3>3. CASE Commit
      <4>1. work.backup = Due(journal.pre) /\ journal'.committed /\ journal'.contract
            /\ journal'.phase # "planned"
        BY <1>e, <2>1, <3>1, <3>3 DEF Commit, Signing, Write, Step, JournalType, BackupInv,
           ParsesPlanned, EarlySteps
      <4> QED BY <2>1, <3>1, <4>1 DEF BackupInv
    <3>4. CASE ~Commit
      <4>1. RecordTerminal => journal'.phase = "terminal"
        BY <1>e DEF RecordTerminal, Write, Step, JournalType
      <4>2. /\ journal'.committed <=> journal.committed
            /\ journal'.phase = "planned" => journal.phase = "planned"
        BY <1>e, <1>3, <2>1, <3>4, <4>1, RecordingFields
      <4> QED BY <2>1, <3>1, <3>2, <4>2 DEF BackupInv
    <3> QED BY <3>3, <3>4
  <2> QED BY <2>2, <2>3, <2>4
<1>4. CASE UNCHANGED journal
  <2>0. UNCHANGED Request /\ \A k : BackupOf(k)' = BackupOf(k)
    BY <1>4 DEF BackupOf
  <2>s. actor'.process = "sign" /\ journal'.phase = "planned" => actor.process = "sign"
    <3>1. \A r \in Requests : ~BeginSigning(r)
      BY <1>4 DEF BeginSigning, NoUnresolvedState, InitialJournal, NoJournal
    <3> QED BY <1>e, <3>1, SignerGoesOn
  <2>1. CASE UNCHANGED << database, work.backup >> /\ (UNCHANGED work \/ journal.contract)
    BY <1>4, <2>0, <2>1, <2>s DEF BackupInv
  <2>2. CASE CopyDatabase
    <3>1. /\ work'.backup = Due(database) /\ UNCHANGED << database, actor >> /\ ~journal.contract
          /\ ~journal.committed
      BY <1>e, <2>2 DEF CopyDatabase, Due, TransactionFrame, WriterFrame, Signing, ParsesPlanned,
         EarlySteps, WorkType
    <3> QED BY <1>4, <3>1 DEF BackupInv
  <2>3. CASE PublishEntry
    <3>1. /\ journal.contract /\ ~journal.committed /\ journal.artifacts
          /\ actor.process = "sign" /\ journal.phase = "planned"
          /\ work'.backup = work.backup
          /\ \A k \in Keys : database'[k] = database[k] \/ database'[k] = Issued(Request)
      BY <1>e, <2>3 DEF PublishEntry, EntryDue, Publishing, Signing, ParsesPlanned, EarlySteps,
         WorkType
    <3>2. work.backup = Due(journal.pre) /\ \A k \in Keys : BackupOf(k) # Issued(Request)
      BY <1>n, <3>1 DEF BackupInv, BackupOf, Issued
    <3> QED BY <1>4, <2>0, <3>1, <3>2 DEF BackupInv, Due
  <2>4. ASSUME NEW k \in Keys, RollbackEntry(k) PROVE BackupInv'
    <3>1. /\ ~journal.committed /\ journal.contract /\ SigningJournaled
          /\ ~(actor.process = "sign") /\ UNCHANGED actor
          /\ \A l \in Keys \ {k} : database'[l] = database[l] /\ work'.backup[l] = work.backup[l]
          /\ journal.pre[k] = NoFile => database'[k] = NoFile /\ work'.backup[k] = work.backup[k]
          /\ journal.pre[k] # NoFile => database'[k] = BackupOf(k) /\ work'.backup[k] = "displaced"
      BY <1>e, <2>4 DEF RollbackEntry, RollbackFrame, RollbackDue, RollingBack, Checked, Recovering,
         Locked, WorkType
    <3>2. BackupOf(k) # Issued(Request) /\ NoFile # Issued(Request)
      BY <1>n, <3>1 DEF BackupOf, Issued, NoFile
    <3> QED BY <1>4, <2>0, <3>1, <3>2 DEF BackupInv, Due
  <2>5. ASSUME NEW k \in Keys, RemoveDisplacedBackup(k) PROVE BackupInv'
    <3>1. /\ ~journal.committed /\ journal.contract /\ UNCHANGED << database, actor >>
          /\ actor.process # "sign" /\ work.backup[k] = "displaced" /\ work'.backup[k] = "absent"
          /\ \A l \in Keys \ {k} : work'.backup[l] = work.backup[l]
      BY <1>e, <2>5 DEF RemoveDisplacedBackup, RollbackFrame, RollbackDue, RollingBack, Checked,
         Recovering, Locked, WorkType
    <3> QED BY <1>4, <2>0, <3>1 DEF BackupInv, Due
  <2>6. CASE ~SigningJournaled
    <3>1. ~journal'.committed /\ ~journal'.contract
      BY <1>4, <1>e, <2>6 DEF Named, NoJournal
    <3> QED BY <1>4, <2>6, <3>1 DEF BackupInv
  <2> QED BY <1>4, <1>e, <2>1, <2>2, <2>3, <2>4, <2>5, <2>6, BackupChanges
<1> QED BY JournalChanges, <1>1, <1>2, <1>3, <1>4

(* The transaction directory a journal owns exists, and no terminal record     *)
(* contradicts the journal.                                                    *)
TerminalInv ==
    /\ SigningJournaled /\ journal.transaction => Transaction.holds # "absent"
    /\ SigningJournaled /\ journal.committed => Transaction.terminal # "failed-pre-commit"
    /\ actor.process = "sign" /\ journal.phase = "planned" => Transaction.terminal = "none"

(* Every step keeps the directory and the record in accordance with the journal. *)
LEMMA TerminalNext ==
    ASSUME SigningInv, TerminalInv, [Next]_vars
    PROVE  TerminalInv'
<1>e. /\ Effects /\ Base /\ Named /\ JournalParses /\ OutcomeInv /\ journal \in JournalType
      /\ transactions \in [Requests -> [holds : {"absent", "empty", "files"},
                                        terminal : {"none", "failed-pre-commit", "published"}]]
  BY StepEffects DEF SigningInv, Base, TypeOK, SigningTypeOK
<1> USE DEF SigningJournaled, Request, Transaction
<1>1. ASSUME NEW r \in Requests, BeginSigning(r) PROVE TerminalInv'
  <2>1. /\ ~journal'.transaction /\ ~journal'.committed /\ journal'.request = r
        /\ UNCHANGED transactions /\ transactions[r].terminal = "none"
    BY <1>1, <1>e DEF BeginSigning, InitialJournal, NoJournal, OutcomeInv
  <2> QED BY <2>1 DEF TerminalInv
<1>2. CASE RemoveSigningJournal
  BY <1>2 DEF RemoveSigningJournal, NoJournal, TerminalInv
<1>s. ASSUME \A r \in Requests : ~BeginSigning(r), actor'.process = "sign", journal'.phase = "planned"
      PROVE  /\ actor.process = "sign" /\ journal.phase = "planned" /\ ~Checked /\ ~EndStep
             /\ UNCHANGED Request
  BY <1>e, <1>s, SignerGoesOn
<1>3. CASE Recording
  <2>1. /\ UNCHANGED << transactions, actor >> /\ UNCHANGED Request
        /\ SigningJournaled /\ Request \in Requests
        /\ journal'.committed => journal.committed \/ Commit
    BY <1>e, <1>3, RecordingFrame, RecordingGoesOn DEF GoesOn, process_vars, Named
  <2>2. journal'.transaction => Transaction.holds # "absent"
    <3>1. RecordTransaction => Transaction.holds # "absent"
      BY DEF RecordTransaction
    <3>2. RecordTerminal => Transaction.holds # "absent"
      BY <1>e, <2>1 DEF RecordTerminal, Outcome, OutcomeInv
    <3> QED BY <1>e, <1>3, <2>1, <3>1, <3>2, RecordingFields DEF TerminalInv
  <2>3. journal'.committed => Transaction.terminal # "failed-pre-commit"
    <3>1. Commit => actor.process = "sign" /\ journal.phase = "planned"
      BY DEF Commit, Signing
    <3> QED BY <2>1, <3>1 DEF TerminalInv
  <2>4. \A r \in Requests : ~BeginSigning(r)
    BY <2>1 DEF BeginSigning, NoUnresolvedState
  <2> QED BY <1>s, <2>1, <2>2, <2>3, <2>4 DEF TerminalInv
<1>4. CASE UNCHANGED journal
  <2>0. CASE ~SigningJournaled
    BY <1>4, <2>0 DEF TerminalInv
  <2>1. CASE SigningJournaled
    <3>1. Request \in Requests
      BY <1>e, <2>1 DEF Named
    <3>2. \A r \in Requests : ~BeginSigning(r)
      BY <2>1 DEF BeginSigning, NoUnresolvedState
    <3>3. CASE UNCHANGED transactions
      BY <1>4, <1>s, <3>2, <3>3 DEF TerminalInv
    <3>4. CASE CreateTransaction \/ StageProtocol \/ CreateTerminalDirectory
      <4>1. /\ transactions'[Request].holds # "absent"
            /\ transactions'[Request].terminal = transactions[Request].terminal
        BY <1>e, <3>1, <3>4 DEF CreateTransaction, StageProtocol, CreateTerminalDirectory
      <4> QED BY <1>4, <1>s, <3>2, <4>1 DEF TerminalInv
    <3>5. CASE WriteTerminal
      <4>1. /\ transactions'[Request].holds # "absent" /\ Checked
            /\ transactions'[Request].terminal = Outcome
        BY <1>e, <3>1, <3>5 DEF WriteTerminal, TerminalDue
      <4> QED BY <1>4, <1>s, <3>2, <4>1 DEF TerminalInv, Outcome
    <3>6. CASE EndStep
      <4>1. /\ transactions[Request].holds # "absent" => transactions'[Request].holds # "absent"
            /\ transactions'[Request].terminal = transactions[Request].terminal
        BY <1>e, <3>1, <3>6 DEF EndStep, SigningEnds, TornWrite
      <4> QED BY <1>4, <1>s, <3>2, <4>1 DEF TerminalInv
    <3> QED BY <1>e, <3>3, <3>4, <3>5, <3>6 DEF Effects, TransactionStep
  <2> QED BY <2>0, <2>1
<1> QED BY JournalChanges, <1>1, <1>2, <1>3, <1>4

(* The detached signature: not before the commit, and whole once recorded.     *)
SignatureInv ==
    /\ SigningJournaled /\ ~journal.committed => work.signature = "absent"
    /\ SigningJournaled /\ journal.signature => work.signature = "whole"

(* Every step keeps a recorded signature whole.                                *)
LEMMA SignatureNext ==
    ASSUME SigningInv, SignatureInv, [Next]_vars
    PROVE  SignatureInv'
<1>e. /\ Effects /\ Base /\ Named /\ JournalParses /\ WorkInv /\ work \in WorkType
      /\ journal \in JournalType
      /\ journal.phase = "ca-committed" => ParsesCommitted(journal)
  BY StepEffects, JournalTable DEF SigningInv, Base, TypeOK, SigningTypeOK
<1> USE DEF SigningJournaled
<1>1. ASSUME NEW r \in Requests, BeginSigning(r) PROVE SignatureInv'
  BY <1>1, <1>e DEF BeginSigning, NoUnresolvedState, InitialJournal, NoJournal, WorkInv, NoWork,
     SignatureInv
<1>2. CASE RemoveSigningJournal
  BY <1>2 DEF RemoveSigningJournal, NoJournal, SignatureInv
<1>3. CASE Recording
  <2>1. UNCHANGED work /\ SigningJournaled /\ (journal.committed => journal'.committed)
    BY <1>e, <1>3, RecordingFrame, RecordingGoesOn DEF GoesOn
  <2>2. RecordSignature => work.signature = "whole"
    BY DEF RecordSignature
  <2> QED BY <1>e, <1>3, <2>1, <2>2, RecordingFields DEF SignatureInv
<1>4. CASE UNCHANGED journal
  <2>0. CASE ~SigningJournaled
    BY <1>4, <2>0 DEF SignatureInv
  <2>1. CASE SigningJournaled
    <3> DEFINE Written == Completing /\ journal.step = "response-signing"
    <3>1. \A r \in Requests : ~BeginSigning(r)
      BY <2>1 DEF BeginSigning, NoUnresolvedState
    <3>2. ~RemoveSigningJournal
      BY <1>4, <2>1 DEF RemoveSigningJournal, NoJournal
    <3>3. CASE CopyDatabase \/ PublishEntry \/ RemoveDisplacedEntry
      BY <1>e, <1>4, <3>3 DEF CopyDatabase, PublishEntry, RemoveDisplacedEntry, WorkType,
         SignatureInv
    <3>4. ASSUME NEW k \in Keys, RunOpenssl(k) \/ RollbackEntry(k) \/ RemoveDisplacedBackup(k)
          PROVE  work'.signature = work.signature
      BY <1>e, <3>4 DEF RunOpenssl, RollbackEntry, RemoveDisplacedBackup, WorkType
    <3>5. ASSUME NEW kind \in Kinds, CreateStage(kind) \/ FillStage(kind) \/ PublishArtifact(kind)
          PROVE  work'.signature = work.signature
      BY <1>e, <3>5 DEF CreateStage, FillStage, PublishArtifact, WorkType
    <3>6. SignResponse => Written
      BY DEF SignResponse
    <3>7. EndStep => work'.signature = work.signature \/ Written
      BY <1>e DEF EndStep, SigningEnds, TornWrite, WorkType
    <3>8. Written => journal.committed /\ ~journal.signature
      BY <1>e DEF Completing, ParsesCommitted
    <3>9. work'.signature = work.signature \/ (journal.committed /\ ~journal.signature)
          \/ CopyDatabase \/ PublishEntry \/ RemoveDisplacedEntry
      BY <1>e, <3>2, <3>4, <3>5, <3>6, <3>7, <3>8 DEF Effects, WorkStep
    <3> QED BY <1>4, <3>3, <3>9 DEF SignatureInv
  <2> QED BY <2>0, <2>1
<1> QED BY JournalChanges, <1>1, <1>2, <1>3, <1>4

(* The stages of a committed signing: none before its signature; afterwards an *)
(* artifact is at its destination or, once its stage is recorded, in its stage. *)
StageInv ==
    SigningJournaled /\ journal.committed =>
        /\ ~journal.signature => work.stage = NoWork.stage
        /\ \A kind \in Kinds :
              IF Request \in Artifacts(kind) THEN work.stage[kind] = "absent"
              ELSE StageRecorded(kind) => work.stage[kind] # "absent"
        /\ Request \in responses => journal.candidate_destination
        /\ journal.candidate_destination => journal.step # "response-signed"

(* Every step keeps a published artifact, or the recorded stage it is due from. *)
LEMMA StageNext ==
    ASSUME SigningInv, StageInv, [Next]_vars
    PROVE  StageInv'
<1>e. /\ Effects /\ Base /\ TypeOK /\ Named /\ JournalParses /\ WorkInv /\ work \in WorkType
      /\ journal \in JournalType
      /\ journal.phase = "planned" => ParsesPlanned(journal)
      /\ journal.phase = "ca-committed" => ParsesCommitted(journal)
      /\ journal.phase = "terminal" => ParsesTerminal(journal)
  BY StepEffects, JournalTable DEF SigningInv, Base, TypeOK, SigningTypeOK
<1> USE DEF SigningJournaled, Request
<1>1. ASSUME NEW r \in Requests, BeginSigning(r) PROVE StageInv'
  BY <1>1 DEF BeginSigning, InitialJournal, NoJournal, StageInv
<1>2. CASE RemoveSigningJournal
  BY <1>2 DEF RemoveSigningJournal, NoJournal, StageInv
<1>3. CASE Recording
  <2>1. /\ UNCHANGED << work, candidates, responses >> /\ UNCHANGED Request
        /\ SigningJournaled
        /\ journal'.committed => journal.committed \/ Commit
    BY <1>e, <1>3, RecordingFrame, RecordingGoesOn DEF GoesOn
  <2>a. \A kind \in Kinds : Artifacts(kind)' = Artifacts(kind)
    BY <2>1 DEF Artifacts
  <2>2. CASE Commit
    <3>1. /\ ~journal.committed /\ ~journal.signature /\ ~journal.candidate_destination
          /\ ~journal.candidate_stage /\ ~journal.response_stage
          /\ journal' = [journal EXCEPT !.step = "ca-committed", !.phase = "ca-committed",
                                        !.committed = TRUE]
      BY <1>e, <2>2 DEF Commit, Signing, Write, Step, ParsesPlanned
    <3>2. /\ ~journal'.signature /\ ~journal'.candidate_destination
          /\ ~journal'.candidate_stage /\ ~journal'.response_stage
      BY <1>e, <3>1 DEF JournalType
    <3>3. work.stage = NoWork.stage /\ Request \notin candidates \cup responses
      BY <1>e, <2>1, <3>1 DEF WorkInv
    <3> QED BY <2>1, <2>a, <3>2, <3>3 DEF StageInv, StageRecorded, Artifacts, Kinds
  <2>3. CASE RecordSigningResponse
    <3>1. /\ journal' = [journal EXCEPT !.step = "response-signing"]
          /\ journal.committed
      BY <1>e, <2>3 DEF RecordSigningResponse, Completing, Write, Step, ParsesCommitted
    <3>2. /\ journal'.signature = journal.signature /\ journal'.step = "response-signing"
          /\ journal'.candidate_destination = journal.candidate_destination
          /\ \A kind \in Kinds : StageRecorded(kind)' = StageRecorded(kind)
      BY <1>e, <3>1 DEF JournalType, StageRecorded
    <3> QED BY <2>1, <2>a, <3>1, <3>2 DEF StageInv
  <2>4. CASE RecordSignature
    <3>1. /\ journal' = [journal EXCEPT !.step = "response-signed", !.signature = TRUE]
          /\ journal.committed /\ ~journal.candidate_destination
      BY <1>e, <2>4 DEF RecordSignature, Completing, Write, Step, ParsesCommitted
    <3>2. /\ journal'.signature
          /\ journal'.candidate_destination = journal.candidate_destination
          /\ \A kind \in Kinds : StageRecorded(kind)' = StageRecorded(kind)
      BY <1>e, <3>1 DEF JournalType, StageRecorded
    <3> QED BY <2>1, <2>a, <3>1, <3>2 DEF StageInv
  <2>5. ASSUME NEW kind \in Kinds, RecordStage(kind) PROVE StageInv'
    <3>1. /\ journal.committed /\ journal.signature /\ work.stage[kind] = "begun"
          /\ journal' = IF kind = "candidate" THEN [journal EXCEPT !.candidate_stage = TRUE]
                        ELSE [journal EXCEPT !.response_stage = TRUE]
      BY <1>e, <2>5 DEF RecordStage, StageDue, Completing, Write, ParsesCommitted
    <3>2. /\ journal'.signature /\ journal'.step = journal.step
          /\ journal'.candidate_destination = journal.candidate_destination
          /\ \A other \in Kinds \ {kind} : StageRecorded(other)' = StageRecorded(other)
          /\ Request \notin Artifacts(kind)
      BY <1>e, <2>5, <3>1 DEF JournalType, StageRecorded, Kinds, RecordStage, StageDue
    <3> QED BY <2>1, <2>a, <3>1, <3>2 DEF StageInv
  <2>6. ASSUME NEW kind \in Kinds, RecordArtifact(kind) PROVE StageInv'
    <3>1. /\ journal.committed /\ journal.signature
          /\ journal' = IF kind = "candidate"
             THEN [journal EXCEPT !.step = "candidate-published", !.candidate_destination = TRUE]
             ELSE [journal EXCEPT !.step = "response-published", !.response_destination = TRUE]
      BY <1>e, <2>6 DEF RecordArtifact, ArtifactDue, Completing, Write, Step, ParsesCommitted
    <3>2. /\ journal'.signature /\ journal'.step # "response-signed"
          /\ journal.candidate_destination => journal'.candidate_destination
          /\ \A other \in Kinds : StageRecorded(other)' = StageRecorded(other)
      BY <1>e, <3>1 DEF JournalType, StageRecorded
    <3> QED BY <2>1, <2>a, <3>1, <3>2 DEF StageInv
  <2>7. CASE RecordTerminal
    <3>1. journal' = [journal EXCEPT !.step = "journal-cleanup-pending", !.phase = "terminal",
                                     !.removed = TRUE, !.transaction = TRUE]
      BY <2>7 DEF RecordTerminal, Write, Step
    <3>2. /\ journal'.signature = journal.signature /\ journal'.step # "response-signed"
          /\ journal'.candidate_destination = journal.candidate_destination
          /\ journal'.committed = journal.committed
          /\ \A other \in Kinds : StageRecorded(other)' = StageRecorded(other)
      BY <1>e, <3>1 DEF JournalType, StageRecorded
    <3> QED BY <2>1, <2>a, <3>2 DEF StageInv
  <2>8. CASE ~journal'.committed
    BY <2>8 DEF StageInv
  <2>9. journal.committed => /\ ~RecordReplay /\ ~RecordTransaction /\ ~RecordSigningReady
                             /\ ~RecordSigningComplete /\ ~RecordKeyRemoved /\ ~RecordEntry
                             /\ \A k \in Keys : ~RecordRestored(k)
    BY <1>e DEF RecordReplay, ReplayDue, RecordTransaction, RecordSigningReady,
       RecordSigningComplete, RecordKeyRemoved, RecordEntry, EntryDue, Publishing, Signing,
       ParsesPlanned, RecordRestored, RollbackDue, RollingBack
  <2> QED BY <1>3, <2>1, <2>2, <2>3, <2>4, <2>5, <2>6, <2>7, <2>8, <2>9 DEF Recording
<1>4. CASE UNCHANGED journal
  <2> SUFFICES ASSUME SigningJournaled, journal.committed PROVE StageInv'
    BY <1>4 DEF StageInv
  <2>0. /\ \A kind \in Kinds : StageRecorded(kind)' = StageRecorded(kind)
        /\ UNCHANGED Request
    BY <1>4 DEF StageRecorded
  <2>1. \A r \in Requests : ~BeginSigning(r)
    BY DEF BeginSigning, NoUnresolvedState
  <2>2. ~RemoveSigningJournal
    BY <1>4 DEF RemoveSigningJournal, NoJournal
  <2>p. journal.phase # "planned"
    BY <1>e DEF ParsesPlanned
  <2>a. ASSUME UNCHANGED << candidates, responses >> PROVE \A kind \in Kinds : Artifacts(kind)' = Artifacts(kind)
    BY <2>a DEF Artifacts
  <2>3. CASE UNCHANGED << candidates, responses >> /\ work'.stage = work.stage
    BY <1>4, <2>0, <2>3, <2>a DEF StageInv
  <2>4. ASSUME NEW kind \in Kinds, CreateStage(kind) \/ FillStage(kind) PROVE StageInv'
    <3>1. /\ journal.signature /\ Request \notin Artifacts(kind)
          /\ UNCHANGED << candidates, responses >> /\ work'.stage[kind] # "absent"
          /\ \A other \in Kinds \ {kind} : work'.stage[other] = work.stage[other]
      BY <1>e, <2>4 DEF CreateStage, FillStage, StageDue, ArtifactsFrame, WorkType
    <3> QED BY <1>4, <2>0, <2>a, <3>1 DEF StageInv
  <2>5. ASSUME NEW kind \in Kinds, PublishArtifact(kind) PROVE StageInv'
    <3>1. /\ journal.signature /\ Request \in Artifacts(kind)' /\ work'.stage[kind] = "absent"
          /\ kind = "response" => journal.candidate_destination
          /\ \A other \in Kinds \ {kind} : /\ work'.stage[other] = work.stage[other]
                                           /\ Artifacts(other)' = Artifacts(other)
          /\ kind = "candidate" => UNCHANGED responses
      BY <1>e, <2>5 DEF PublishArtifact, ArtifactDue, WorkType, Artifacts, Kinds
    <3>2. kind = "response" \/ kind = "candidate"
      BY DEF Kinds
    <3> QED BY <1>4, <2>0, <3>1, <3>2 DEF StageInv
  <2>6. CASE EndStep
    <3>1. UNCHANGED << candidates, responses >>
      BY <2>6 DEF EndStep, SigningFails, SigningStops, SigningEndsFrame
    <3>2. ASSUME NEW kind \in Kinds, StageDue(kind), work' = [work EXCEPT !.stage[kind] = "torn"]
          PROVE  StageInv'
      <4>1. /\ journal.signature /\ Request \notin Artifacts(kind) /\ work'.stage[kind] # "absent"
            /\ \A other \in Kinds \ {kind} : work'.stage[other] = work.stage[other]
        BY <1>e, <3>2 DEF StageDue, WorkType
      <4> QED BY <1>4, <2>0, <2>a, <3>1, <4>1 DEF StageInv
    <3>3. \/ work'.stage = work.stage
          \/ \E kind \in Kinds : StageDue(kind) /\ work' = [work EXCEPT !.stage[kind] = "torn"]
      BY <1>e, <2>6 DEF EndStep, SigningEnds, TornWrite, WorkType
    <3> QED BY <2>3, <3>1, <3>2, <3>3
  <2>7. CASE SignResponse
    BY <1>e, <2>3, <2>7 DEF SignResponse, ArtifactsFrame, WorkType
  <2>8. /\ ~CopyDatabase /\ ~PublishEntry /\ ~RemoveDisplacedEntry
        /\ \A k \in Keys : ~RunOpenssl(k) /\ ~RollbackEntry(k) /\ ~RemoveDisplacedBackup(k)
    BY <2>p DEF CopyDatabase, PublishEntry, RemoveDisplacedEntry, EntryDue, Publishing, Signing,
       RunOpenssl, RollbackEntry, RemoveDisplacedBackup, RollbackDue, RollingBack
  <2>9. CASE UNCHANGED work
    <3>1. \A kind \in Kinds : ~PublishArtifact(kind) \/ StageInv'
      BY <2>5
    <3> QED BY <1>e, <2>3, <2>9, <3>1 DEF Effects
  <2> QED BY <1>e, <2>2, <2>4, <2>5, <2>6, <2>7, <2>8, <2>9 DEF Effects, WorkStep
<1> QED BY JournalChanges, <1>1, <1>2, <1>3, <1>4

(* What recovery finds when it compares the journal with the file system.      *)
EvidenceInv == BackupInv /\ TerminalInv /\ SignatureInv /\ StageInv

(* The evidence and the ledger together are an invariant.                      *)
LEMMA EvidenceInvariant == Spec => [](LedgerInv /\ EvidenceInv)
<1>1. Init => EvidenceInv
  BY DEF Init, SigningInit, EvidenceInv, BackupInv, TerminalInv, SignatureInv, StageInv,
     SigningJournaled, NoJournal, Idle
<1>2. LedgerInv /\ EvidenceInv /\ [Next]_vars => EvidenceInv'
  BY BackupNext, TerminalNext, SignatureNext, StageNext DEF LedgerInv, EvidenceInv
<1> QED BY <1>1, <1>2, LedgerInvariant, PTL DEF Spec

(* Recovery admits an uncommitted signing outside the windows.                 *)
LEMMA UncommittedAccepted ==
    ASSUME LedgerInv, EvidenceInv, SigningJournaled, ~journal.committed,
           ~UnrecordedTransaction, ~UnrecordedKeyCopy, ~InterruptedExchange,
           ~TerminalBeforeSources
    PROVE  PreflightUncommitted
<1>e. /\ journal \in JournalType /\ work \in WorkType /\ Request \in Requests
      /\ transactions \in [Requests -> [holds : {"absent", "empty", "files"},
                                        terminal : {"none", "failed-pre-commit", "published"}]]
      /\ journal.phase = "planned" => ParsesPlanned(journal)
      /\ journal.phase = "terminal" => ParsesTerminal(journal)
      /\ journal.phase \in {"planned", "terminal"}
  <2>1. Base /\ JournalParses
    BY DEF LedgerInv, SigningInv
  <2>2. /\ journal \in JournalType
        /\ journal.phase = "planned" => ParsesPlanned(journal)
        /\ journal.phase = "ca-committed" => ParsesCommitted(journal)
        /\ journal.phase = "terminal" => ParsesTerminal(journal)
    BY <2>1, JournalTable DEF Base
  <2>3. journal.phase \in {"planned", "terminal"}
    BY <2>2 DEF JournalType, SigningJournaled, ParsesCommitted
  <2> QED BY <2>1, <2>2, <2>3 DEF Base, TypeOK, SigningTypeOK, Named
<1>1. ASSUME journal.contract, NEW k \in Keys PROVE Classified(k) /\ SourceAccepted(k)
  <2>1. /\ work.backup[k] \in {"absent", "copy"} /\ work.source[k] \in {"absent", "staged"}
    BY <1>e DEF InterruptedExchange, WorkType
  <2>2. \/ Current(k) = journal.pre[k] \/ Current(k) = Issued(Request)
        \/ journal.pre[k] # NoFile /\ Current(k) = BackupOf(k)
    BY <1>1 DEF LedgerInv, DatabaseInv, New, Current
  <2>3. /\ journal.pre[k] = NoFile => work.backup[k] = "absent"
        /\ Current(k) = Issued(Request) => journal.artifacts /\ work.backup[k] = Due(journal.pre)[k]
        /\ Current(k) = BackupOf(k) /\ Current(k) # journal.pre[k] => work.backup[k] # "copy"
    BY <1>1 DEF EvidenceInv, BackupInv, New, Current
  <2>4. Classified(k)
    BY <2>1, <2>2, <2>3 DEF Classified, Untouched, ToRollBack, Ours, Restored, Due
  <2>5. ~journal.artifacts => journal.step = "signing-ready"
    BY <1>e, <1>1 DEF ParsesPlanned, PlannedNames, EarlySteps, TerminalBeforeSources
  <2>6. SourceAccepted(k)
    BY <2>1, <2>2, <2>5 DEF SourceAccepted
  <2> QED BY <2>4, <2>6
<1>2. KeyAccepted
  BY DEF KeyAccepted, UnrecordedKeyCopy
<1>3. TerminalAccepted("failed-pre-commit")
  <2>1. /\ Transaction.holds \in {"absent", "empty", "files"}
        /\ Transaction.terminal \in {"none", "failed-pre-commit", "published"}
    BY <1>e DEF Transaction
  <2>2. /\ Transaction.terminal # "published"
        /\ journal.phase = "terminal" => Transaction.terminal = "failed-pre-commit"
        /\ journal.transaction => Transaction.holds # "absent"
    BY DEF LedgerInv, SigningInv, OutcomeInv, Outcome, EvidenceInv, TerminalInv
  <2> QED BY <2>1, <2>2 DEF TerminalAccepted, UnownedTransaction, UnrecordedTransaction
<1>4. /\ work.signature = "absent" /\ work.stage = NoWork.stage
      /\ Request \notin candidates \cup responses
  BY DEF LedgerInv, SigningInv, WorkInv, EvidenceInv, SignatureInv
<1> QED BY <1>1, <1>2, <1>3, <1>4 DEF PreflightUncommitted

(* Recovery admits a committed signing unless an exchange or a file was cut short. *)
LEMMA CommittedAccepted ==
    ASSUME LedgerInv, EvidenceInv, SigningJournaled, journal.committed,
           ~InterruptedExchange, ~TornFile
    PROVE  PreflightCommitted
<1>e. /\ journal \in JournalType /\ work \in WorkType /\ Request \in Requests
      /\ transactions \in [Requests -> [holds : {"absent", "empty", "files"},
                                        terminal : {"none", "failed-pre-commit", "published"}]]
      /\ journal.phase = "ca-committed" => ParsesCommitted(journal)
      /\ journal.phase = "terminal" => ParsesTerminal(journal)
      /\ journal.phase \in {"ca-committed", "terminal"}
  <2>1. Base /\ JournalParses
    BY DEF LedgerInv, SigningInv
  <2>2. /\ journal \in JournalType
        /\ journal.phase = "planned" => ParsesPlanned(journal)
        /\ journal.phase = "ca-committed" => ParsesCommitted(journal)
        /\ journal.phase = "terminal" => ParsesTerminal(journal)
    BY <2>1, JournalTable DEF Base
  <2>3. journal.phase \in {"ca-committed", "terminal"}
    BY <2>2 DEF JournalType, SigningJournaled, ParsesPlanned
  <2> QED BY <2>1, <2>2, <2>3 DEF Base, TypeOK, SigningTypeOK, Named
<1>j. /\ journal.transaction /\ journal.artifacts /\ journal.sensitive_key
      /\ journal.phase = "terminal" => journal.signature
  BY <1>e DEF ParsesCommitted, ParsesTerminal
<1>1. ASSUME NEW k \in Keys
      PROVE  /\ Current(k) = Issued(Request) /\ SourceAccepted(k)
             /\ work.backup[k] = IF journal.pre[k] = NoFile THEN "absent" ELSE "copy"
  <2>1. work.source[k] \in {"absent", "staged"}
    BY <1>e DEF InterruptedExchange, WorkType
  <2>2. Current(k) = Issued(Request)
    BY DEF LedgerInv, DatabaseInv, New, Current
  <2>3. work.backup[k] = Due(journal.pre)[k]
    BY DEF EvidenceInv, BackupInv
  <2> QED BY <1>j, <2>1, <2>2, <2>3 DEF SourceAccepted, Due
<1>2. KeyAccepted
  BY <1>j DEF KeyAccepted
<1>3. TerminalAccepted("published")
  <2>1. Transaction.terminal \in {"none", "failed-pre-commit", "published"}
    BY <1>e DEF Transaction
  <2>2. /\ Transaction.terminal # "failed-pre-commit"
        /\ journal.phase = "terminal" => Transaction.terminal = "published"
        /\ journal.transaction => Transaction.holds # "absent"
    BY DEF LedgerInv, SigningInv, OutcomeInv, Outcome, EvidenceInv, TerminalInv
  <2> QED BY <1>j, <2>1, <2>2 DEF TerminalAccepted
<1>4. journal.signature => work.signature = "whole"
  BY DEF EvidenceInv, SignatureInv
<1>s. /\ ~journal.signature => work.stage = NoWork.stage
      /\ \A kind \in Kinds :
            /\ Request \in Artifacts(kind) => StageRecorded(kind) /\ work.stage[kind] = "absent"
            /\ Request \notin Artifacts(kind) =>
                  /\ ~DestinationRecorded(kind)
                  /\ StageRecorded(kind) => work.stage[kind] # "absent"
                  /\ work.stage[kind] = "whole" => StageRecorded(kind)
      /\ Request \in responses => journal.candidate_destination
      /\ journal.candidate_destination => journal.step # "response-signed"
  BY DEF LedgerInv, SigningInv, WorkInv, EvidenceInv, StageInv
<1>5. ASSUME NEW kind \in Kinds PROVE PublicationAccepted(kind)
  <2>1. work.stage[kind] \in {"absent", "begun", "whole"}
    BY <1>e DEF TornFile, WorkType
  <2>2. CASE Request \notin Artifacts(kind)
    BY <1>s, <2>1, <2>2 DEF PublicationAccepted
  <2>3. CASE Request \in Artifacts(kind)
    <3>1. StageRecorded(kind) /\ work.stage[kind] = "absent"
      BY <1>s, <2>3
    <3>2. ASSUME ~DestinationRecorded(kind)
          PROVE  journal.step = IF kind = "candidate" THEN "response-signed"
                                ELSE "candidate-published"
      <4>1. journal.phase = "ca-committed" /\ ParsesCommitted(journal)
        BY <1>e, <3>2 DEF ParsesTerminal, DestinationRecorded
      <4>2. journal.signature
        BY <3>1, <4>1 DEF StageRecorded, ParsesCommitted
      <4>3. CASE kind = "candidate"
        BY <3>2, <4>1, <4>2, <4>3 DEF DestinationRecorded, ParsesCommitted, CommittedNames
      <4>4. CASE kind = "response"
        <5>1. Request \in responses
          BY <2>3, <4>4 DEF Artifacts
        <5> QED BY <1>s, <3>2, <4>1, <4>2, <4>4, <5>1 DEF DestinationRecorded, ParsesCommitted,
           CommittedNames
      <4> QED BY <4>3, <4>4 DEF Kinds
    <3> QED BY <2>3, <3>1, <3>2 DEF PublicationAccepted
  <2> QED BY <2>2, <2>3
<1>6. ~journal.signature => Request \notin candidates \cup responses
  <2> SUFFICES ASSUME ~journal.signature PROVE Request \notin candidates \cup responses
    OBVIOUS
  <2>1. ~journal.candidate_stage /\ ~journal.response_stage
    BY <1>e, <1>j DEF ParsesCommitted
  <2>2. "candidate" \in Kinds /\ "response" \in Kinds
    BY DEF Kinds
  <2>3. \A kind \in Kinds : ~StageRecorded(kind)
    BY <2>1 DEF StageRecorded
  <2>4. Artifacts("candidate") = candidates /\ Artifacts("response") = responses
    BY DEF Artifacts
  <2> QED BY <1>s, <2>2, <2>3, <2>4
<1> QED BY <1>1, <1>2, <1>3, <1>4, <1>5, <1>6, <1>s DEF PreflightCommitted

(* csr-recover refuses an interrupted signing in no other window than five:    *)
(* protocol files or a key copy that the journal does not yet know of, an      *)
(* exchange whose displaced file still stands, a torn file, and a terminal     *)
(* journal of a signing whose sources were never recorded.                     *)
THEOREM RefusesOnlyInWindows == Spec => []RefusalsAreKnown
<1>1. LedgerInv /\ EvidenceInv => RefusalsAreKnown
  <2> SUFFICES ASSUME LedgerInv, EvidenceInv, Blocked,
                      ~UnrecordedTransaction, ~UnrecordedKeyCopy, ~InterruptedExchange,
                      ~TornFile, ~TerminalBeforeSources
               PROVE  FALSE
    BY DEF RefusalsAreKnown
  <2>j. SigningJournaled
    BY DEF Blocked
  <2>1. TransactionPresence
    <3>1. /\ Transaction.holds \in {"absent", "empty", "files"}
          /\ journal.transaction => Transaction.holds # "absent"
      BY <2>j DEF LedgerInv, SigningInv, Base, TypeOK, SigningTypeOK, Named, Transaction,
         EvidenceInv, TerminalInv
    <3>2. ~journal.transaction => Transaction.terminal # "published"
      <4>1. journal.committed => journal.transaction
        BY <2>j, JournalTable DEF LedgerInv, SigningInv, Base, JournalType, SigningJournaled,
           ParsesPlanned, ParsesCommitted, ParsesTerminal
      <4> QED BY <2>j, <4>1 DEF LedgerInv, SigningInv, OutcomeInv
    <3> QED BY <3>1, <3>2 DEF TransactionPresence, UnownedTransaction, UnrecordedTransaction
  <2>2. IF journal.committed THEN PreflightCommitted ELSE PreflightUncommitted
    BY <2>j, CommittedAccepted, UncommittedAccepted
  <2>3. work.signature # "torn"
    BY DEF TornFile
  <2> QED BY <2>1, <2>2, <2>3 DEF Blocked
<1> QED BY <1>1, EvidenceInvariant, PTL
==============================================================================
