--------------------------- MODULE CsrSigningRecover ---------------------------
(***************************************************************************)
(* What happens to a signing journal (src/platform_pki/csr_recover.py):    *)
(* an uncommitted transaction is rolled back and terminalized, a committed *)
(* one is signed and published.  The same code runs in `csr-recover`, in   *)
(* the writer's failure handler and, after the commit, in the writer.      *)
(***************************************************************************)
EXTENDS CsrSigning

Current(k) == database[k]

(* _classify_uncommitted_database_entry                                      *)
Ours(k) == Current(k) = Issued(Request) /\ (journal.post > 0 \/ journal.artifacts)

Untouched(k) ==
    /\ Current(k) = journal.pre[k]
    /\ IF journal.pre[k] = NoFile THEN work.backup[k] = "absent"
       ELSE work.backup[k] \in {"absent", "copy"}

(* Mutant: a restored entry is known only once its backup has been recorded.  *)
MutantRestored(k) == FALSE

ToRollBack(k) ==
    /\ Ours(k)
    /\ work.backup[k] = IF journal.pre[k] = NoFile THEN "absent" ELSE "copy"

Restored(k) ==
    /\ journal.pre[k] # NoFile /\ Current(k) # journal.pre[k]
    /\ Current(k) = BackupOf(k) /\ work.backup[k] = "absent"

Classified(k) == Untouched(k) \/ ToRollBack(k) \/ Restored(k)

(* _preflight_database_sources                                               *)
SourceAccepted(k) ==
    IF ~journal.artifacts
    THEN work.source[k] = "absent" \/ journal.step = "signing-ready"
    ELSE \/ work.source[k] = "staged"
         \/ /\ work.source[k] = "absent"
            /\ \/ Current(k) \in {Issued(Request), journal.pre[k]}
               \/ journal.pre[k] # NoFile /\ Current(k) = BackupOf(k)

KeyAccepted == Request \in key_copies => journal.sensitive_key

(* _recoverable_unowned_terminal_transaction                                 *)
UnownedTransaction == Transaction.holds = "empty" /\ Transaction.terminal # "published"

TerminalAccepted(outcome) ==
    IF ~journal.transaction
    THEN Transaction.holds = "absent" \/ UnownedTransaction
    ELSE /\ Transaction.holds # "absent"
         /\ Transaction.terminal \in {"none", outcome}
         /\ journal.phase = "terminal" => Transaction.terminal = outcome

PreflightUncommitted ==
    /\ journal.contract =>
          \A k \in Keys : Classified(k) /\ SourceAccepted(k)
    /\ KeyAccepted /\ TerminalAccepted("failed-pre-commit")
    /\ work.signature = "absent" /\ work.stage = NoWork.stage
    /\ Request \notin candidates \cup responses

------------------------------------------------------------------------------
(* _preflight_signing_publication_paths of a committed transaction.          *)

StageRecorded(kind) ==
    IF kind = "candidate" THEN journal.candidate_stage ELSE journal.response_stage
DestinationRecorded(kind) ==
    IF kind = "candidate" THEN journal.candidate_destination
    ELSE journal.response_destination
Artifacts(kind) == IF kind = "candidate" THEN candidates ELSE responses

PublicationAccepted(kind) ==
    \/ /\ StageRecorded(kind) /\ work.stage[kind] = "absent"
       /\ Request \in Artifacts(kind)
       /\ \/ DestinationRecorded(kind)
          \/ journal.step = IF kind = "candidate" THEN "response-signed"
                            ELSE "candidate-published"
    \/ /\ Request \notin Artifacts(kind) /\ ~DestinationRecorded(kind)
       /\ work.stage[kind] \in
            IF StageRecorded(kind) THEN {"begun", "whole"} ELSE {"absent", "begun"}

PreflightCommitted ==
    /\ \A k \in Keys :
          /\ Current(k) = Issued(Request) /\ SourceAccepted(k)
          /\ work.backup[k] = IF journal.pre[k] = NoFile THEN "absent" ELSE "copy"
    /\ KeyAccepted /\ TerminalAccepted("published")
    /\ journal.signature => work.signature = "whole"
    /\ \A kind \in Kinds : PublicationAccepted(kind)
    /\ ~journal.signature =>
          work.stage = NoWork.stage /\ Request \notin candidates \cup responses

(* _recover_signing_locked_impl: a transaction directory the journal does not *)
(* own, or one it owns that is gone, is refused first.                       *)
TransactionPresence ==
    IF journal.transaction THEN Transaction.holds # "absent"
    ELSE Transaction.holds = "absent" \/ UnownedTransaction

------------------------------------------------------------------------------
BeginRecovery ==
    /\ actor = Idle /\ SigningJournaled /\ ~Finalizing
    /\ Parses(journal) /\ TransactionPresence
    /\ actor' = [Idle EXCEPT !.process = "recover"]
    /\ UNCHANGED << signing_vars, handlers, history_vars >>

(* The handler of a failed writer re-acquires the lock profile, once and      *)
(* without waiting, and works on whatever signing journal it then finds.     *)
BeginHandler(r) ==
    /\ r \in handlers
    /\ actor = Idle /\ journal.phase # "none" /\ ~journal.committed
    /\ Parses(journal)
    /\ actor' = [Idle EXCEPT !.process = "handle"]
    /\ handlers' = handlers \ {r}
    /\ UNCHANGED << signing_vars, history_vars >>

HandlerGivesUp(r) ==
    /\ r \in handlers /\ (actor # Idle \/ journal.phase = "none" \/ journal.committed)
    /\ handlers' = handlers \ {r}
    /\ UNCHANGED << signing_vars, actor, history_vars >>

Recovering == actor.process \in {"sign", "handle", "recover"} /\ SigningJournaled

Preflight ==
    /\ Recovering /\ ~actor.checked
    /\ actor.process = "sign" => journal.committed
    /\ journal.replay
    /\ IF journal.committed THEN PreflightCommitted ELSE PreflightUncommitted
    /\ actor' = [actor EXCEPT !.checked = TRUE]
    /\ UNCHANGED << signing_vars, handlers, history_vars >>

(* Mutant: a committed transaction is rolled back as well.                    *)
MutantRollingBack == Recovering /\ actor.checked

Checked == Recovering /\ actor.checked
RollingBack == Checked /\ ~journal.committed
Completing == Checked /\ journal.phase = "ca-committed"

(* A step of a recovery changes nothing but what its own action says.        *)
RecoveryFrame == UNCHANGED << replay_requests, replay_nonces, handlers, history_vars >>

------------------------------------------------------------------------------
(* _rollback_database: the entries in reverse order.                         *)

Later(k) == {CSR_DB_KEYS[j] : j \in {j \in 1..Len(CSR_DB_KEYS) :
                \E i \in 1..j - 1 : CSR_DB_KEYS[i] = k}}
RollbackDue(k) ==
    RollingBack /\ journal.contract /\ \A l \in Later(k) : Untouched(l)

RollbackFrame == RecoveryFrame /\ UNCHANGED << key_copies, transactions,
                                               candidates, responses, actor >>

RollbackEntry(k) ==
    /\ RollbackDue(k) /\ ToRollBack(k)
    /\ IF journal.pre[k] = NoFile
       THEN database' = [database EXCEPT ![k] = NoFile] /\ UNCHANGED work
       ELSE /\ database' = [database EXCEPT ![k] = BackupOf(k)]
            /\ work' = [work EXCEPT !.backup[k] = "displaced"]
    /\ UNCHANGED journal /\ RollbackFrame

RemoveDisplacedBackup(k) ==
    /\ RollbackDue(k) /\ work.backup[k] = "displaced"
    /\ work' = [work EXCEPT !.backup[k] = "absent"]
    /\ UNCHANGED << journal, database >> /\ RollbackFrame

(* Mutant: the first entry restored is taken for the whole database.          *)
MutantRolledBack == journal.contract => Untouched("newcert")

RecordRestored(k) ==
    /\ RollbackDue(k) /\ Restored(k)
    /\ Write([journal EXCEPT !.pre[k] = Current(k)])
    /\ UNCHANGED << work, database >> /\ RollbackFrame

RolledBack == journal.contract => \A k \in Keys : Untouched(k)

(* Mutant: only the copy that a complete signing left is removed.             *)
MutantRemoveKeyCopy ==
    /\ RollingBack /\ RolledBack /\ journal.artifacts
    /\ journal.sensitive_key /\ Request \in key_copies
    /\ key_copies' = key_copies \ {Request}
    /\ UNCHANGED << journal, database, work, transactions, candidates, responses,
                    actor >> /\ RecoveryFrame

(* _remove_sensitive_signing_key, before the terminal record or publication.  *)
RemoveKeyCopy ==
    /\ \/ RollingBack /\ RolledBack
       \/ Completing /\ journal.signature
    /\ journal.sensitive_key /\ Request \in key_copies
    /\ key_copies' = key_copies \ {Request}
    /\ UNCHANGED << journal, database, work, transactions, candidates, responses,
                    actor >> /\ RecoveryFrame

------------------------------------------------------------------------------
(* _ensure_response_signature: record the intention, sign, record the result. *)

CompletionFrame == RecoveryFrame /\ UNCHANGED << database, key_copies,
                                                 transactions, actor >>
ArtifactsFrame == UNCHANGED << candidates, responses >>

RecordSigningResponse ==
    /\ Completing /\ journal.step = "ca-committed" /\ work.signature = "absent"
    /\ Write(Step("response-signing"))
    /\ UNCHANGED work /\ ArtifactsFrame /\ CompletionFrame

SignResponse ==
    /\ Completing /\ journal.step = "response-signing" /\ work.signature = "absent"
    /\ work' = [work EXCEPT !.signature = "whole"]
    /\ UNCHANGED journal /\ ArtifactsFrame /\ CompletionFrame

RecordSignature ==
    /\ Completing /\ journal.step = "response-signing" /\ work.signature = "whole"
    /\ Write([Step("response-signed") EXCEPT !.signature = TRUE])
    /\ UNCHANGED work /\ ArtifactsFrame /\ CompletionFrame

------------------------------------------------------------------------------
(* _prepare_artifact_stage: both stages, the candidate's first.              *)

StageDue(kind) ==
    /\ Completing /\ journal.signature /\ Request \notin key_copies
    /\ Request \notin Artifacts(kind)
    /\ kind = "response" =>
          Request \in candidates \/ work.stage["candidate"] = "whole"

CreateStage(kind) ==
    /\ StageDue(kind) /\ work.stage[kind] = "absent" /\ ~StageRecorded(kind)
    /\ work' = [work EXCEPT !.stage[kind] = "begun"]
    /\ UNCHANGED journal /\ ArtifactsFrame /\ CompletionFrame

RecordStage(kind) ==
    /\ StageDue(kind) /\ work.stage[kind] = "begun" /\ ~StageRecorded(kind)
    /\ Write(IF kind = "candidate" THEN [journal EXCEPT !.candidate_stage = TRUE]
             ELSE [journal EXCEPT !.response_stage = TRUE])
    /\ UNCHANGED work /\ ArtifactsFrame /\ CompletionFrame

FillStage(kind) ==
    /\ StageDue(kind) /\ work.stage[kind] = "begun" /\ StageRecorded(kind)
    /\ work' = [work EXCEPT !.stage[kind] = "whole"]
    /\ UNCHANGED journal /\ ArtifactsFrame /\ CompletionFrame

(* _publish_artifact: the candidate, then the response.                      *)
ArtifactDue(kind) ==
    /\ Completing /\ journal.signature
    /\ \A other \in Kinds :
          Request \in Artifacts(other) \/ work.stage[other] = "whole"
    /\ kind = "response" => journal.candidate_destination

PublishArtifact(kind) ==
    /\ ArtifactDue(kind) /\ Request \notin Artifacts(kind)
    /\ work' = [work EXCEPT !.stage[kind] = "absent"]
    /\ IF kind = "candidate"
       THEN candidates' = candidates \cup {Request} /\ UNCHANGED responses
       ELSE responses' = responses \cup {Request} /\ UNCHANGED candidates
    /\ UNCHANGED journal /\ CompletionFrame

RecordArtifact(kind) ==
    /\ ArtifactDue(kind) /\ Request \in Artifacts(kind)
    /\ ~DestinationRecorded(kind)
    /\ Write(IF kind = "candidate"
             THEN [Step("candidate-published") EXCEPT !.candidate_destination = TRUE]
             ELSE [Step("response-published") EXCEPT !.response_destination = TRUE])
    /\ UNCHANGED work /\ ArtifactsFrame /\ CompletionFrame

------------------------------------------------------------------------------
(* _ensure_terminal and _finish_signing_journal.                             *)

Outcome == IF journal.committed THEN "published" ELSE "failed-pre-commit"
TerminalDue ==
    /\ Checked /\ journal.phase # "terminal" /\ Request \notin key_copies
    /\ IF journal.committed THEN journal.response_destination ELSE RolledBack
TerminalFrame == RecoveryFrame /\ ArtifactsFrame
                   /\ UNCHANGED << database, key_copies >>

CreateTerminalDirectory ==
    /\ TerminalDue /\ Transaction.holds = "absent"
    /\ transactions' = [transactions EXCEPT ![Request].holds = "empty"]
    /\ UNCHANGED << journal, work, actor >> /\ TerminalFrame

(* Mutant: the terminal journal does not say that the key copy is gone.       *)
MutantRecordTerminal ==
    /\ TerminalDue /\ Transaction.terminal = Outcome
    /\ Write([Step("journal-cleanup-pending") EXCEPT
                !.phase = "terminal", !.transaction = TRUE])
    /\ UNCHANGED << transactions, work, actor >> /\ TerminalFrame

WriteTerminal ==
    /\ TerminalDue /\ Transaction.holds # "absent" /\ Transaction.terminal = "none"
    /\ transactions' = [transactions EXCEPT ![Request].terminal = Outcome]
    /\ UNCHANGED << journal, work, actor >> /\ TerminalFrame

RecordTerminal ==
    /\ TerminalDue /\ Transaction.terminal = Outcome
    /\ Write([Step("journal-cleanup-pending") EXCEPT
                !.phase = "terminal", !.removed = TRUE, !.transaction = TRUE])
    /\ UNCHANGED << transactions, work, actor >> /\ TerminalFrame

(* The transaction keeps its working objects; nothing reads them afterwards.  *)
RemoveSigningJournal ==
    /\ Checked /\ journal.phase = "terminal"
    /\ journal' = NoJournal /\ work' = NoWork /\ actor' = Idle
    /\ UNCHANGED transactions /\ TerminalFrame

RecoverySteps ==
    \/ Preflight
    \/ \E k \in Keys : RollbackEntry(k) \/ RemoveDisplacedBackup(k)
                           \/ RecordRestored(k)
    \/ RemoveKeyCopy
    \/ RecordSigningResponse \/ SignResponse \/ RecordSignature
    \/ \E kind \in Kinds : CreateStage(kind) \/ RecordStage(kind) \/ FillStage(kind)
                               \/ PublishArtifact(kind) \/ RecordArtifact(kind)
    \/ CreateTerminalDirectory \/ WriteTerminal \/ RecordTerminal
    \/ RemoveSigningJournal

------------------------------------------------------------------------------
(* A process that ends in the middle of a write leaves it torn: the detached  *)
(* signature that ssh-keygen writes in place, or the temporary file of an     *)
(* atomic write among the members of a stage or of a bare transaction.       *)
TornWrite ==
    \/ /\ Completing /\ journal.step = "response-signing" /\ work.signature = "absent"
       /\ work' = [work EXCEPT !.signature = "torn"] /\ UNCHANGED transactions
    \/ \E kind \in Kinds :
          /\ StageDue(kind) /\ work.stage[kind] = "begun" /\ StageRecorded(kind)
          /\ work' = [work EXCEPT !.stage[kind] = "torn"] /\ UNCHANGED transactions
    \/ /\ TerminalDue /\ Transaction = [holds |-> "empty", terminal |-> "none"]
       /\ transactions' = [transactions EXCEPT ![Request].holds = "files"]
       /\ UNCHANGED work

SigningEnds == TornWrite \/ UNCHANGED << work, transactions >>
SigningEndsFrame == UNCHANGED << journal, replay_requests, replay_nonces, database,
                                 key_copies, candidates, responses >>

(* A writer that fails hands over to its handler, except in the window just   *)
(* before it publishes to the CA, when it stops as any other process does.    *)
SigningFails ==
    /\ actor.process = "sign"
    /\ SigningEnds /\ SigningEndsFrame /\ actor' = Idle
    /\ handlers' = handlers \cup {Request}
    /\ UNCHANGED history_vars

SigningStops ==
    /\ actor.process \in {"sign", "handle", "recover"}
    /\ SigningEnds /\ SigningEndsFrame /\ actor' = Idle
    /\ UNCHANGED << handlers, history_vars >>
==============================================================================
