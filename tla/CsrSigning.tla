------------------------------ MODULE CsrSigning ------------------------------
(***************************************************************************)
(* `issue` and `renew` of a host-local service up to the commit of the CA  *)
(* database (src/platform_pki/service_issue.py): one process that holds    *)
(* the inventory lock profile and advances the signing journal.            *)
(***************************************************************************)
EXTENDS CsrHistory

Step(s) == [journal EXCEPT !.step = s]
Signing(step) == actor.process = "sign" /\ journal.phase = "planned" /\ journal.step = step

(* The writer begins: reviewed inputs, unused request identity, no other      *)
(* unresolved work; _csr_prepare_state precedes the journal.                 *)
BeginSigning(r) ==
    /\ actor = Idle /\ NoUnresolvedState
    /\ SigningAdmitted(r)
    /\ r \notin replay_requests /\ replay_nonces[NonceOf[r]] = "nobody"
    /\ transactions[r].holds = "absent"
    /\ entries' = [entries EXCEPT !.candidates = TRUE]
    /\ journal' = InitialJournal(r)
    /\ database' = [database EXCEPT !["newcert"] = NoFile]  \* another serial
    /\ actor' = [Idle EXCEPT !.process = "sign"]
    /\ UNCHANGED << replay_requests, replay_nonces, work, key_copies,
                    transactions, candidates, responses, handlers, exported,
                    outcome_exports, outcomes, active, trust, trust_of,
                    deciding, staged, finalization >>

(* Steps of the writer leave the rest of the state alone.                    *)
WriterFrame == UNCHANGED << candidates, responses, actor, handlers, exported,
                            outcome_exports, outcomes, active, trust, entries,
                            deciding, staged, finalization >>

------------------------------------------------------------------------------
(* _ensure_signing_replay, of the writer and of both recoveries: the request,  *)
(* the nonce, then the evidence of both.                                     *)

ReplayDue == /\ journal.phase = "planned" /\ ~journal.replay
             /\ actor.process \in {"sign", "handle", "recover"}

ReplayFrame == /\ WriterFrame
               /\ UNCHANGED << database, work, key_copies, transactions, trust_of >>

ReserveRequest ==
    /\ ReplayDue /\ Request \notin replay_requests
    /\ replay_requests' = replay_requests \cup {Request}
    /\ UNCHANGED << journal, replay_nonces >> /\ ReplayFrame

(* Mutant: the reservation of the request alone counts as replay evidence.    *)
MutantRecordReplay ==
    /\ ReplayDue /\ Request \in replay_requests
    /\ Write([Step("replay-reserved") EXCEPT !.replay = TRUE])
    /\ UNCHANGED << replay_requests, replay_nonces >> /\ ReplayFrame

ReserveNonce ==
    /\ ReplayDue /\ Request \in replay_requests
    /\ replay_nonces[NonceOf[Request]] = "nobody"
    /\ replay_nonces' = [replay_nonces EXCEPT ![NonceOf[Request]] = Request]
    /\ UNCHANGED << journal, replay_requests >> /\ ReplayFrame

RecordReplay ==
    /\ ReplayDue /\ Request \in replay_requests
    /\ replay_nonces[NonceOf[Request]] = Request
    /\ Write([Step("replay-reserved") EXCEPT !.replay = TRUE])
    /\ UNCHANGED << replay_requests, replay_nonces >> /\ ReplayFrame

------------------------------------------------------------------------------
(* The private transaction: its directory, the protocol files and retained    *)
(* trust, the copy of the CA key, the database copies and the signing itself. *)

TransactionFrame == WriterFrame /\ UNCHANGED << replay_requests, replay_nonces,
                                                database >>

CreateTransaction ==
    /\ Signing("replay-reserved") /\ Transaction.holds = "absent"
    /\ transactions' = [transactions EXCEPT ![Request].holds = "empty"]
    /\ UNCHANGED << journal, work, key_copies, trust_of >> /\ TransactionFrame

StageProtocol ==
    /\ Signing("replay-reserved") /\ Transaction.holds = "empty"
    /\ transactions' = [transactions EXCEPT ![Request].holds = "files"]
    /\ trust_of' = [trust_of EXCEPT ![Request] = trust]
    /\ UNCHANGED << journal, work, key_copies >> /\ TransactionFrame

RecordTransaction ==
    /\ Signing("replay-reserved") /\ Transaction.holds = "files"
    /\ Write([Step("transaction-staged") EXCEPT !.transaction = TRUE, !.trust = TRUE])
    /\ UNCHANGED << work, key_copies, transactions, trust_of >> /\ TransactionFrame

CopyKey ==
    /\ Signing("transaction-staged") /\ Request \notin key_copies
    /\ key_copies' = key_copies \cup {Request}
    /\ UNCHANGED << journal, work, transactions, trust_of >> /\ TransactionFrame

(* A rollback copy of every present entry, and the signer's working copies.   *)
CopyDatabase ==
    /\ Signing("transaction-staged") /\ Request \in key_copies
    /\ work = NoWork
    /\ work' =
          [work EXCEPT
             !.backup = [k \in Keys |->
                           IF database[k] = NoFile THEN "absent" ELSE "copy"],
             !.source = [k \in Keys |-> IF k \in {"index", "index_attr", "serial"}
                                        THEN "staged" ELSE "absent"]]
    /\ UNCHANGED << journal, key_copies, transactions, trust_of >> /\ TransactionFrame

RecordSigningReady ==
    /\ Signing("transaction-staged") /\ Request \in key_copies /\ work # NoWork
    /\ Write([Step("signing-ready") EXCEPT
                !.sensitive_key = TRUE, !.contract = TRUE, !.pre = database])
    /\ UNCHANGED << work, key_copies, transactions, trust_of >> /\ TransactionFrame

(* openssl ca leaves its database files one after the other.                 *)
RunOpenssl(k) ==
    /\ Signing("signing-ready") /\ work.source[k] = "absent"
    /\ \A i, j \in 1..Len(CSR_DB_KEYS) :
          i < j /\ CSR_DB_KEYS[j] = k => work.source[CSR_DB_KEYS[i]] = "staged"
    /\ work' = [work EXCEPT !.source[k] = "staged"]
    /\ UNCHANGED << journal, key_copies, transactions, trust_of >> /\ TransactionFrame

RecordSigningComplete ==
    /\ Signing("signing-ready") /\ \A k \in Keys : work.source[k] = "staged"
    /\ Write([Step("signing-complete") EXCEPT !.artifacts = TRUE])
    /\ UNCHANGED << work, key_copies, transactions, trust_of >> /\ TransactionFrame

(* Mutant: the removal of the key copy is recorded before it is done.         *)
MutantRecordKeyRemoved ==
    /\ Signing("signing-complete")
    /\ Write([Step("sensitive-key-removed") EXCEPT !.removed = TRUE])
    /\ UNCHANGED << work, key_copies, transactions, trust_of >> /\ TransactionFrame

RemoveSigningKey ==
    /\ Signing("signing-complete") /\ Request \in key_copies
    /\ key_copies' = key_copies \ {Request}
    /\ UNCHANGED << journal, work, transactions, trust_of >> /\ TransactionFrame

RecordKeyRemoved ==
    /\ Signing("signing-complete") /\ Request \notin key_copies
    /\ Write([Step("sensitive-key-removed") EXCEPT !.removed = TRUE])
    /\ UNCHANGED << work, key_copies, transactions, trust_of >> /\ TransactionFrame

------------------------------------------------------------------------------
(* _csr_publish_database_entry, for each entry in order: rename or exchange,   *)
(* removal of the displaced file, post identity; then the commit.            *)

Publishing == \/ Signing("sensitive-key-removed") \/ Signing("ca-published")
NextKey == CSR_DB_KEYS[journal.post + 1]
EntryDue == Publishing /\ journal.post < Len(CSR_DB_KEYS)

PublishFrame == WriterFrame /\ UNCHANGED << replay_requests, replay_nonces,
                                            key_copies, transactions, trust_of >>

PublishEntry ==
    /\ EntryDue /\ work.source[NextKey] = "staged"
    /\ database[NextKey] = journal.pre[NextKey]
    /\ database' = [database EXCEPT ![NextKey] = Issued(Request)]
    /\ work' = [work EXCEPT !.source[NextKey] =
                  IF journal.pre[NextKey] = NoFile THEN "absent" ELSE "displaced"]
    /\ UNCHANGED journal /\ PublishFrame

RemoveDisplacedEntry ==
    /\ EntryDue /\ work.source[NextKey] = "displaced"
    /\ work' = [work EXCEPT !.source[NextKey] = "absent"]
    /\ UNCHANGED << journal, database >> /\ PublishFrame

(* Mutant: the commit counts as an eighth published entry.                    *)
MutantCommitCounts ==
    /\ Signing("ca-published") /\ journal.post = Len(CSR_DB_KEYS)
    /\ Write([Step("ca-committed") EXCEPT !.phase = "ca-committed",
                                          !.committed = TRUE,
                                          !.post = journal.post + 1])
    /\ UNCHANGED << work, database >> /\ PublishFrame

(* Mutant: the commit does not wait for the last entries.                     *)
MutantCommitEarly ==
    /\ Signing("ca-published")
    /\ Write([Step("ca-committed") EXCEPT !.phase = "ca-committed",
                                          !.committed = TRUE])
    /\ UNCHANGED << work, database >> /\ PublishFrame

RecordEntry ==
    /\ EntryDue /\ work.source[NextKey] = "absent"
    /\ Write([Step("ca-published") EXCEPT !.post = journal.post + 1])
    /\ UNCHANGED << work, database >> /\ PublishFrame

Commit ==
    /\ Signing("ca-published") /\ journal.post = Len(CSR_DB_KEYS)
    /\ Write([Step("ca-committed") EXCEPT !.phase = "ca-committed",
                                          !.committed = TRUE])
    /\ UNCHANGED << work, database >> /\ PublishFrame

WriterSteps ==
    \/ ReserveRequest \/ ReserveNonce \/ RecordReplay
    \/ CreateTransaction \/ StageProtocol \/ RecordTransaction
    \/ CopyKey \/ CopyDatabase \/ RecordSigningReady
    \/ \E k \in Keys : RunOpenssl(k)
    \/ RecordSigningComplete \/ RemoveSigningKey \/ RecordKeyRemoved
    \/ PublishEntry \/ RemoveDisplacedEntry \/ RecordEntry \/ Commit
==============================================================================
