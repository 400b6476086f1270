----------------------------- MODULE CsrLifecycle -----------------------------
(***************************************************************************)
(* Host-local certificate requests from reservation to decision: signing,  *)
(* its two recoveries, exports, decisions and trust changes composed, and  *)
(* what must hold of all of them together.                                 *)
(***************************************************************************)
EXTENDS CsrFinalization

vars == << signing_vars, process_vars, history_vars >>

Init == SigningInit /\ HistoryInit

(* The steps a running process takes, and the ones that start or end it.      *)
SigningSteps == WriterSteps \/ RecoverySteps
Ends == \/ SigningFails \/ SigningStops
        \/ DecisionFails \/ DecisionKilled \/ FinalizationStops

Starts ==
    \/ \E r \in Requests : BeginSigning(r) \/ BeginHandler(r) \/ HandlerGivesUp(r)
    \/ BeginRecovery \/ BeginFinalizationRecovery
    \/ \E r \in Requests, action \in {"finalize", "abandon"} : BeginDecision(r, action)
Commands ==
    \/ \E r \in Requests : ExportCertificate(r) \/ ExportOutcome(r)
    \/ \E t \in Trusts : InstallTrust(t)

Next == SigningSteps \/ FinalizationSteps \/ Ends \/ Starts \/ Commands

Spec == Init /\ [][Next]_vars

(* A process that runs goes on or ends, and an operator runs csr-recover until *)
(* it gets somewhere, with the response key at hand; nothing else is owed.    *)
DurableSteps ==
    ReserveRequest \/ ReserveNonce \/ RecordReplay
       \/ (RecoverySteps /\ signing_vars' # signing_vars)
Fairness ==
    /\ WF_vars(SigningSteps \/ FinalizationSteps \/ Ends)
    /\ SF_vars(BeginRecovery) /\ SF_vars(Preflight) /\ SF_vars(DurableSteps)
    /\ SF_vars(BeginFinalizationRecovery) /\ SF_vars(FinalizationSteps)

FairSpec == Spec /\ Fairness

TypeOK == SigningTypeOK /\ HistoryTypeOK

------------------------------------------------------------------------------
(* Safety of the signing.                                                    *)

(* Whatever is durable as journal is a journal the parser accepts.           *)
JournalParses == SigningJournaled => Parses(journal)

(* Between transactions the database files are all of one signing: the last   *)
(* one that was committed, whatever was rolled back since.                   *)
DatabaseWhole ==
    ~SigningJournaled =>
        \E by \in {"base"} \cup {r \in Requests : transactions[r].terminal = "published"} :
            /\ \A k \in Keys \ {"newcert"} :
                  \/ database[k].by = by
                  \/ by = "base" /\ database[k] = NoFile
            /\ database["newcert"] \in {NoFile, Issued(by)}

(* A certificate leaves the signer only after the CA database that records it *)
(* is final, and with an identity nobody else has used.                      *)
PublishedOnlyIfCommitted ==
    \A r \in candidates \cup responses :
        /\ \/ transactions[r].terminal = "published"
           \/ journal.request = r /\ journal.committed /\ journal.signature
        /\ r \in replay_requests /\ replay_nonces[NonceOf[r]] = r

(* A copy of the CA key exists only under a journal that says how far the     *)
(* signing with it has come, and never beside a committed database.          *)
KeyCopyAccountable ==
    \A r \in key_copies :
        /\ journal.request = r /\ journal.phase = "planned" /\ journal.post = 0
        /\ journal.step \in {"transaction-staged", "signing-ready", "signing-complete"}

(* Where an interrupted signing cannot be recovered.                         *)
Blocked ==
    /\ actor = Idle /\ SigningJournaled
    /\ \/ ~TransactionPresence
       \/ journal.replay /\ IF journal.committed THEN ~PreflightCommitted
                            ELSE ~PreflightUncommitted
       \/ work.signature = "torn"

UnrecordedTransaction == ~journal.transaction /\ Transaction.holds = "files"
UnrecordedKeyCopy == ~journal.sensitive_key /\ Request \in key_copies
InterruptedExchange ==
    \E k \in Keys : work.source[k] = "displaced" \/ work.backup[k] = "displaced"
TornFile == work.signature = "torn" \/ \E kind \in Kinds : work.stage[kind] = "torn"
TerminalBeforeSources ==
    /\ journal.phase = "terminal" /\ journal.contract /\ ~journal.artifacts

(* Recovery gives up only in these windows.                                  *)
RefusalsAreKnown ==
    Blocked => \/ UnrecordedTransaction \/ UnrecordedKeyCopy
               \/ InterruptedExchange \/ TornFile \/ TerminalBeforeSources

(* What the recovery tests say: a transaction interrupted between its         *)
(* terminal record and the removal of the journal is recovered.              *)
TerminalJournalResumes ==
    actor = Idle /\ journal.phase = "terminal" /\ ~journal.committed =>
        PreflightUncommitted

(* A commit is final: nothing restores the database or the journal.          *)
CommitIrrevocable ==
    [][journal.committed =>
          /\ database' = database
          /\ \/ journal'.committed /\ journal'.request = journal.request
             \/ /\ journal' = NoJournal /\ Transaction.terminal = "published"
                /\ Request \in candidates \cap responses]_vars

------------------------------------------------------------------------------
(* Safety of the decisions.                                                  *)

(* Recovery of one journal never finds another in its way.                   *)
OneJournal == ~(SigningJournaled /\ Finalizing)

(* The active pointer is the one finalized request no other supersedes, and   *)
(* every request it builds on was finalized.                                 *)
ActiveIsHead ==
    ~Finalizing =>
        /\ FinalizedHeads = {active} \ {"nobody"}
        /\ active # "nobody" =>
              ChainOf(active) = {r \in Requests : outcomes[r] = "finalize"}

(* A candidate that waits for its decision was signed under the trust that    *)
(* is installed, so deployers and responders it will be judged by are the     *)
(* ones its signing knew.                                                    *)
PendingUnderInstalledTrust ==
    \A r \in Requests :
        r \in Pending \/ (journal.request = r /\ journal.trust /\ ~journal.removed)
            => trust_of[r] = trust

(* Outcomes, pointers and exports are history: none is undone or replaced.    *)
HistoryGrows ==
    [][/\ \A r \in Requests : Decided(r) => outcomes'[r] = outcomes[r]
       /\ exported \subseteq exported' /\ outcome_exports \subseteq outcome_exports'
       /\ active # "nobody" /\ active' # active => PredecessorOf(active') = active]_vars

(* What the documentation says of abandonment: evidence that a candidate was  *)
(* not activated decides it, whatever its operation.                         *)
PendingCanBeDecided ==
    Command /\ SchemaTwo(trust) =>
        \A r \in Pending \cap exported : MayDecide(r)

(* ... and of trust: the initial schema-2 tree is installed when no candidate *)
(* is pending.                                                               *)
InitialTrustInstalls ==
    Command /\ ~SchemaTwo(trust) /\ Pending = {} => RetainedHistoryTerminal

------------------------------------------------------------------------------
(* What the ledger of signed requests sees of all this: of an uncommitted     *)
(* signing the database it started from, of a journaled finalization the end. *)

LedgerFiles == Keys \ {"newcert"}
TakenUp == [k \in LedgerFiles |-> IF journal.contract /\ ~journal.committed
                                  THEN journal.pre[k].by ELSE database[k].by]
SignedRequests == {r \in Requests : \/ journal.request = r /\ journal.committed
                                    \/ transactions[r].terminal = "published"}
AnsweredRequests == candidates \cap responses
Decisions == [r \in Requests |-> IF finalization.request = r THEN "finalize" ELSE outcomes[r]]
CurrentRequest == IF Finalizing THEN finalization.request ELSE active

Ledger == INSTANCE CsrLedger WITH
    Files <- LedgerFiles,
    Predecessor <- [r \in Requests |-> PredecessorOf(r)],
    ledger <- TakenUp, signed <- SignedRequests, answered <- AnsweredRequests,
    decision <- Decisions, current <- CurrentRequest

(* The database changes from one signing to the next in one step, and a       *)
(* signing is answered before the next, whatever is interrupted.             *)
ImplementsLedger == Ledger!Spec

------------------------------------------------------------------------------
(* However often it is interrupted, a signing journal goes away, unless it    *)
(* stopped in a refused window, and so does a finalization journal.          *)
SigningConverges == SigningJournaled ~> ~SigningJournaled \/ Blocked
FinalizationConverges == Finalizing ~> ~Finalizing
==============================================================================
