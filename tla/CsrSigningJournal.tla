-------------------------- MODULE CsrSigningJournal --------------------------
(***************************************************************************)
(* The CSR signing journal (src/platform_pki/csr_recovery.py): its fields, *)
(* the order of its steps and the evidence each step must carry.  An       *)
(* identity field is modelled by whether it is recorded, except for the CA *)
(* database, where the journal tells files of one path apart.              *)
(***************************************************************************)
EXTENDS Naturals, Sequences, FiniteSets

CONSTANTS
    Requests   \* request IDs (each a signing transaction of its own)

ASSUME RequestsAssumption == IsFiniteSet(Requests) /\ {"base", "nobody"} \cap Requests = {}

(* The objects of the CA database, in publication order.                     *)
CSR_DB_KEYS == << "index", "index_attr", "serial", "index_old",
                  "index_attr_old", "serial_old", "newcert" >>
Keys == {"index", "index_attr", "serial", "index_old", "index_attr_old",
         "serial_old", "newcert"}

(* A file of the database: the request whose signing produced its contents,   *)
(* and the request whose rollback copy it is, if it is one.                   *)
Files == [by : Requests \cup {"base", "nobody"},
          copied : Requests \cup {"nobody"}]
NoFile == [by |-> "nobody", copied |-> "nobody"]
Original == [by |-> "base", copied |-> "nobody"]
Issued(r) == [by |-> r, copied |-> "nobody"]

PlannedSteps == << "planned", "replay-reserved", "transaction-staged",
                   "signing-ready", "signing-complete", "sensitive-key-removed",
                   "ca-published" >>
CommittedSteps == << "ca-committed", "response-signing", "response-signed",
                     "candidate-published", "response-published" >>
EarlySteps == {"planned", "replay-reserved", "transaction-staged"}
Steps == {PlannedSteps[i] : i \in 1..7} \cup {CommittedSteps[i] : i \in 1..5}
            \cup {"journal-cleanup-pending"}

Reached(step, s) ==
    \E i, j \in 1..7 :
        i <= j /\ PlannedSteps[i] = s /\ PlannedSteps[j] = step

JournalType ==
    [request : Requests \cup {"nobody"},
     phase : {"none", "planned", "ca-committed", "terminal"},
     step : Steps,
     committed : BOOLEAN,
     replay : BOOLEAN, transaction : BOOLEAN, trust : BOOLEAN,
     sensitive_key : BOOLEAN, removed : BOOLEAN, artifacts : BOOLEAN,
     contract : BOOLEAN,              \* the database fields are recorded
     pre : [Keys -> Files],           \* db_<key>_pre_identity
     post : 0..Len(CSR_DB_KEYS),      \* entries with a post identity
     signature : BOOLEAN,
     candidate_stage : BOOLEAN, candidate_destination : BOOLEAN,
     response_stage : BOOLEAN, response_destination : BOOLEAN]

(* No state/csr/recovery-journal.                                            *)
NoJournal ==
    [request |-> "nobody", phase |-> "none", step |-> "planned",
     committed |-> FALSE, replay |-> FALSE, transaction |-> FALSE,
     trust |-> FALSE, sensitive_key |-> FALSE, removed |-> FALSE,
     artifacts |-> FALSE, contract |-> FALSE,
     pre |-> [k \in Keys |-> NoFile], post |-> 0, signature |-> FALSE,
     candidate_stage |-> FALSE, candidate_destination |-> FALSE,
     response_stage |-> FALSE, response_destination |-> FALSE]

InitialJournal(r) == [NoJournal EXCEPT !.request = r, !.phase = "planned"]

------------------------------------------------------------------------------
(* parse_signing_journal: what every loaded or written journal must satisfy. *)

ConsistentPhase(j) ==
    \/ /\ j.phase = "planned" /\ ~j.committed
       /\ \E i \in 1..7 : j.step = PlannedSteps[i]
    \/ /\ j.phase = "ca-committed" /\ j.committed
       /\ \E i \in 1..5 : j.step = CommittedSteps[i]
    \/ j.phase = "terminal" /\ j.step = "journal-cleanup-pending"

ConsistentSensitiveKey(j) ==
    IF j.phase = "terminal" THEN j.removed /\ (j.committed => j.sensitive_key)
    ELSE IF j.step \in EarlySteps THEN ~j.sensitive_key /\ ~j.removed
    ELSE /\ j.sensitive_key
         /\ j.removed = (j.step \notin {"signing-ready", "signing-complete"})

(* Source identities come with the other signing artifacts and every entry   *)
(* published before the commit has its post identity, in order.              *)
ConsistentDatabase(j) ==
    /\ ~j.contract =>
          /\ ~j.committed /\ j.post = 0
          /\ \A k \in Keys : j.pre[k] = NoFile
          /\ j.phase = "planned" => j.step \in EarlySteps
    /\ j.phase = "planned" /\ j.step \in EarlySteps => ~j.contract
    /\ j.phase = "terminal" => j.contract = j.sensitive_key
    /\ j.committed => j.post = Len(CSR_DB_KEYS)
    /\ j.phase = "planned" => (j.post > 0) = (j.step = "ca-published")
    /\ j.post > 0 => j.artifacts

Published(j) ==
    << j.candidate_stage, j.candidate_destination,
       j.response_stage, j.response_destination >>
Nothing == << FALSE, FALSE, FALSE, FALSE >>

(* _validate_signing_checkpoint_evidence                                     *)
PlannedEvidence(j) ==
    /\ j.replay = Reached(j.step, "replay-reserved")
    /\ j.transaction = Reached(j.step, "transaction-staged")
    /\ j.trust = j.transaction
    /\ j.artifacts = Reached(j.step, "signing-complete")
    /\ ~j.signature /\ Published(j) = Nothing

CommittedEvidence(j) ==
    /\ j.replay /\ j.transaction /\ j.trust /\ j.artifacts
    /\ \/ /\ j.step \in {"ca-committed", "response-signing"}
          /\ ~j.signature /\ Published(j) = Nothing
       \/ /\ j.step = "response-signed" /\ j.signature
          /\ Published(j) \in {Nothing, << TRUE, FALSE, FALSE, FALSE >>,
                               << TRUE, FALSE, TRUE, FALSE >>,
                               << TRUE, TRUE, TRUE, FALSE >>}
       \/ /\ j.step = "candidate-published" /\ j.signature
          /\ j.candidate_stage /\ j.candidate_destination /\ j.response_stage
       \/ /\ j.step = "response-published" /\ j.signature
          /\ Published(j) = << TRUE, TRUE, TRUE, TRUE >>

TerminalEvidence(j) ==
    /\ j.replay /\ j.transaction
    /\ IF j.committed
       THEN /\ j.trust /\ j.artifacts /\ j.signature
            /\ Published(j) = << TRUE, TRUE, TRUE, TRUE >>
       ELSE /\ j.artifacts => j.sensitive_key
            /\ j.sensitive_key => j.trust
            /\ ~j.signature /\ Published(j) = Nothing

Parses(j) ==
    /\ ConsistentPhase(j) /\ ConsistentSensitiveKey(j) /\ ConsistentDatabase(j)
    /\ CASE j.phase = "planned" -> PlannedEvidence(j)
         [] j.phase = "ca-committed" -> CommittedEvidence(j)
         [] OTHER -> TerminalEvidence(j)
==============================================================================
