------------------------------- MODULE CsrState -------------------------------
(***************************************************************************)
(* What the CSR commands keep on disk for one host-local service, and the  *)
(* processes working on it.  The journals are durable; `actor` is the one  *)
(* process that holds the PKI lock profile and disappears in a crash.      *)
(***************************************************************************)
EXTENDS CsrSigningJournal

CONSTANTS
    NonceOf,      \* the nonce a request carries
    OperationOf,  \* its operation: "issue", "migrate" or "renew"
    CurrentOf,    \* the request whose certificate a renewal replaces
    Managed       \* the service has a managed key and certificate

Operations == {"issue", "migrate", "renew"}

ASSUME RequestFieldsAssumption ==
    /\ DOMAIN NonceOf = Requests
    /\ OperationOf \in [Requests -> Operations]
    /\ CurrentOf \in [Requests -> Requests \cup {"nobody"}]
    /\ Managed \in BOOLEAN

VARIABLES
    journal,          \* state/csr/recovery-journal
    replay_requests,  \* state/csr/replay/requests/<request>
    replay_nonces,    \* state/csr/replay/nonces/<nonce>, with the request named
    database,         \* the seven database files of the active intermediate
    work,             \* the journaled transaction's working objects
    key_copies,       \* transactions that hold a copy of the CA key
    transactions,     \* state/csr/transactions/csr-<request>
    candidates,       \* state/csr/candidates/<service>/<request>
    responses,        \* state/csr/responses/<service>/<request>
    actor,            \* the process that holds the lock, if any
    handlers          \* failed signing processes about to run their handler

signing_vars == << journal, replay_requests, replay_nonces, database, work,
                   key_copies, transactions, candidates, responses >>
process_vars == << actor, handlers >>

Nonces == {NonceOf[r] : r \in Requests}
Kinds == {"candidate", "response"}

(* The working objects of one transaction.  A source or backup is displaced   *)
(* when its path holds the file an exchange took out of the database; a       *)
(* signature or stage is torn when a write to it was cut short.               *)
NoWork ==
    [source |-> [k \in Keys |-> "absent"], backup |-> [k \in Keys |-> "absent"],
     signature |-> "absent", stage |-> [kind \in Kinds |-> "absent"]]

WorkType ==
    [source : [Keys -> {"absent", "staged", "displaced"}],
     backup : [Keys -> {"absent", "copy", "displaced"}],
     signature : {"absent", "torn", "whole"},
     stage : [Kinds -> {"absent", "begun", "torn", "whole"}]]

Processes == {"none", "sign", "handle", "recover", "decide", "finalize"}
Idle == [process |-> "none", checked |-> FALSE]

SigningTypeOK ==
    /\ journal \in JournalType
    /\ replay_requests \in SUBSET Requests
    /\ replay_nonces \in [Nonces -> Requests \cup {"nobody"}]
    /\ database \in [Keys -> Files]
    /\ work \in WorkType
    /\ key_copies \in SUBSET Requests
    /\ transactions \in [Requests ->
          [holds : {"absent", "empty", "files"},
           terminal : {"none", "failed-pre-commit", "published"}]]
    /\ candidates \in SUBSET Requests
    /\ responses \in SUBSET Requests
    /\ actor \in [process : Processes, checked : BOOLEAN]
    /\ handlers \in SUBSET Requests

(* openssl ca writes the .old files and the certificate only when it runs, so *)
(* a new CA may still lack the former.                                        *)
SigningInit ==
    /\ journal = NoJournal
    /\ replay_requests = {} /\ replay_nonces = [n \in Nonces |-> "nobody"]
    /\ \E old \in {NoFile, Original} :
          database = [k \in Keys |->
                        CASE k \in {"index", "index_attr", "serial"} -> Original
                          [] k = "newcert" -> NoFile
                          [] OTHER -> old]
    /\ work = NoWork /\ key_copies = {}
    /\ transactions = [r \in Requests |-> [holds |-> "absent", terminal |-> "none"]]
    /\ candidates = {} /\ responses = {}
    /\ actor = Idle /\ handlers = {}

(* The request the signing journal names, and its transaction.               *)
Request == journal.request
Transaction == transactions[Request]
SigningJournaled == journal.phase # "none"

(* control.write(): the journal is replaced by a complete one or not at all.  *)
Write(j) == journal' = j

(* The rollback copy of a database entry.                                    *)
BackupOf(k) == [by |-> journal.pre[k].by, copied |-> Request]
==============================================================================
