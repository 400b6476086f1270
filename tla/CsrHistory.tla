------------------------------ MODULE CsrHistory ------------------------------
(***************************************************************************)
(* The retained history of a host-local service: exports, decisions, the   *)
(* active pointer and the installed trust, and what the commands read out  *)
(* of it (src/platform_pki/csr_history.py) before they act.                *)
(***************************************************************************)
EXTENDS CsrState

CONSTANTS
    InitialTrusts,   \* trust trees that may be installed at first
    MaxTrust         \* bound: the trust trees are 0..MaxTrust

(* Tree 0 is a schema-1 tree; every other has schema 2 and deployers of its   *)
(* own.  No two trees share a key.                                           *)
ASSUME TrustAssumption == MaxTrust \in Nat /\ InitialTrusts \subseteq 0..MaxTrust

Trusts == 0..MaxTrust
SchemaTwo(t) == t > 0

VARIABLES
    exported,        \* export/certificates/v1/artifacts/<service>/<request>
    outcome_exports, \* the exported terminal outcomes
    outcomes,        \* state/csr/outcomes/<service>/<request>
    active,          \* state/csr/active/<service>
    trust,           \* inventory/csr-trust
    trust_of,        \* the trust retained with a signing transaction
    entries,         \* what else the state directories hold
    deciding,        \* the decision of the candidate command that runs
    staged,          \* its outcome stage and active pointer stage
    finalization     \* state/csr/finalization-recovery-journal

history_vars == << exported, outcome_exports, outcomes, active, trust, trust_of,
                   entries, deciding, staged, finalization >>

Nobody == Requests \cup {"nobody"}
NoDecision == [request |-> "nobody", action |-> "none"]
NoStage == [outcome |-> "nobody", pointer |-> "nobody"]
NoFinalization == [request |-> "nobody", phase |-> "none", pre |-> "nobody"]

(* candidates, outcomes: the service's directory exists in that part of the   *)
(* state; lost_outcome, lost_pointer: a hidden stage whose owner is gone.    *)
NoEntries == [candidates |-> FALSE, outcomes |-> FALSE,
              lost_outcome |-> FALSE, lost_pointer |-> FALSE]

HistoryTypeOK ==
    /\ exported \in SUBSET Requests /\ outcome_exports \in SUBSET Requests
    /\ outcomes \in [Requests -> {"none", "finalize", "abandon"}]
    /\ active \in Nobody
    /\ trust \in Trusts /\ trust_of \in [Requests -> Trusts]
    /\ entries \in [DOMAIN NoEntries -> BOOLEAN]
    /\ deciding \in [request : Nobody, action : {"none", "finalize", "abandon"}]
    /\ staged \in [outcome : Nobody, pointer : Nobody]
    /\ finalization \in
          [request : Nobody,
           phase : {"none", "planned", "outcome-published", "active-published"},
           pre : Nobody]

HistoryInit ==
    /\ exported = {} /\ outcome_exports = {}
    /\ outcomes = [r \in Requests |-> "none"] /\ active = "nobody"
    /\ trust \in InitialTrusts /\ trust_of = [r \in Requests |-> 0]
    /\ entries = NoEntries /\ deciding = NoDecision
    /\ staged = NoStage /\ finalization = NoFinalization

Finalizing == finalization.phase # "none"
Decided(r) == outcomes[r] # "none"
Pending == {r \in candidates : ~Decided(r)}
Retained == {r \in Requests : Decided(r)}

(* Mutant: only a signing journal is unresolved state.                        *)
MutantNoUnresolvedState == ~SigningJournaled

(* require_no_unresolved_state, with no CA rollover in progress.             *)
NoUnresolvedState == ~SigningJournaled /\ ~Finalizing

------------------------------------------------------------------------------
(* The request a decision names as predecessor: a renewal's current one.     *)
PredecessorOf(r) ==
    IF OperationOf[r] = "renew" THEN CurrentOf[r] ELSE "nobody"

(* history.request_ids: a request and its chain of predecessors.             *)
ChainOf(r) ==
    LET reach[n \in 0..Cardinality(Requests)] ==
          IF n = 0 THEN {r}
          ELSE reach[n - 1] \cup {PredecessorOf(x) : x \in reach[n - 1] \cap Requests}
    IN  reach[Cardinality(Requests)] \cap Requests

(* authenticate_pending_response, authenticate_candidate_source              *)
Authentic(r) ==
    /\ r \in candidates \cap responses
    /\ transactions[r].holds = "files" /\ transactions[r].terminal = "published"
    /\ r \in replay_requests /\ replay_nonces[NonceOf[r]] = r

(* _authenticate_history of a decided request and its whole chain.           *)
AuthenticHistory(r) ==
    /\ \A x \in ChainOf(r) : Authentic(x) /\ x \in exported /\ Decided(x)
    /\ \A x \in ChainOf(r) \ {r} : outcomes[x] = "finalize"

ResultingActive(r) ==
    IF outcomes[r] = "finalize" THEN r ELSE PredecessorOf(r)

------------------------------------------------------------------------------
(* What a signing may start from, and what a renewal additionally requires:   *)
(* authenticate_active_predecessor and _csr_reject_unresolved_renewal.       *)

UnderInstalledTrust(r) ==
    SchemaTwo(trust) /\ \A x \in ChainOf(r) : trust_of[x] = trust

ActiveIsCurrent(r) ==
    /\ active # "nobody" /\ CurrentOf[r] = active
    /\ outcomes[active] = "finalize" /\ AuthenticHistory(active)
    /\ UnderInstalledTrust(active)

OutcomesMatchCandidates ==
    /\ Retained \subseteq candidates
    /\ entries.outcomes => Retained # {}
    /\ ~entries.lost_outcome

AcceptedIn(chain, r) ==
    /\ AuthenticHistory(r) /\ UnderInstalledTrust(r)
    /\ ResultingActive(r) \in chain

RenewalAdmitted(r) ==
    /\ ActiveIsCurrent(r) /\ OutcomesMatchCandidates /\ Pending = {}
    /\ \A x \in candidates : AcceptedIn(ChainOf(active), x)

SigningAdmitted(r) ==
    CASE OperationOf[r] = "issue" -> ~Managed
      [] OperationOf[r] = "migrate" -> Managed
      [] OperationOf[r] = "renew" -> RenewalAdmitted(r)

(* _new_predecessor: the decision fits the service's accepted evidence.      *)
PredecessorAccepted(r) ==
    IF OperationOf[r] = "renew"
    THEN active # "nobody" /\ active = CurrentOf[r] ELSE active = "nobody"

(* Mutant: an undecided candidate does not stop a trust change.               *)
MutantRetainedHistoryTerminal ==
    /\ entries.candidates => candidates # {}
    /\ Retained \subseteq candidates
    /\ \A r \in Retained : AuthenticHistory(r)

(* authenticate_retained_history: the gate of every schema-2 trust change.   *)
FinalizedHeads ==
    {r \in Requests : outcomes[r] = "finalize"}
       \ {PredecessorOf(r) : r \in {x \in Requests : outcomes[x] = "finalize"}}

RetainedHistoryTerminal ==
    /\ entries.candidates => candidates # {}
    /\ entries.outcomes => Retained # {}
    /\ ~entries.lost_outcome /\ ~entries.lost_pointer
    /\ Retained \subseteq candidates /\ Pending = {}
    /\ \A r \in Retained : AuthenticHistory(r)
    /\ FinalizedHeads = {active} \ {"nobody"}
==============================================================================
