---------------------------- MODULE CsrFinalization ----------------------------
(***************************************************************************)
(* Exports, decisions and trust of answered requests: certificate-export,  *)
(* csr-candidate finalize and abandon, csr-recover of a finalization,      *)
(* csr-outcome and csr-trust-install.                                      *)
(***************************************************************************)
EXTENDS CsrSigningRecover

Command == actor = Idle /\ NoUnresolvedState

(* certificate-export publish: an immutable copy of a published response.    *)
ExportCertificate(r) ==
    /\ Command /\ Authentic(r) /\ r \notin exported
    /\ exported' = exported \cup {r}
    /\ UNCHANGED << signing_vars, process_vars, outcome_exports, outcomes, active,
                    trust, trust_of, entries, deciding, staged, finalization >>

(* csr-outcome publish: the same of a terminal outcome.                      *)
ExportOutcome(r) ==
    /\ Command /\ Decided(r) /\ AuthenticHistory(r) /\ r \notin outcome_exports
    /\ outcome_exports' = outcome_exports \cup {r}
    /\ UNCHANGED << signing_vars, process_vars, exported, outcomes, active,
                    trust, trust_of, entries, deciding, staged, finalization >>

(* csr-trust-install of another tree.                                        *)
InstallTrust(t) ==
    /\ Command /\ t # trust
    /\ SchemaTwo(t) \/ SchemaTwo(trust) => RetainedHistoryTerminal
    /\ trust' = t
    /\ UNCHANGED << signing_vars, process_vars, exported, outcome_exports, outcomes,
                    active, trust_of, entries, deciding, staged, finalization >>

------------------------------------------------------------------------------
(* csr-candidate: authenticate everything, then stage the outcome.           *)

(* Mutant: a request that has been decided may be decided again.              *)
MutantMayDecide(r) ==
    /\ Authentic(r) /\ r \in exported
    /\ active # "nobody" => AuthenticHistory(active)
    /\ SchemaTwo(trust)

(* The guards of a new decision; an existing one is kept or refused.         *)
MayDecide(r) ==
    /\ Authentic(r) /\ r \in exported /\ ~Decided(r)
    /\ active # "nobody" => AuthenticHistory(active)
    /\ PredecessorAccepted(r)
    /\ SchemaTwo(trust)

BeginDecision(r, action) ==
    /\ Command /\ MayDecide(r)
    /\ actor' = [Idle EXCEPT !.process = "decide"]
    /\ deciding' = [request |-> r, action |-> action]
    /\ entries' = [entries EXCEPT !.outcomes = TRUE]
    /\ UNCHANGED << signing_vars, handlers, exported, outcome_exports, outcomes,
                    active, trust, trust_of, staged, finalization >>

Deciding == actor.process = "decide"
DecisionFrame == UNCHANGED << signing_vars, handlers, exported, outcome_exports,
                              trust, trust_of >>

StageOutcome ==
    /\ Deciding /\ staged.outcome = "nobody"
    /\ staged' = [staged EXCEPT !.outcome = deciding.request]
    /\ UNCHANGED << actor, outcomes, active, entries, deciding, finalization >>
    /\ DecisionFrame

(* _publish_abandon                                                          *)
PublishAbandonment ==
    /\ Deciding /\ deciding.action = "abandon" /\ staged.outcome # "nobody"
    /\ outcomes' = [outcomes EXCEPT ![deciding.request] = "abandon"]
    /\ staged' = NoStage /\ deciding' = NoDecision /\ actor' = Idle
    /\ UNCHANGED << active, entries, finalization >> /\ DecisionFrame

(* _publish_finalize                                                         *)
StagePointer ==
    /\ Deciding /\ deciding.action = "finalize"
    /\ staged.outcome # "nobody" /\ staged.pointer = "nobody"
    /\ staged' = [staged EXCEPT !.pointer = deciding.request]
    /\ UNCHANGED << actor, outcomes, active, entries, deciding, finalization >>
    /\ DecisionFrame

(* The decision is irrevocable once the journal is published; the command     *)
(* goes on in the code of the recovery.                                      *)
PublishFinalizationJournal ==
    /\ Deciding /\ staged.pointer # "nobody"
    /\ finalization' = [request |-> deciding.request, phase |-> "planned",
                        pre |-> active]
    /\ deciding' = NoDecision
    /\ actor' = [process |-> "finalize", checked |-> TRUE]
    /\ UNCHANGED << outcomes, active, entries, staged >> /\ DecisionFrame

------------------------------------------------------------------------------
(* _recover_finalization_locked                                              *)

OutcomePublished == outcomes[finalization.request] = "finalize"
OutcomeState == (staged.outcome = finalization.request) # OutcomePublished

(* Mutant: the old pointer must still be where the exchange left it.          *)
MutantPointerPublished ==
    active = finalization.request /\ staged.pointer = finalization.pre

PointerStaged == /\ staged.pointer = finalization.request
                 /\ active = finalization.pre
PointerPublished ==
    /\ active = finalization.request
    /\ staged.pointer \in {"nobody"} \cup {finalization.pre}
ActiveState == PointerStaged # PointerPublished

(* _validate_phase                                                           *)
PhaseState ==
    CASE finalization.phase = "planned" -> ~PointerPublished
      [] finalization.phase = "outcome-published" -> OutcomePublished
      [] finalization.phase = "active-published" -> OutcomePublished /\ PointerPublished

SourcesRetained ==
    LET r == finalization.request
    IN  r \in candidates \cap responses \cap exported
          /\ transactions[r].holds = "files"

PreflightFinalization == SourcesRetained /\ OutcomeState /\ ActiveState /\ PhaseState

BeginFinalizationRecovery ==
    /\ actor = Idle /\ Finalizing /\ ~SigningJournaled
    /\ PreflightFinalization
    /\ actor' = [process |-> "finalize", checked |-> TRUE]
    /\ UNCHANGED << signing_vars, handlers, history_vars >>

FinalizationPhase(phase) == actor.process = "finalize" /\ finalization.phase = phase

PublishOutcome ==
    /\ FinalizationPhase("planned") /\ ~OutcomePublished
    /\ outcomes' = [outcomes EXCEPT ![finalization.request] = "finalize"]
    /\ staged' = [staged EXCEPT !.outcome = "nobody"]
    /\ UNCHANGED << actor, active, entries, deciding, finalization >>
    /\ DecisionFrame

RecordOutcome ==
    /\ FinalizationPhase("planned") /\ OutcomePublished
    /\ finalization' = [finalization EXCEPT !.phase = "outcome-published"]
    /\ UNCHANGED << actor, outcomes, active, entries, deciding, staged >>
    /\ DecisionFrame

(* Mutant: the pointer is recorded as published with the outcome.             *)
MutantRecordActive ==
    /\ FinalizationPhase("outcome-published")
    /\ finalization' = [finalization EXCEPT !.phase = "active-published"]
    /\ UNCHANGED << actor, outcomes, active, entries, deciding, staged >>
    /\ DecisionFrame

(* A rename when there was no pointer, else an exchange with the old one.     *)
PublishActive ==
    /\ FinalizationPhase("outcome-published") /\ PointerStaged
    /\ active' = finalization.request
    /\ staged' = [staged EXCEPT !.pointer = finalization.pre]
    /\ UNCHANGED << actor, outcomes, entries, deciding, finalization >>
    /\ DecisionFrame

RecordActive ==
    /\ FinalizationPhase("outcome-published") /\ PointerPublished
    /\ finalization' = [finalization EXCEPT !.phase = "active-published"]
    /\ UNCHANGED << actor, outcomes, active, entries, deciding, staged >>
    /\ DecisionFrame

RemoveOldActive ==
    /\ FinalizationPhase("active-published") /\ staged.pointer # "nobody"
    /\ staged' = [staged EXCEPT !.pointer = "nobody"]
    /\ UNCHANGED << actor, outcomes, active, entries, deciding, finalization >>
    /\ DecisionFrame

RemoveFinalizationJournal ==
    /\ FinalizationPhase("active-published") /\ staged.pointer = "nobody"
    /\ finalization' = NoFinalization /\ actor' = Idle
    /\ UNCHANGED << outcomes, active, entries, deciding, staged >>
    /\ DecisionFrame

FinalizationSteps ==
    \/ StageOutcome \/ PublishAbandonment \/ StagePointer
    \/ PublishFinalizationJournal
    \/ PublishOutcome \/ RecordOutcome \/ PublishActive \/ RecordActive
    \/ RemoveOldActive \/ RemoveFinalizationJournal

------------------------------------------------------------------------------
(* A decision that fails before its journal removes its stages; one that is   *)
(* killed leaves them behind.  After the journal nothing is cleaned up.      *)

DecisionFails ==
    /\ Deciding
    /\ staged' = NoStage /\ deciding' = NoDecision /\ actor' = Idle
    /\ UNCHANGED << outcomes, active, entries, finalization >> /\ DecisionFrame

DecisionKilled ==
    /\ Deciding
    /\ entries' = [entries EXCEPT
                     !.lost_outcome = @ \/ staged.outcome # "nobody",
                     !.lost_pointer = @ \/ staged.pointer # "nobody"]
    /\ staged' = NoStage /\ deciding' = NoDecision /\ actor' = Idle
    /\ UNCHANGED << outcomes, active, finalization >> /\ DecisionFrame

FinalizationStops ==
    /\ actor.process = "finalize" /\ actor' = Idle
    /\ UNCHANGED << signing_vars, handlers, history_vars >>
==============================================================================
