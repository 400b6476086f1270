------------------------------ MODULE CsrLedger -------------------------------
(***************************************************************************)
(* What host-local certificate requests promise, whatever happens inside:  *)
(* the CA database takes up one request at a time and as a whole, a signed *)
(* request is answered before anything else is signed or decided, and a    *)
(* decision and the active request change together and once.               *)
(***************************************************************************)
CONSTANTS Requests, Files,
          Predecessor   \* the request whose certificate a request replaces

VARIABLES
    ledger,     \* who produced each file of the CA database
    signed,     \* requests the CA database took up
    answered,   \* requests with a published candidate and response
    decision,   \* what was decided of an answered request
    current     \* the active request

ledger_vars == << ledger, signed, answered, decision, current >>

Init ==
    /\ ledger \in [Files -> {"base", "nobody"}]
    /\ signed = {} /\ answered = {}
    /\ decision = [r \in Requests |-> "none"] /\ current = "nobody"

Resolved == signed = answered

Sign(r) ==
    /\ Resolved /\ r \notin signed
    /\ ledger' = [k \in Files |-> r] /\ signed' = signed \cup {r}
    /\ UNCHANGED << answered, decision, current >>

Answer(r) ==
    /\ r \in signed \ answered
    /\ answered' = answered \cup {r}
    /\ UNCHANGED << ledger, signed, decision, current >>

Finalize(r) ==
    /\ Resolved /\ r \in answered /\ decision[r] = "none"
    /\ current = Predecessor[r]
    /\ decision' = [decision EXCEPT ![r] = "finalize"] /\ current' = r
    /\ UNCHANGED << ledger, signed, answered >>

Abandon(r) ==
    /\ Resolved /\ r \in answered /\ decision[r] = "none"
    /\ decision' = [decision EXCEPT ![r] = "abandon"]
    /\ UNCHANGED << ledger, signed, answered, current >>

Next == \E r \in Requests : Sign(r) \/ Answer(r) \/ Finalize(r) \/ Abandon(r)

Spec == Init /\ [][Next]_ledger_vars
==============================================================================
