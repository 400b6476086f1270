---------------------------- MODULE MCCsrLifecycle ----------------------------
(* A service with a first request, a rival that carries the same nonce (or,   *)
(* in RivalNonceOf, one of its own), and a renewal of the first.             *)
EXTENDS CsrLifecycle

CONSTANTS first, rival, renewal

MCRequests == {first, rival, renewal}
MCNonceOf == [r \in MCRequests |-> IF r = renewal THEN "n2" ELSE "n1"]
RivalNonceOf == [r \in MCRequests |-> CASE r = first -> "n1" [] r = rival -> "n2"
                                       [] r = renewal -> "n3"]
MCOperationOf == [r \in MCRequests |-> IF r = renewal THEN "renew" ELSE "issue"]
MCCurrentOf == [r \in MCRequests |-> IF r = renewal THEN first ELSE "nobody"]
==============================================================================
