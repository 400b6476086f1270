SPECIFICATION Spec
CONSTANTS
    first = first
    rival = rival
    renewal = renewal
    Requests <- MCRequests
    NonceOf <- MCNonceOf
    OperationOf <- MCOperationOf
    CurrentOf <- MCCurrentOf
    Managed = FALSE
    InitialTrusts = {0}
    MaxTrust = 1
INVARIANT InitialTrustInstalls
CHECK_DEADLOCK FALSE
