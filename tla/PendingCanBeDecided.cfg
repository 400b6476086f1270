SPECIFICATION Spec
CONSTANTS
    first = first
    rival = rival
    renewal = renewal
    Requests <- MCRequests
    NonceOf <- RivalNonceOf
    OperationOf <- MCOperationOf
    CurrentOf <- MCCurrentOf
    Managed = FALSE
    InitialTrusts = {1}
    MaxTrust = 1
INVARIANT PendingCanBeDecided
CHECK_DEADLOCK FALSE
