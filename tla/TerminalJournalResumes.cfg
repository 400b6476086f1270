SPECIFICATION Spec
CONSTANTS
    first = first
    rival = rival
    renewal = renewal
    Requests <- MCRequests
    NonceOf <- MCNonceOf
    OperationOf <- MCOperationOf
    CurrentOf <- MCCurrentOf
    Managed = FALSE
    InitialTrusts = {1}
    MaxTrust = 1
INVARIANT TerminalJournalResumes
CHECK_DEADLOCK FALSE
