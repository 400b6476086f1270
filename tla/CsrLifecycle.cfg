SPECIFICATION FairSpec
CONSTANTS
    first = first
    rival = rival
    renewal = renewal
    Requests <- MCRequests
    NonceOf <- MCNonceOf
    OperationOf <- MCOperationOf
    CurrentOf <- MCCurrentOf
    Managed = FALSE
    InitialTrusts = {0, 1}
    MaxTrust = 2
INVARIANTS
    TypeOK JournalParses DatabaseWhole PublishedOnlyIfCommitted KeyCopyAccountable
    RefusalsAreKnown OneJournal ActiveIsHead
    PendingUnderInstalledTrust
PROPERTIES
    CommitIrrevocable HistoryGrows ImplementsLedger
    SigningConverges FinalizationConverges
CHECK_DEADLOCK FALSE
