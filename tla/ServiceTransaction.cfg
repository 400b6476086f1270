SPECIFICATION FairSpec
CONSTANT Plans <- MCPlans
INVARIANTS
    TypeOK
    JournalLegal
    AtomicOutcome
    OriginalRetained
    OneMutationAhead
    NestingRespected
    RefusalsAreKnown
PROPERTIES
    CommitIrrevocable
    RollbackOneWay
    AtomicServiceSpec
    Converges
CHECK_DEADLOCK FALSE
