SPECIFICATION FairSpec
CONSTANTS
    Processes = {p1, p2}
    Profiles <- MCProfiles
    Descriptions <- MCDescriptions
    None = None
INVARIANTS
    TypeOK
    MutualExclusion
    BeliefIsTrue
PROPERTY LocksComeFree
