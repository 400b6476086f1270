SPECIFICATION Spec
CONSTANTS
    valid1 = valid1
    valid2 = valid2
    bad = bad
    Bytes <- MCBytes
    ValidBytes <- MCValidBytes
    NoBytes = NoBytes
    Nil = Nil
    MaxRuns = 2
    MaxEdits = 2
    MaxCrashes = 1
SYMMETRY MCSymmetry
INVARIANTS
    TypeOK
    RefusedIsNotPublished
PROPERTIES
    NoInventoryLost
    ArchivedFirst
    ActiveStaysWhole
CHECK_DEADLOCK FALSE
