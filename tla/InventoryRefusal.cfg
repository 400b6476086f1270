SPECIFICATION Spec
CONSTANTS
    valid1 = valid1
    valid2 = valid2
    bad = bad
    Bytes <- MCBytes
    ValidBytes <- MCValidBytes
    NoBytes = NoBytes
    Nil = Nil
    MaxRuns = 2
    MaxEdits = 1
    MaxCrashes = 0
INVARIANTS
    RefusalLeavesNothing
CHECK_DEADLOCK FALSE
