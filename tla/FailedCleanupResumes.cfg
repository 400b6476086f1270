SPECIFICATION Spec
CONSTANT Plans <- MCPlans
INVARIANT FailedCleanupResumes
CHECK_DEADLOCK FALSE
