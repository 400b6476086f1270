SPECIFICATION Spec
CONSTANTS
    MaxFailures = 2
    MaxCreations = 2
    MaxMigrations = 1
    MaxPreparations = 1
    Services <- MCServices
    QuarantineNames <- MCQuarantine
    DatabaseKeys <- MCDatabaseKeys
    Created <- MCCreated
    Kept <- MCKept
INVARIANT ResumedCleanupIsHistory
CHECK_DEADLOCK FALSE
