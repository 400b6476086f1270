SPECIFICATION FairSpec
CONSTANTS
    MaxFailures = 3
    MaxCreations = 3
    MaxMigrations = 2
    MaxPreparations = 2
    Services <- MCServices
    QuarantineNames <- MCQuarantine
    DatabaseKeys <- MCDatabaseKeys
    Created <- MCCreated
    Kept <- MCKept
INVARIANTS
    TypeOK AdmittedIsWhole ManifestsNameWhole RecoveryStaysOpen
PROPERTIES
    ImplementsLayout RolloverResolves
CHECK_DEADLOCK FALSE
