SPECIFICATION Spec
CONSTANTS
    MaxPoints = 2
    MaxPerInstance = 1
    MaxClaims = 2
    MaxCrashes = 1
    Kinds <- Both
INVARIANT StorageConsistent
INVARIANT SuccessHasBackup
INVARIANT RetentionHolds
CHECK_DEADLOCK FALSE
