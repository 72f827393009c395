SPECIFICATION Spec
CONSTANTS
    Targets <- Two
    Controls <- EveryControl
    MaxControls = 3
    MaxFailures = 1
    Restarts = TRUE
    Recovers = TRUE
INVARIANT SuccessIsComplete
PROPERTY CanceledStartsNothing
PROPERTY CanaryFirst
CHECK_DEADLOCK FALSE
