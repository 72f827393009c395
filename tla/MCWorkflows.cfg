SPECIFICATION Spec
CONSTANTS
    MaxClaims = 3
    MaxFrames = 2
    MaxOutputs = 1
    MaxJobs = 2
    RestoreFaultSets <- RestoreFaults
    ConfigurationFaultSets <- ConfigurationFaults
INVARIANT SuccessIsTrue
INVARIANT NothingLost
INVARIANT RunsOnItsFiles
INVARIANT RestoreRunsWhole
INVARIANT ConfigurationRestored
INVARIANT StoppedStays
INVARIANT FirstFailureIsTrue
PROPERTY JobsEnd
CHECK_DEADLOCK FALSE
