SPECIFICATION FleetSpec
CONSTANTS
    Hosts = {"h"}
    Instances = {"a"}
    HostOf <- TheHost
    Sessions = {}
    SessionOf <- NoSessionOf
    MaxJobs = 1
    Kinds = {"provision"}
    Revisions = {}
    NoRevision = "none"
    MaxSequence = 0
    LeaseTicks = 10
    MaxClaims = 2
    QueueMax = 2
    Workers = {w1, w2}
    HttpTimeout = 1
    RenewInterval = 2
    RetryDelay = 0
    DetachedLimit = 2
    RollbackLimit = 2
    MaxCrashes = 1
    w1 = w1
    w2 = w2
CHECK_DEADLOCK FALSE
SYMMETRY Loops
INVARIANT ExecutesUnderLease
INVARIANT OwnResultIsAnswered
