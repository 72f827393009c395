SPECIFICATION FleetSpec
CONSTANTS
    Hosts = {"h"}
    Instances = {"a"}
    HostOf <- TheHost
    Sessions = {}
    SessionOf <- NoSessionOf
    MaxJobs = 2
    Kinds = {"provision", "hermes.update", "mcp.configure"}
    Revisions = {"r"}
    NoRevision = "none"
    MaxSequence = 0
    LeaseTicks = 5
    MaxClaims = 2
    QueueMax = 2
    Workers = {w1, w2}
    HttpTimeout = 0
    RenewInterval = 3
    RetryDelay = 2
    DetachedLimit = 0
    RollbackLimit = 3
    MaxCrashes = 0
    w1 = w1
    w2 = w2
CHECK_DEADLOCK FALSE
SYMMETRY Loops
PROPERTY ExecutionIsExclusive
