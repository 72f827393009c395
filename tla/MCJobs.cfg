SPECIFICATION Spec
CONSTANTS
    Hosts = {h1}
    Instances = {a}
    HostOf <- OneHost
    Sessions = {s1}
    SessionOf <- SessionsOnA
    MaxJobs = 4
    Kinds <- AllKinds
    Revisions = {r1, r2}
    NoRevision = norev
    MaxSequence = 1
    LeaseTicks = 1
    MaxClaims = 2
    QueueMax = 2
    h1 = h1
    h2 = h2
    a = a
    b = b
    s1 = s1
    s2 = s2
    r1 = r1
    r2 = r2
CONSTRAINT OneMix
CHECK_DEADLOCK FALSE
INVARIANT TypeOK
INVARIANT OneExclusiveJob
INVARIANT LifecycleFence
INVARIANT ChatLifecycleExclusion
INVARIANT SessionInOrder
INVARIANT OperationAgrees
INVARIANT StreamEndsOnce
INVARIANT ConfigurationAgrees
INVARIANT LimitsHold
PROPERTY TerminalIsFinal
PROPERTY OwnedStatusReleasedByOwner
