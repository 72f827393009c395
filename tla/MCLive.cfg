SPECIFICATION FairSpec
CONSTANTS
    Hosts = {h1}
    Instances = {a}
    HostOf <- OneHost
    Sessions = {s1}
    SessionOf <- SessionsOnA
    MaxJobs = 4
    Kinds <- LiveKinds
    Revisions = {}
    NoRevision = norev
    MaxSequence = 0
    LeaseTicks = 1
    MaxClaims = 2
    QueueMax = 100
    h1 = h1
    h2 = h2
    a = a
    b = b
    s1 = s1
    s2 = s2
    r1 = r1
    r2 = r2
CHECK_DEADLOCK FALSE
PROPERTY JobsEnd
