SPECIFICATION Spec
CONSTANTS
    Handlers = {p1, p2}
    MaxReports = 6
    MaxArrivals = 6
    MaxEdits = 0
    Checks = {"DRIFT"}
    AttemptsPerPhase = 1
    MaxPhases = 2
    DriftThreshold = 2
    RetryDelay = 1
    Cooldown = 2
    p1 = p1
    p2 = p2
CHECK_DEADLOCK FALSE
SYMMETRY Requests
INVARIANT RepairsBounded
