SPECIFICATION Spec
CONSTANTS
    Handlers = {p1, p2}
    MaxReports = 4
    MaxArrivals = 4
    MaxEdits = 1
    Checks = {"UNSAFE", "DRIFT"}
    AttemptsPerPhase = 1
    MaxPhases = 2
    DriftThreshold = 2
    RetryDelay = 1
    Cooldown = 2
    p1 = p1
    p2 = p2
CHECK_DEADLOCK FALSE
SYMMETRY Requests
INVARIANT LedgerAgrees
INVARIANT QueuedHasRepair
PROPERTY CancelHolds
