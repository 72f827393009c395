SPECIFICATION Spec
CONSTANTS
    Requests = {1, 2}
    Kinds = {"admin", "publishing", "full", "existing", "oauth", "disable"}
    MaxTokens = 3
    MaxFaults = 2
    MaxCrashes = 1
INVARIANTS  SavedIsActive AuthorizationKept
CHECK_DEADLOCK FALSE
