SPECIFICATION Spec
CONSTANTS
    Instances = {i1}
    Operations = {o1, o2}
    Responses = {"ok", "error"}
    Connectors = {"running"}
    MaxEdits = 1
    MaxFaults = 1
    MaxCrashes = 1
CONSTRAINT OneTrouble
SYMMETRY Symmetry
INVARIANT VerifiedIsServed
PROPERTY ForeignKept
CHECK_DEADLOCK FALSE
