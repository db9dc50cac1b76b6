SPECIFICATION Spec
CONSTANTS
    Openings = {"existing"}
    Events = {"early"}
    EditKinds = {"plain"}
    MaxChanges = 1
    MaxLosses = 0
    MaxLimits = 0
INVARIANTS
    UntouchedStaysStored
CHECK_DEADLOCK FALSE
