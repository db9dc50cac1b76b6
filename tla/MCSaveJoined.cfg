SPECIFICATION Spec
CONSTANTS
    Openings = {"new", "existing"}
    Events = {"overlap"}
    EditKinds = {"plain"}
    MaxChanges = 2
    MaxLosses = 0
    MaxLimits = 0
INVARIANTS
    NoSilentDesignLoss
CHECK_DEADLOCK FALSE
