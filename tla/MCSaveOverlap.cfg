SPECIFICATION Spec
CONSTANTS
    Openings = {"new", "existing", "gone", "unusable"}
    Events = {"early", "loadError", "overlap", "assets", "loss", "straggler", "refuse", "limit", "detach"}
    EditKinds = {"empty", "plain", "unclean"}
    MaxChanges = 2
    MaxLosses = 1
    MaxLimits = 1
INVARIANTS
    SaveEngineTypeOK
    OneSaveAtATime
    NoDuplicateRows
PROPERTY
    EditsStayOnScreen
CHECK_DEADLOCK FALSE
