SPECIFICATION FairSpec
CONSTANTS
    Openings = {"new", "existing", "gone"}
    Events = {"loss", "refuse", "limit", "detach"}
    EditKinds = {"empty", "plain", "unclean"}
    MaxChanges = 2
    MaxLosses = 1
    MaxLimits = 1
INVARIANTS
    NoSilentLoss
    ScreenShowsRow
PROPERTIES
    EveryEditSettles
    AutosaveRests
CHECK_DEADLOCK FALSE
