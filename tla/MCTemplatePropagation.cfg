SPECIFICATION FairSpec
CONSTANTS
    t1 = t1
    t2 = t2
    Templates <- MCOneTemplate
    Workers = {w1}
    TemplateOf <- MCTemplateOf
    NumRows = 3
    NumCopies = 1
    BatchSize = 2
    Overlap = FALSE
    MaxVersion = 3
    MaxOwn = 1
    MaxCrashes = 1
INVARIANTS
    PropagationTypeOK
    ProgressIsTrue
    NothingLeftBehind
PROPERTIES
    OwnWorkStays
    DesignArrives
    RunsEnd
CHECK_DEADLOCK FALSE
