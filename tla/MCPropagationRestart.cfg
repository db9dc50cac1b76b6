SPECIFICATION Spec
CONSTANTS
    t1 = t1
    t2 = t2
    Templates <- MCTemplates
    Workers = {w1, w2}
    TemplateOf <- MCTemplateOf
    NumRows = 3
    NumCopies = 0
    BatchSize = 2
    Overlap = TRUE
    MaxVersion = 3
    MaxOwn = 0
    MaxCrashes = 0
INVARIANTS
    NewUpdateRestarts
CHECK_DEADLOCK FALSE
