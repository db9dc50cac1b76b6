SPECIFICATION Spec
CONSTANTS
    Docs = {d1, d2, d3}
    Keys = {k1, k2}
    NoBurst = NoBurst
    MaxDepth = 3
INVARIANTS
    HistoryTypeOK
    HistoryBounded
    BurstIsSound
    StepsAreSaved
PROPERTY
    ImplementsTimeline
