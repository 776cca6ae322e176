SPECIFICATION Spec
CONSTANTS
    None = None
    Tree = {2}
    Serial = {0, 1}
    MaxTime = 4
    Fee = {1}
    Controller = {c1, c2}
    SnapshotMaxAge = 1
    ValidityWindow = 1
    HourLength = 1
    HourlyMax = 1
    FeeCap = 1
    FeeWindows <- Hour
    Retention = 1
    MaxBadAnswers = 0
    MaxDeaths = 1
SYMMETRY Symmetry
INVARIANTS
    OnePostPerTree
CHECK_DEADLOCK FALSE
