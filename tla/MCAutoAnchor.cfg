SPECIFICATION LiveSpec
CONSTANTS
    None = None
    Tree = {2, 3}
    Serial = {0, 1}
    MaxTime = 4
    Fee = {2, 3}
    Controller = {c1}
    SnapshotMaxAge = 1
    ValidityWindow = 1
    HourLength = 1
    HourlyMax = 1
    FeeCap = 2
    FeeWindows <- Day
    Retention = 2
    MaxBadAnswers = 1
    MaxDeaths = 1
INVARIANTS
    TypeOK
    BudgetKept
    ConfirmedOnChain
PROPERTIES
    JobsEnd
CHECK_DEADLOCK FALSE
