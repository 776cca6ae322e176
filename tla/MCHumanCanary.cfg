SPECIFICATION Spec
CONSTANTS
    None = None
    Tree = {1, 2}
    Serial = {o1}
    Operator = {o1}
    MaxTime = 4
    Fee = {1}
    SnapshotMaxAge = 1
    MaxDials = 3
INVARIANTS
    OnePostPerTree
PROPERTIES
    LatchedForever
CHECK_DEADLOCK FALSE
