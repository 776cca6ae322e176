SPECIFICATION Spec
CONSTANTS
    None = None
    b1 = b1
    b2 = b2
    u1 = u1
    u2 = u2
    A = A
    B = B
    Url = {u1, u2}
    Payee = {A, B}
    Batch = {b1, b2}
    Target <- MCTarget
    Prior <- MCPrior
    PerUrlCap = 2
    ObsCap = 2
    GlobalCap = 3
    MaxTime = 2
    MaxHashed = 1
    MaxFaults = 1
SYMMETRY MCSymmetry
INVARIANTS
    UnpaidLeavesNoTrace
    NewestTrustedWins
    SealedOnlyLoses
PROPERTIES
    PayeeNeedsTwoPayments
CHECK_DEADLOCK FALSE
