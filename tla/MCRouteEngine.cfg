\* Tranches of two and one, three candidates, ceilings of two and three.
CONSTANTS
    u1 = u1
    u2 = u2
    u3 = u3
    none = none
    None = none
    WeakMin = 3
    Mature = 10
    Rail = {"base", "solana", "algo"}
    Finality <- MCFinality
    ComparedCap = 2
    Url = {u1, u2, u3}
    Page <- MCPage
    Seller <- MCSeller
    Request <- MCRequest
    FirstTranche = 2
    ExpandTranche = 1
    CloseScore = 20
    HeadLength = 3
SPECIFICATION RouteSpec
INVARIANTS
    ServedFits
    CheapestServed
    MissIsTrue
    NoLeapfrog
