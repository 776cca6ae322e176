SPECIFICATION Spec
CONSTANTS
    None = None
    StrictChoices = {TRUE, FALSE}
    Proc = {p1, p2}
    Req = {r1, r2, r3}
    Auth = {a1}
    Scope = {s1}
    LegacyStates = {"none"}
    MaxFaults = 1
    MaxCrashes = 1
SYMMETRY Symmetry
INVARIANTS
    TypeOK
    OneDefiniteAnswer
    OneGuardedOwner
PROPERTIES
    ImplementsPaidOnce
CHECK_DEADLOCK FALSE
