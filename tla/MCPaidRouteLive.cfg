SPECIFICATION LiveSpec
CONSTANTS
    None = None
    StrictChoices = {TRUE}
    Proc = {p1, p2}
    Req = {r1, r2}
    Auth = {a1}
    Scope = {s1, s2}
    LegacyStates = {"none", "open", "done"}
    MaxFaults = 1
    MaxCrashes = 1
INVARIANTS
    SettledAtMostOnce
    OutcomeStaysInScope
CHECK_DEADLOCK FALSE
PROPERTIES EveryRequestAnswered
