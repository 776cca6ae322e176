SPECIFICATION LiveSpec
CONSTANTS
    Conn = {1, 2, 3}
    Client = {a, b, c}
    Kind = {"route", "mcp_route", "page"}
    MaxHandlers = 1
    MaxKeys = 2
    Cap <- RouteOnly
    Window = 2
    Patience = 2
    Pieces = 2
INVARIANTS
    SlotsConserved
    WindowKept
PROPERTIES
    LiveForgottenOnlyWhenFull
    SlotComesBack
CHECK_DEADLOCK FALSE
