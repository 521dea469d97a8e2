SPECIFICATION Spec
CONSTANTS
    Branches = {b1}
    Customers = {c1}
    Numbers = {1, 2}
    DayLength = 4
    Timeout = 2
    Window = 1
    InitialStock = 2
    MaxOrders = 2
    MaxNow = 7
INVARIANTS
    OverdueIsTimedOut
CHECK_DEADLOCK FALSE
