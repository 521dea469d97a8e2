SPECIFICATION Spec
CONSTANTS
    Branches = {b1, b2}
    Customers = {c1}
    Numbers = {1, 2, 3}
    DayLength = 3
    Timeout = 2
    Window = 1
    InitialStock = 2
    MaxOrders = 3
    MaxNow = 5
INVARIANTS
    LedgerMatchesStock
    
PROPERTIES
    NeverEarly
    NoDoubleOrder
CHECK_DEADLOCK FALSE
