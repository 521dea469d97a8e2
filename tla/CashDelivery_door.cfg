SPECIFICATION Spec
SYMMETRY Symmetry
CONSTANTS
    Orders = {o1, o2}
    Drivers = {d1, d2}
    NoAccount = NoAccount
    Cashiers = {c1, c2}
    Manager = Manager
    MaxShifts = 3
INVARIANTS
    OnTheRoadIsAccepted
    JobFollowsOrder
    CashIsAccounted
PROPERTIES
    ClosedShiftIsFrozen
CHECK_DEADLOCK FALSE
