SPECIFICATION Spec
CONSTANTS
    Sales = {s1, s2}
    Runs = {r1, r2}
    InitialStock = 2
    MaxTerminals = 2
    MaxShifts = 2
    MaxCrashes = 1
    HandSettling = FALSE
INVARIANTS
    CashCountedOncePerSale
CHECK_DEADLOCK FALSE
