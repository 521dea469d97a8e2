SPECIFICATION Spec
CONSTANTS
    Sales = {s1, s2}
    Runs = {r1, r2}
    InitialStock = 1
    MaxTerminals = 2
    MaxShifts = 1
    MaxCrashes = 1
    HandSettling = TRUE
INVARIANTS
    SyncedIsCounted
    MoneyIsCountedOrWaiting
PROPERTIES
    SalesTakeEffectOnce
SYMMETRY Symmetry
CHECK_DEADLOCK FALSE
