SPECIFICATION Spec
CONSTANTS
    od = od
    tk = tk
    Orders <- BothOrders
    Pickup = {tk}
    WithPromo = {od, tk}
    Referred = {od}
    InitialStock = 2
    PromoLimit = 1
    MaxTries <- OneRetry
INVARIANTS
    ClaimLimit
    ClaimIffAccepted
    CommissionFollowsOrder
CHECK_DEADLOCK FALSE
