SPECIFICATION FairSpec
CONSTANTS
    od = od
    tk = tk
    Orders = {tk}
    Pickup = {tk}
    WithPromo = {tk}
    Referred = {tk}
    InitialStock = 1
    PromoLimit = 1
    MaxTries <- TwoRetries
PROPERTIES
    UncancelledReconciles
    AwaitingEnds
    PaidFailureIsRecovered
CHECK_DEADLOCK FALSE
