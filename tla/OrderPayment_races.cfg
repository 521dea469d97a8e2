SPECIFICATION Spec
CONSTANTS
    od = od
    tk = tk
    Orders <- BothOrders
    Pickup = {tk}
    WithPromo = {od, tk}
    Referred = {}
    InitialStock = 1
    PromoLimit = 1
    MaxTries <- OneRetry
INVARIANTS
    TypeOK
    StockConserved
    AcceptedIsDeducted
    SettledIsNotDropped
PROPERTIES
    PaymentNeverAccepts
    KeepsPromise
CHECK_DEADLOCK FALSE
