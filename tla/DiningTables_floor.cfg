SPECIFICATION Spec
CONSTANTS
    Tables = {t1, t2}
    NoTable = NoTable
    Customers = {x, y}
    NoPhone = NoPhone
    AppOrders = {a1}
    CashierOrders = {c1}
    MaxSessions = 2
    MaxOverrides = 1
INVARIANTS
    TableHasOneOwner
    HoldGuaranteesTable
    OwedSessionStaysOpen
    SessionsAreTheGuests
SYMMETRY Symmetry
CHECK_DEADLOCK FALSE
