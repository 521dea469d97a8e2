SPECIFICATION Spec
CONSTANTS
    flour = flour
    egg = egg
    p1 = p1
    Items = {flour, egg}
    Needs <- Recipe
    Weighable = {flour}
    Purchases = {p1}
    Ordered <- Lines
    Parcels <- Loads
    Found <- Left
    Postings = {g1, g2}
    Batches = {b1, b2}
    Keys = {k1, k2}
    Trips = {t1}
    Sales = {s1, s2}
    Counts = {c1}
    Opening = 1
SYMMETRY Names
INVARIANTS
    TypeOK
    ReceiptsFitTheOrder
    StockIsExplained
    SoldOnce
CHECK_DEADLOCK FALSE
