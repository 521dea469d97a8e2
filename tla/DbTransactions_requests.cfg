SPECIFICATION Spec
CONSTANTS
    Rows = {r1, r2, r3}
    MaxCalls = 3
INVARIANTS
    AcknowledgedIsDurable
    NothingLeftOpen
PROPERTIES
    RequestsAreAtomic
