SPECIFICATION Spec
CONSTANTS
    a = a
    b = b
    Instance = {a, b}
    NoRow = NoRow
    None = None
    TTL = 2
    Skew <- OneAhead
    MaxClock = 4
    MaxVersion = 3
INVARIANTS
    TypeOK
    ConfirmedLeaseIsOwned
PROPERTIES
    ImplementsLease
CHECK_DEADLOCK FALSE
