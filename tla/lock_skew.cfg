SPECIFICATION Spec
CONSTANTS
    a = a
    b = b
    Instance = {a, b}
    NoRow = NoRow
    None = None
    TTL = 2
    Skew <- FastPeer
    MaxClock = 4
    MaxVersion = 3
INVARIANTS
    SkewedPeerCannotTake
CHECK_DEADLOCK FALSE
