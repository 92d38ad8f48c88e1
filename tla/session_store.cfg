SPECIFICATION Spec
CONSTANTS
    Replica = {a, b}
    None = None
    NoSession = NoSession
    MaxSession = 2
    MaxSequence = 3
    MaxWrites = 2
INVARIANTS
    TypeOK
    UnsavedHasTimer
    FlushedRowIsMirror
PROPERTIES
    ThrottleHolds
CHECK_DEADLOCK FALSE
