SPECIFICATION Spec
CONSTANTS
    Replica = {a, b}
    None = None
    NoSession = NoSession
    MaxSession = 2
    MaxSequence = 2
    MaxWrites = 2
PROPERTIES
    FlushKeepsLatest
CHECK_DEADLOCK FALSE
