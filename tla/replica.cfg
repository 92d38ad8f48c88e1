SPECIFICATION Spec
CONSTANTS
    MaxAttempts = 2
    MaxRecovery = 1
    MaxDisturbances = 1
INVARIANTS
    TypeOK
    HeldHasCursor
    PushLetsGo
PROPERTIES
    ClosedLeaderIsDead
    RecoveryClockRuns
    HeldConnects
    RecoveryEnds
    LoserLeaves
    LossIsNoticed
    ShutdownEnds
CHECK_DEADLOCK FALSE
