SPECIFICATION Spec
CONSTANTS
    MaxAttempts = 2
    MaxRecovery = 1
    MaxDisturbances = 0
INVARIANTS
    GracefulIsStandby
CHECK_DEADLOCK FALSE
