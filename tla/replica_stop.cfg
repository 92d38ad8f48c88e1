SPECIFICATION Spec
CONSTANTS
    MaxAttempts = 2
    MaxRecovery = 1
    MaxDisturbances = 2
INVARIANTS
    StoppedWatchdogStays
CHECK_DEADLOCK FALSE
