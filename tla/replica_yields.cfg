SPECIFICATION Spec
CONSTANTS
    MaxAttempts = 2
    MaxRecovery = 1
    MaxDisturbances = 3
PROPERTIES
    WatchdogYields
CHECK_DEADLOCK FALSE
