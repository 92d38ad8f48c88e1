SPECIFICATION Spec
CONSTANTS
    Resources = {"r1", "r2"}
    Targets = {"t1", "t2"}
    MaxEpoch = 3
    Commands = {"c1", "c2"}
    Scenarios <- MCScenarios
INVARIANTS TypeOK RowFollowsCloud NothingForgotten
PROPERTIES TargetFence ImplementsRegistry EnsuredIsServed WithdrawnWhenTold
CHECK_DEADLOCK FALSE
