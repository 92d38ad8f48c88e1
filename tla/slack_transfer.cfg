SPECIFICATION AgentSpec
CONSTANTS
    Processes = {"p1", "p2"}
    Flows = {"f1", "f2"}
    Links = {"l1", "l2"}
    Clicks = {"k1"}
    Readers = {"q1", "q2"}
    Actors = {"f1", "f2", "k1", "q1", "q2"}
    Users = {"u1", "u2"}
    Accounts = {"a1", "a2"}
    MaxKeys = 3
    RecheckLimit = 2
    PurgeAttempts = 2
    Messages = {"m1", "m2", "m3"}
    Deliveries = {"d1", "d2", "d3"}
    Members = {"u1", "u2"}
    Presses = {"b1", "b2"}
    UserCap = 1
    TeamCap = 2
    Installs = {"i1", "i2"}
    Attempts = {"t1", "t2"}
    Slugs = {"s1", "s2"}
    Aliases = {"x"}
    Scenarios <- TransferScenarios
PROPERTIES PurgeSparesUpdated
CHECK_DEADLOCK FALSE
