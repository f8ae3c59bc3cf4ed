SPECIFICATION Spec
CONSTANTS
    Jobs = {"a", "b", "c"}
    Varied = {"c"}
    Users = {"u", "v", "w"}
    Tier <- MCTier
    Owner <- MCOwner
    Weights <- MCWeights
    TopLane = 3
    Unit = 4
    MaxConcurrency = 1
    GlobalMaxWorkers = 2
    WindowSize = 4
    GuardFrom = 4
    ShareOf = 4
    NormalizeEvery = 3
    MaxPops = 3
    MaxRestarts = 1
    Promotes = TRUE
    DbMayFail = TRUE
INVARIANTS EachJobOnce OneTierUp
PROPERTIES PositionCountsDown NeverPushedBack
CHECK_DEADLOCK FALSE
