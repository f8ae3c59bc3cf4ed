SPECIFICATION Spec
CONSTANTS
    Jobs = {"a", "c", "d"}
    Varied = {}
    Users = {"u", "v", "w"}
    Tier <- MCTier
    Owner <- MCOwner
    Weights <- MCOneWeight
    TopLane = 3
    Unit = 4
    MaxConcurrency = 1
    GlobalMaxWorkers = 2
    WindowSize = 4
    GuardFrom = 2
    ShareOf = 4
    NormalizeEvery = 3
    MaxPops = 8
    MaxRestarts = 0
    Promotes = FALSE
    DbMayFail = TRUE
INVARIANTS NoLaneStarves
CHECK_DEADLOCK FALSE
