SPECIFICATION Spec
CONSTANTS
    Jobs = {j1, j2}
    u1 = u1
    Users <- MCUsers
    Owner <- MCOwner
    Requests = {r1, r2}
    RequestKinds = {"cancel", "delete"}
    Sweeper = sweeper
    MaxConcurrency = 1
    GlobalMaxWorkers = 2
    MaxAttempts = 2
    MaxStops = 1
    DbMayFail = FALSE
SYMMETRY MCSymmetry
INVARIANTS
    TypeOK
    QueuedIsTracked
    RunningIsOwned
    ConcurrencyRespected
    RefundedAtMostOnce
    SpentAtMostOnce
CHECK_DEADLOCK FALSE
