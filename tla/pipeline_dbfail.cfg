SPECIFICATION Spec
CONSTANTS
    Jobs = {j1, j2}
    u1 = u1
    Users <- MCUsers
    Owner <- MCOwner
    Requests = {r1}
    RequestKinds = {"cancel", "vary"}
    Sweeper = sweeper
    MaxConcurrency = 2
    GlobalMaxWorkers = 1
    MaxAttempts = 2
    MaxStops = 1
    DbMayFail = TRUE
SYMMETRY MCSymmetry
PROPERTIES
    ImplementsContract
CHECK_DEADLOCK FALSE
