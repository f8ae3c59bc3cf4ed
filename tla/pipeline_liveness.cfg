SPECIFICATION FairSpec
CONSTANTS
    Jobs = {j1, j2}
    u1 = u1
    Users <- MCUsers
    Owner <- MCOwner
    Requests = {r1}
    RequestKinds = {"cancel", "bulk"}
    Sweeper = sweeper
    MaxConcurrency = 1
    GlobalMaxWorkers = 2
    MaxAttempts = 1
    MaxStops = 1
    DbMayFail = FALSE
PROPERTIES
    AcceptedJobsSettle
CHECK_DEADLOCK FALSE
