SPECIFICATION FairSpec
CONSTANTS
    Jobs = {j1, j2}
    Total = 2
    Clients = {c1}
    MaxCrashes = 0
    DbMayFail = FALSE
PROPERTIES
    NoBatchSubmitsForever
    SubmittedBatchFinalizes
CHECK_DEADLOCK FALSE
