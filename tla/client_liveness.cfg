SPECIFICATION LiveSpec
CONSTANTS
    Slots = {1, 2}
    MaxEvents = 3
    QueueMax = 2
    WireMax = 1
    MaxPerUser = 1
    LostAfter = 1
    MaxFaults = 1
    PoolWorkers = {w1, w2}
    TaskCount = 3
    MaxRefusals = 2
    Panes = {1, 2}
    Keys = {"a", "b"}
    FetchSlots = 1
    Capacity = 1
    MaxFetches = 3
    MaxVisits = 1
    MaxSlots = 2
    PoolSize = 2
    MaxAsks = 2
    MaxEdits = 1
    MaxEditorVisits = 2
    MaxStreamEvents = 2
INVARIANTS
    OneStream
    CaughtUpHasAll
    RequestsSafe
PROPERTIES
    RetryEnds
    StallIsNoticed
    RequestsEnd
CHECK_DEADLOCK FALSE
