SPECIFICATION Spec
CONSTANTS
    Tabs = {t1, t2}
    Tokens = {a, b}
    ImpTokens = {i}
    NoToken = NoToken
    Ids = {1, 2}
    MaxClock = 2
    MaxChanges = 4
    MaxEvents = 2
    MaxRefresh = 1
    MaxSaving = 1
    MaxFaults = 1
    PageSize = 2
    MaxItems = 7
    FilterRows = {1, 2, 3}
    Statuses = {"ok", "fail"}
    MaxTime = 1
    MaxFilterSteps = 4
    ListRows = {1, 2, 3}
    PanelsPerPage = 2
    NJobs = 3
    MaxImages = 2
    MaxNodes = 3
    MaxLanes = 3
    Presses = {p1, p2}
    MaxRequests = 2
    MaxTexts = 2
    MaxChoices = 1
    MaxWaiting = 2
    MaxStorageFaults = 1
    Models = {"ma", "mb"}
    Preferred = "mb"
    MaxParam = 2
    MaxServerChanges = 1
    Fetches = {1}
    Typed = {0, 512, 1280, 3840, 3856}
    MaxCount = 4
    Decks = {"A", "B"}
    Count = 2
    MaxPickerMarks = 1
    MaxOpens = 2
    MaxTraffic = 3
    Batches = {1}
    MaxCardReads = 2
    MaxBatchEvents = 2
    DrawerBatches = {1, 2}
    MaxDrawerReads = 1
    MaxDrawerEvents = 0
    Sources = {1, 2}
    MaxMaskJobs = 1
    MaxMaskEdits = 2
    MaxMaskVisits = 1
    MaxPicks = 1
    MaxPickEdits = 1
    MaxAgainSteps = 3
    MaxAgainPicks = 0
    MaxSteps = 2
    MaxCanvasMarks = 3
    MaxResults = 2
    Values = {0, 1}
    MaxCalls = 3
    MaxElsewhere = 1
INVARIANTS
    ClientTypeOK
    SubmissionsSafe
    DraftsSafe
    CopiesAreExact
    ListsSafe
PROPERTIES
    GallerySteps
    WorkIsKept
    SessionSteps
CHECK_DEADLOCK FALSE
