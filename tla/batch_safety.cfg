SPECIFICATION Spec
CONSTANTS
    Jobs = {j1, j2, j3}
    Total = 2
    Clients = {c1}
    MaxCrashes = 1
    DbMayFail = TRUE
SYMMETRY MCSymmetry
INVARIANTS
    SlotsMatchJobs
    CountsAreExact
    OutcomeIsTruthful
CHECK_DEADLOCK FALSE
