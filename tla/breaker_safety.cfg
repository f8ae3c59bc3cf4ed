SPECIFICATION FairSpec
CONSTANTS
    Workers = {w1, w2}
    Threshold = 2
    AdminOps = {"reset", "topup"}
    MaxRestarts = 1
    DbMayFail = TRUE
INVARIANTS
    RowFollowsMirror
    MirrorTrips
PROPERTIES
    OpensOnlyOnStreak
    OpenRecovers
