SPECIFICATION FairSpec
CONSTANTS
    Users = {"u"}
    Requests = {"r1", "r2"}
    UserOf <- MCUserOf
    Keys = {"k"}
    Key <- MCKey
    NoKey = NoKey
    Settlers = {"s"}
    Nobody = Nobody
    Sweeper = "sweeper"
    HardQuota = 2
    Capacity = 2
    MaxVaried = 1
    MaxDay = 1
INVARIANTS
    OvershootBounded
    CapacityBounded
    NeverOvercharged
PROPERTIES
    ResetSettles
