SPECIFICATION LiveSpec

CONSTANTS
    o1 = o1
    o2 = o2
    l1 = l1
    l2 = l2
    NoOcc = NoOcc
    NoRun = NoRun
    Occ = {o1}
    Leaf = {l1, l2}
    RampStart <- RampNear
    WakeAt <- WakeNear
    HoldFor <- HoldTwo
    Full = 1
    Step = 1
    Catchup = 2
    RetryBudget = 2
    OtherOn = FALSE
    InitAlarms = {o1}
    TTL = 8
    Grace = 2
    Acts = {"leafOff", "room", "revoke"}
    MaxTime = 6
    MaxQueue = 4
    MaxUser = 1
    MaxLags = 0
    MaxFaults = 1
    MaxRestarts = 1

INVARIANTS
    RecoveryBounded
    StoredIsCurrent

PROPERTIES
    EpisodeEnds
