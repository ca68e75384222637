SPECIFICATION Spec

CONSTANTS
    o1 = o1
    o2 = o2
    l1 = l1
    l2 = l2
    NoOcc = NoOcc
    NoRun = NoRun
    Occ = {o1, o2}
    Leaf = {l1}
    RampStart <- RampNear
    WakeAt <- WakeNear
    HoldFor <- HoldLong
    Full = 1
    Step = 1
    Catchup = 2
    RetryBudget = 2
    OtherOn = FALSE
    InitAlarms = {o1}
    TTL = 5
    Grace = 2
    Acts = {"end", "dismiss", "add", "delete"}
    MaxTime = 7
    MaxQueue = 4
    MaxUser = 2
    MaxLags = 1
    MaxFaults = 1
    MaxRestarts = 0

INVARIANTS
    TypeOK
    NoOrphanLease
    NoMissedStart
    HoldWithinLease

PROPERTIES
    EndedStaysOver
