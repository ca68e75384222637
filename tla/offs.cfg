SPECIFICATION Spec

CONSTANTS
    o1 = o1
    o2 = o2
    l1 = l1
    l2 = l2
    NoOcc = NoOcc
    NoRun = NoRun
    Occ = {o1}
    Leaf = {l1, l2}
    RampStart <- RampNear
    WakeAt <- WakeLate
    HoldFor <- HoldOne
    Full = 2
    Step = 1
    Catchup = 2
    RetryBudget = 2
    OtherOn = FALSE
    InitAlarms = {o1}
    TTL = 8
    Grace = 2
    Acts = {"vacation", "room", "leafOff", "leafOn"}
    MaxTime = 5
    MaxQueue = 4
    MaxUser = 3
    MaxLags = 0
    MaxFaults = 0
    MaxRestarts = 0

INVARIANTS
    OffReleased
    RunCanAct

PROPERTIES
    NoRelight
    OffRespected
    SafeOffOwn
    NeverDims
