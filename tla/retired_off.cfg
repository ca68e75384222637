SPECIFICATION Spec

CONSTANTS
    o1 = o1
    o2 = o2
    l1 = l1
    l2 = l2
    NoOcc = NoOcc
    NoRun = NoRun
    Occ = {o1, o2}
    Leaf = {l1}
    RampStart <- RampApart
    WakeAt <- WakeApart
    HoldFor <- HoldOne
    Full = 1
    Step = 1
    Catchup = 2
    RetryBudget = 2
    OtherOn = FALSE
    InitAlarms = {o1, o2}
    TTL = 8
    Grace = 2
    Acts = {"leafOff"}
    MaxTime = 7
    MaxQueue = 4
    MaxUser = 1
    MaxLags = 1
    MaxFaults = 0
    MaxRestarts = 0

PROPERTIES
    RetiredOffSparesLaterRun
