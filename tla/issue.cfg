SPECIFICATION Spec

CONSTANTS
    Texts = {a, b}
    FirstText = a
    Commands = {"note", "retry", "retriage"}
    MaxOwner = 1
    MaxFaults = 1
    MaxRepairs = 0
    AutoRetryLimit = 1

INVARIANTS
    TypeOK
    OneLane
    RefreshIsFresh

PROPERTIES
    CloseIsEarned
    PausedIsQuiet
