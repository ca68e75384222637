SPECIFICATION FairSpec

CONSTANTS
    Texts = {a, b}
    FirstText = a
    Commands = {"note", "retriage"}
    MaxOwner = 1
    MaxFaults = 0
    MaxRepairs = 1
    AutoRetryLimit = 0

PROPERTIES
    InputHandled
