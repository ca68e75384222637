SPECIFICATION Spec

CONSTANTS
    Texts = {a, b}
    FirstText = a
    Commands = {"note"}
    MaxOwner = 2
    MaxFaults = 0
    MaxRepairs = 1
    AutoRetryLimit = 0

PROPERTIES
    FollowedInTheOpen
