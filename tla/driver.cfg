SPECIFICATION Spec
CHECK_DEADLOCK FALSE

CONSTANTS
    Production = TRUE
    MaxFaults = 2
    MaxCrashes = 2
    MaxOthers = 2

INVARIANTS
    WriteAhead
    BuiltAsAuthorized
    CleanEnd
    RejectedIsWithdrawn

PROPERTIES
    Outcome
