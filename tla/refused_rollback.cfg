SPECIFICATION Spec
CHECK_DEADLOCK FALSE

CONSTANTS
    c1 = c1
    c2 = c2
    r1 = r1
    NoOne = NoOne
    Workflow = {c1}
    CI = {c1}
    Candidate <- Commits
    Base = 1
    Bundle <- Bundles
    Runtime = {4}
    MaxFaults = 1
    MaxCrashes = 0
    MaxExpiries = 0

INVARIANTS
    RollbackNotRefused
