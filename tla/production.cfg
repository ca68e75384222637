SPECIFICATION Spec
CHECK_DEADLOCK FALSE

CONSTANTS
    c1 = c1
    c2 = c2
    r1 = r1
    NoOne = NoOne
    Workflow = {c1, c2, r1}
    CI = {c1, c2}
    Candidate <- Commits
    Base = 1
    Bundle <- Bundles
    Runtime = {4}
    MaxFaults = 2
    MaxCrashes = 1
    MaxExpiries = 1

INVARIANTS
    TypeOK
    PriorRetained

PROPERTIES
    RuntimeNeverSkipped
    HolderOnly
    TruthfulEnd
    Publication
