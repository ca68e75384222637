SPECIFICATION FairSpec
CHECK_DEADLOCK FALSE

CONSTANTS
    NoRun = NoRun
    Runs = {deploy, smoke}
    Production = {deploy}
    Built = {deploy}
    MaxFaults = 1
    MaxCrashes = 1

INVARIANTS
    TrustFollowsBinding
    NothingForgotten

PROPERTIES
    RecoverySparesJob
    OperationEnds
