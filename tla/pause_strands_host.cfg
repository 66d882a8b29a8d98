SPECIFICATION FairSpec
CONSTANTS
    Kinds <- MCKinds
    Repo = "repo"
    Minor = 28
    FaultKinds = {"pause"}
    MaxFaults = 1
PROPERTY HostIsResumed
CHECK_DEADLOCK FALSE
