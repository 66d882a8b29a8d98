SPECIFICATION FairSpec
CONSTANTS
    Kinds <- MCKinds
    Repo = "repo"
    Minor = 28
    FaultKinds = {"pause"}
    MaxFaults = 1
PROPERTY InstallIsAskedFor
CHECK_DEADLOCK FALSE
