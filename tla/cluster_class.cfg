SPECIFICATION Spec
CONSTANTS
    Kinds <- MCKinds
    Repo = "repo"
    Minor = 28
    FaultKinds = {}
    MaxFaults = 0
PROPERTY MachinesGoFirst
CHECK_DEADLOCK FALSE
