SPECIFICATION Spec
CONSTANTS
    MaxMachines = 1
    FaultKinds = {}
    MaxFaults = 0
INVARIANT InstalledMeansPresent
CHECK_DEADLOCK FALSE
