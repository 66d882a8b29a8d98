SPECIFICATION Spec
CONSTANTS
    MaxMachines = 1
    FaultKinds = {}
    MaxFaults = 0
INVARIANT ResetStopsKubelet
CHECK_DEADLOCK FALSE
