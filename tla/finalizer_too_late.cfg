CONSTANTS
    Machines = {m1}
    NoMachine = NoMachine
    Hosts = {h1}
    NoHost = NoHost
    MaxRetries = 2
    FaultKinds = {}
    MaxFaults = 0
SYMMETRY Sym
SPECIFICATION Spec
INVARIANT ReleasedBeforeRemoval
CHECK_DEADLOCK FALSE
