CONSTANTS
    Machines = {m1}
    NoMachine = NoMachine
    Hosts = {h1}
    NoHost = NoHost
    MaxRetries = 2
    FaultKinds = {"reset"}
    MaxFaults = 1
SYMMETRY Sym
SPECIFICATION Spec
INVARIANT ResetIsRetried
CHECK_DEADLOCK FALSE
