CONSTANTS
    Machines = {m1,m2}
    NoMachine = NoMachine
    Hosts = {h1}
    NoHost = NoHost
    MaxRetries = 2
    FaultKinds = {}
    MaxFaults = 0
SYMMETRY Sym
SPECIFICATION Spec
INVARIANT ClaimKeepsReference
CHECK_DEADLOCK FALSE
