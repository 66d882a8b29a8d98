CONSTANTS
    Machines = {m1, m2}
    NoMachine = NoMachine
    Hosts = {h1}
    NoHost = NoHost
    MaxRetries = 2
    FaultKinds = {"cache", "list"}
    MaxFaults = 2
SPECIFICATION Spec
INVARIANT FreeAtClaim
CHECK_DEADLOCK FALSE
