CONSTANTS
    Machines = {m1, m2}
    NoMachine = NoMachine
    Hosts = {h1}
    NoHost = NoHost
    MaxRetries = 2
    FaultKinds = {"api", "local", "agent", "reboot", "manager", "remediate", "cache"}
    MaxFaults = 1
SYMMETRY Sym
SPECIFICATION Spec
INVARIANTS TypeOK OneOwner PoolIsClean ClaimInv ReleasedBeforeGone
PROPERTY ImplementsPool
CHECK_DEADLOCK FALSE
