CONSTANTS
    Machines = {m1}
    NoMachine = NoMachine
    Hosts = {h1}
    NoHost = NoHost
    MaxRetries = 2
    FaultKinds = {"cache"}
    MaxFaults = 1
SPECIFICATION Spec
INVARIANT DeletionSeesClaims
CHECK_DEADLOCK FALSE
