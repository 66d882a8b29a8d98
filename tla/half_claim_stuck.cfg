CONSTANTS
    Machines = {m1}
    NoMachine = NoMachine
    Hosts = {h1}
    NoHost = NoHost
    MaxRetries = 2
    FaultKinds = {"api"}
    MaxFaults = 1
SPECIFICATION FairSpec
PROPERTY HalfClaimIsRetried
CHECK_DEADLOCK FALSE
