SPECIFICATION FairSpec
CONSTANTS
    Managers = {w1, w2}
    Machines = {m1, m2}
    Hosts = {h1}
    TLSMachines = {m2}
    NoMachine = NoMachine
    NoHost = NoHost
    MaxRetries = 2
    FaultKinds = {"api", "crash"}
    MaxFaults = 1
PROPERTY FailedClaimIsRetried
CHECK_DEADLOCK FALSE
