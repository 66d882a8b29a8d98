SPECIFICATION FairSpec
CONSTANTS
    Managers = {w1, w2}
    Machines = {m1, m2}
    Hosts = {h1}
    TLSMachines = {m2}
    NoMachine = NoMachine
    NoHost = NoHost
    MaxRetries = 2
    FaultKinds = {"api", "crash"}
    MaxFaults = 2
INVARIANTS TypeOK ClaimIsExclusive LeaseInv
PROPERTIES LeaseRemovedByHolder AttachImplementsPool FreeHostIsClaimed
CHECK_DEADLOCK FALSE
