CONSTANTS
    Machines = {m1}
    NoMachine = NoMachine
    Hosts = {h1}
    NoHost = NoHost
    MaxRetries = 2
    FaultKinds = {"api", "local", "reset", "agent", "reboot", "manager", "remediate", "delete", "cache", "list"}
    MaxFaults = 2
SPECIFICATION FairSpec
PROPERTY DeletionCompletes
CHECK_DEADLOCK FALSE
