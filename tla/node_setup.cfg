SPECIFICATION FairSpec
CONSTANTS
    MaxMachines = 2
    FaultKinds = {"local", "api", "agent", "service"}
    MaxFaults = 1
INVARIANTS TypeOK ConfigRemoved RunsOwnMachine SetupInv
PROPERTIES NodeBootstraps NodeServes
CHECK_DEADLOCK FALSE
