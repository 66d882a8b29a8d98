SPECIFICATION FairSpec
CONSTANTS
    Kinds <- MCKinds
    Repo = "repo"
    Minor = 28
    FaultKinds = {"api", "manager", "pause"}
    MaxFaults = 2
INVARIANTS TypeOK SecretBeforeReference HandoverInv ScriptsFitHost
PROPERTIES ClusterWaitsForMachines InstallCompletes ReleaseCompletes
CHECK_DEADLOCK FALSE
