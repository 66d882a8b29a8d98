SPECIFICATION FairSpec
CONSTANTS
    Keys = {k1, k2, k3}
    NoKey = NoKey
    UIDs = {u1, u2}
    NoUID = NoUID
    MaxCerts = 3
    FaultKinds = {"api", "agent", "torn", "moved", "deny", "delete"}
    MaxFaults = 2
INVARIANTS TypeOK ConfigUsable KeyInv
PROPERTIES DenialStands BootstrapCompletes RenewalCompletes
CHECK_DEADLOCK FALSE
