SPECIFICATION FairSpec
CONSTANTS
    Keys = {k1, k2, k3}
    NoKey = NoKey
    UIDs = {u1, u2}
    NoUID = NoUID
    MaxCerts = 2
    FaultKinds = {"api", "agent", "torn", "moved", "deny", "delete"}
    MaxFaults = 0
PROPERTY DueIsRenewed
CHECK_DEADLOCK FALSE
