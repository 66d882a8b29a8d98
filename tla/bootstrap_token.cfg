SPECIFICATION FairSpec
CONSTANTS
    Tokens = {t1, t2, t3}
    NoToken = NoToken
    FaultKinds = {"api", "manager"}
    MaxFaults = 2
INVARIANTS TypeOK PublishedTokenExists
PROPERTY DataCatchesUp
CHECK_DEADLOCK FALSE
