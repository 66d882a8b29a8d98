SPECIFICATION Spec
CONSTANTS
    Kinds <- MCKinds
    Repo = "repo"
    Minor = 28
    FaultKinds = {}
    MaxFaults = 0
INVARIANT ScriptsFitEveryMode
CHECK_DEADLOCK FALSE
