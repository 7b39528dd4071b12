CONSTANTS
    Artifacts = {x1}
    Attempts = {a1}
    Keys = {}
    Execs = {e1, e2, e3}
    None = None
    MaxRetry = 2
    MaxFaults = 0
    FaultKinds = {"transient"}
SPECIFICATION Spec
INVARIANTS
    TransientFailuresAreRetried
CHECK_DEADLOCK FALSE
