CONSTANTS
    Artifacts = {x1}
    Attempts = {a1}
    Keys = {k1}
    Execs = {e1, e2, e3}
    None = None
    MaxRetry = 1
    MaxFaults = 1
    FaultKinds = {"stall", "retention"}
SYMMETRY ExecSymmetry
SPECIFICATION Spec
INVARIANTS
    RecordedOutputsDurable
    HolderFindsItsStaging
PROPERTIES
    PublishedIsFinal
    ImplementsLifecycle
CHECK_DEADLOCK FALSE
