CONSTANTS
    Artifacts = {x1}
    Attempts = {a1}
    Keys = {k1}
    Execs = {e1, e2, e3}
    None = None
    MaxRetry = 1
    MaxFaults = 1
    FaultKinds = {"crash", "stall", "transient", "key"}
SPECIFICATION FairSpec
INVARIANTS
    IInv
PROPERTIES
    OnlyLeaseHolderDecides
    PublishingEnds
CHECK_DEADLOCK FALSE
