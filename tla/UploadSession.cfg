CONSTANTS
    Uploads = {u1}
    Cleaners = {c1, c2}
    Deploy = Deploy
    None = None
    MaxFaults = 2
    FaultKinds = {"stall", "error", "commit"}
SPECIFICATION FairSpec
INVARIANTS
    IInv
PROPERTIES
    DeadlineProtectsStaging
    ImplementsImmutablePath
    UploadsAreCleanedUp
CHECK_DEADLOCK FALSE
