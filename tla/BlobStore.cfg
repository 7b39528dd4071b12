CONSTANTS
    Writers = {w1, w2}
    Cleaners = {c1, c2}
    None = None
    MaxFaults = 2
    FaultKinds = {"crash", "stall", "error"}
SPECIFICATION FairSpec
INVARIANTS
    IInv
    ReferencedIsServable
PROPERTIES
    RemovedUnderTombstone
    NothingIsLeft
CHECK_DEADLOCK FALSE
