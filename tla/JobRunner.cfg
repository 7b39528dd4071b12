CONSTANTS
    KindCount = 2
    Workers = {w1, w2}
    Reliable = {w2}
    None = None
    MaxAttempts = 2
    MaxFaults = 1
SPECIFICATION FairSpec
INVARIANTS
    IInv
PROPERTIES
    LeaseIsRespected
    EveryKindKeepsRunning
