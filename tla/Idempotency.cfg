CONSTANTS
    Requests = {r1, r2, r3}
    Keys = {k1}
    Bodies = {b1, b2}
    None = None
    NoRecord = NoRecord
SPECIFICATION FairSpec
INVARIANTS
    IInv
PROPERTIES
    ImplementsOncePerKey
    RequestsEnd
