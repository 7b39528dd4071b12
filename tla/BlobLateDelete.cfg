CONSTANTS
    Writers = {w1, w2}
    Cleaners = {c1, c2}
    None = None
    MaxFaults = 1
    FaultKinds = {"stall", "late"}
SYMMETRY RoleSymmetry
SPECIFICATION Spec
INVARIANTS
    ReferencedIsServable
CHECK_DEADLOCK FALSE
