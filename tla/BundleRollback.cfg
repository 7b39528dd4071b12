CONSTANTS
    Versions = {1}
    Clients = {c1, c2}
    Nobody = Nobody
    Torn = Torn
    NoBackup = NoBackup
    MaxCalls = 2
    MaxScripts = 0
    MaxLosses = 0
    LateRetry = TRUE
SYMMETRY ClientSymmetry
SPECIFICATION Spec
PROPERTIES
    NeverRemovesCurrent
CHECK_DEADLOCK FALSE
