CONSTANTS
    Versions = {1, 2}
    Clients = {c1, c2}
    Nobody = Nobody
    Torn = Torn
    NoBackup = NoBackup
    MaxCalls = 2
    MaxScripts = 1
    MaxLosses = 1
    LateRetry = FALSE
SYMMETRY ClientSymmetry
SPECIFICATION Spec
INVARIANTS
    IInv
    CurrentIsWhole
    FailedScriptUndoes
    ProgramSurvives
    ReceiptsFit
PROPERTIES
    RollbackTakesOwnBack
CHECK_DEADLOCK FALSE
