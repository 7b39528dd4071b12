CONSTANTS
    t1 = t1
    t2 = t2
    k1 = k1
    shared = shared
    Keys <- MCKeys
    Classes = {"read", "mutation", "upload"}
    Rate <- MCRate
    Burst <- MCBurst
    UploadConcurrency = 1
    IdleTTL = 2
    Absent = Absent
    Tokens = {t1, t2}
    Accounts = {Root, other}
    Operators = {b1, b2}
    Root = Root
    NoToken = NoToken
    NoOne = NoOne
    Never = Never
    LongTTL = 9
    TouchAge = 1
    Requests = {r1, r2}
    InstallKeys = {k1}
    Shared = shared
    Loads <- MCLoads
SYMMETRY ThreadSymmetry
SPECIFICATION Spec
INVARIANTS
    IInv
    UploadsAreBounded
    RateIsKept
    DeadTokensAreShutOut
    AuditTellsTheTruth
    OneBootstrap
PROPERTIES
    TokensOnlyAge
CHECK_DEADLOCK FALSE
