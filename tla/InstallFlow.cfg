CONSTANTS
    Versions <- MCVersions
    Channels = {stable}
    Stable = stable
    Promoters = {p1, p2}
    None = None
    MaxPromotions = 3
    MaxKeys = 3
    Builds = {b1}
    Hosts = {h1}
    Samples <- SampleVersions
SYMMETRY RoleSymmetry
SPECIFICATION FlowSpec
INVARIANTS
    FlowIInv
    OffersWereStable
    InstalledIsSigned
    OnlyOldKeysAreTurnedAway
    UpdatesAreNewer
    ComparisonIsSemVer
CHECK_DEADLOCK FALSE
