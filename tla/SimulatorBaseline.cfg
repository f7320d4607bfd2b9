\* Baseline policies: SLC pressure moves a leaf to TLC, TLC pressure trims.
SPECIFICATION FairSpec
CONSTANTS
    Hash = {1, 2, 3, 4, 5}
    Paths <- DeepPaths
    MemCapacity = 2
    Limit <- SmallSlc
    Family = "baseline"
    Placements = {"SLC", "TLC"}
    AdmitHits = TRUE
    Drops = FALSE
    MemoryPolicy = "lru"
    Grains = {0}
    Period = 0
    IdleAges = {0}
    PromotionAges = {0}
    MaxClock = 1
    MaxTime = 1
    MaxRequests = 5
INVARIANTS
    PendingExact
    UsedIsStored
    WithinLimit
    MemoryBounded
    StackShape
    ProtectionInherited
PROPERTIES
    ShieldedSurvive
    CallsReturn
    ImplementsCache
