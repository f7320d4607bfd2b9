\* Wear-share policies with their indexes: every callback of every request.
SPECIFICATION IndexedSpec
CONSTANTS
    Hash = {1, 2, 3, 4, 5}
    Paths <- IndexedPaths
    MemCapacity = 2
    Limit <- IndexedLimit
    Family = "share"
    Placements = {"SLC", "TLC"}
    AdmitHits = TRUE
    Drops = TRUE
    MemoryPolicy = "lru"
    Grains = {0}
    Period = 0
    IdleAges = {0}
    PromotionAges = {0}
    MaxClock = 1
    MaxTime = 1
    MaxRequests = 4
    GroupCount = 2
    Groupings <- GroupingsDef
    SlcShare = 1
    WholeShare = 3
    Budget = 2
INVARIANTS
    MemoryIndexExact
    MemoryVictimIsScan
    StorageVictimIsScan
    ContextWithinBudget
