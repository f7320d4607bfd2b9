\* Adaptive family: promotions after an access, idle trims and background moves
\* between requests.
SPECIFICATION FairSpec
CONSTANTS
    Hash = {1, 2, 3, 4, 5}
    Paths <- DeepPaths
    MemCapacity = 2
    Limit <- SmallTlc
    Family = "adaptive"
    Placements = {"SLC", "TLC"}
    AdmitHits = TRUE
    Drops = FALSE
    MemoryPolicy = "lru"
    Grains = {0}
    Period = 1
    IdleAges = {2}
    PromotionAges = {1}
    MaxClock = 3
    MaxTime = 3
    MaxRequests = 3
PROPERTIES
    CallsReturn
