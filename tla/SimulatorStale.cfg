\* Access migrations of the adaptive family: the capacity obtained for a
\* promotion is for the segment as it was before capacity was made.
SPECIFICATION Spec
CONSTANTS
    Hash = {1, 2, 3, 4, 5}
    Paths <- CrowdedPaths
    MemCapacity = 2
    Limit <- SmallTlc
    Family = "adaptive"
    Placements = {"SLC", "TLC"}
    AdmitHits = TRUE
    Drops = FALSE
    MemoryPolicy = "lru"
    Grains = {0}
    Period = 0
    IdleAges = {0}
    PromotionAges = {2}
    MaxClock = 2
    MaxTime = 2
    MaxRequests = 5
INVARIANTS
    WithinLimit
