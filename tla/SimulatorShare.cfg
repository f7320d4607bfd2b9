\* Wear-share storage under the context memory policy, which bypasses storage
\* hits, may drop a victim and may take only the deepest blocks of it.
SPECIFICATION Spec
CONSTANTS
    Hash = {1, 2, 3, 4, 5}
    Paths <- DeepPaths
    MemCapacity = 2
    Limit <- SmallSlc
    Family = "share"
    Placements = {"SLC", "TLC"}
    AdmitHits = FALSE
    Drops = TRUE
    MemoryPolicy = "context"
    Grains = {1, 2}
    Period = 0
    IdleAges = {0}
    PromotionAges = {0}
    MaxClock = 1
    MaxTime = 1
    MaxRequests = 5
INVARIANTS
    TreeExact
    RecencyMirrorsMemory
    EndpointsLive
