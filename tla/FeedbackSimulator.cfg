\* Windows of two, ticks of three, a clock that ends at seven.
SPECIFICATION FeedbackSpec
CONSTANTS
    Hash = {1, 2, 3}
    Paths <- FeedbackPaths
    MemCapacity = 1
    Limit <- FeedbackLimit
    Family = "adaptive"
    Placements = {"SLC"}
    AdmitHits = TRUE
    Drops = FALSE
    MemoryPolicy = "lru"
    Grains = {0}
    Period = 3
    IdleAges = {2}
    PromotionAges = {2}
    MaxClock = 7
    MaxTime = 7
    MaxRequests = 4
    FeedbackPeriod = 2
    Ttl = 3
    MinReuse = 1
    WarmUp = 1
    Streak = 2
    StressStreak = 3
    MaxLevel = 4
INVARIANTS
    WindowsExact
    GhostsExact
PROPERTIES
    MultiplierEarned
