\* Three workers, three groups, two of them sampled; every interleaving of two
\* decisions and a shutdown, spurious wake-ups included.
SPECIFICATION Spec
CONSTANTS
    Workers = 3
    Groups = 3
    SampledGroups = 2
    Bests <- BestsDef
    MaxDecisions = 2
INVARIANTS
    SearchIsolated
    NoLostWakeup
    VictimExact
PROPERTIES
    RoundsReturn
