\* Six sources, three configurations, every interleaving of the two threads.
SPECIFICATION Spec
CONSTANTS
    Sources <- SourcesDef
    MaxBatchBytes = 2
    Configs <- ConfigsDef
INVARIANTS
    NoLostWakeup
    InflightExact
PROPERTIES
    ImplementsReplay
