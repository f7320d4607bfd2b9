\* Two blocks are written to tiers of one block, to either of two streams, and
\* may both be moved to TLC;
\* each block is two commands.
SPECIFICATION TraceSpec
CONSTANTS
    Block = {b1, b2}
    Capacity <- CapacityDef
    Stream = {0, 1}
    Chunks = 2
    MaxEvents = 6
SYMMETRY Symmetry
INVARIANTS
    DeviceSequential
    CopySurvives
