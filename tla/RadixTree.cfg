\* Every tree of four blocks, every sibling order, every history of slots.
SPECIFICATION Spec
CONSTANTS
    Hash <- HashDef
INVARIANTS
    SlotsExact
    WalksExact
PROPERTIES
    ImplementsTree
