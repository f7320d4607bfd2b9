\* Two streams write and trim five pages; garbage is collected at the limit.
SPECIFICATION Spec
CONSTANTS
    Block = {b1, b2, b3, b4}
    Key <- KeyDef
    PagesPerBlock = 2
    ActiveLimit = 3
    Nominals <- NominalsDef
INVARIANTS
    MappingExact
    NoBlockStranded
    CollectionFits
    ReserveSuffices
PROPERTIES
    WritesEnd
