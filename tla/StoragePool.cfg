\* Dumps, trims and relocations until every address has been recycled.
SPECIFICATION Spec
CONSTANTS
    Block = {b1, b2, b3, b4}
    Capacity <- CapacityDef
SYMMETRY Symmetry
INVARIANTS
    AddressesDistinct
    AddressesDense
    OneCopy
