SPECIFICATION SpecWithStatic
CONSTANTS
    Objects = {o1, o2}
    Resources = {r1, r2}
    NoResource = nullptr
    Heap = heap
INVARIANTS
    TypeOK
    OwnContainers
    DefaultRestored
SYMMETRY MCSymmetry
