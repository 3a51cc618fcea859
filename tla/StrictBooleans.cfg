SPECIFICATION Spec
CONSTANTS
    Objects = {o1, o2}
    Resources = {r1}
    NoResource = nullptr
    Heap = heap
INVARIANTS
    StrictAsOptioned
