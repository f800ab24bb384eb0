SPECIFICATION Spec
CONSTANTS
    Proc = {p1, p2}
    Seg = {s1, s2}
    Page = {a, b, c}
    Swap = {1}
    Types = {"data", "bss", "text"}
    HighWater = 0
    Headroom = 3
    Reserve = 0
    MaxAux = 1
    Hazards = {}
    image = image
    nil = nil
INVARIANTS PagesOK CachesOK
PROPERTIES ImplementsMemory
SYMMETRY Symmetry
