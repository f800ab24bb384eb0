SPECIFICATION Spec
CONSTANTS
    Proc = {p1, p2}
    Seg = {s1, s2}
    Page = {a, b, c}
    Swap = {1}
    Types = {"bss"}
    HighWater = 0
    Headroom = 3
    Reserve = 0
    MaxAux = 1
    Hazards = {"twice"}
    image = image
    nil = nil
INVARIANT SwapCacheOK
SYMMETRY Symmetry
