SPECIFICATION MCSpec
CONSTANTS
    Proc = {p1, p2}
    Dir = {da, db}
    Group = {g1, g2, g3}
    Mheads = 6
    MaxCalls = 3
    Hazards = {}
    home = g1
    mtpt = da
    union0 <- Union0
    d0 = d0
    da = da
    db = db
    dc = dc
    dax = dax
    dbx = dbx
    dby = dby
    dbxy = dbxy
    none = none
    MaxBinds = 2
    MAXWELEM = 2
    nil = nil
INVARIANT UndomountSide
CHECK_DEADLOCK FALSE
