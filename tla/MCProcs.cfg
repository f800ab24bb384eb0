SPECIFICATION MCSpec
CONSTANTS
    nil = nil
    Proc = {p1, p2, p3}
    boot = p1
    NWAIT = 4
    NoWaits = {FALSE}
    MaxPid = 5
    Breaker = {p1, p2, p3, p4}
    NBROKEN = 2
    SlowMark = FALSE
    Caller = {p1, p2, p3}
    Tag = {t1, t2}
    Poster = {p4}
    MaxCall = 2
    MaxCalls = 4
    none = none
    Watched = {p1, p2}
INVARIANTS ChildrenOK BrokenOK RendezvousOK
PROPERTIES OrphansLeaveNothing NobodyStranded
CHECK_DEADLOCK FALSE
