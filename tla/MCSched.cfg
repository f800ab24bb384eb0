SPECIFICATION MCSpec

CONSTANTS
    Mach = {m1, m2}
    Proc = {p1, p2, p3}
    Kproc = {p1}
    Ctl = {p1}
    Nrq = 2
    Quanta <- Quanta1
    SlowBury = FALSE
    Rend = {r1}
    Waker = {w1}
    Poster = {n1}
    nil = nil

SYMMETRY Perms

INVARIANTS ListsOK OneMach MachSaved
PROPERTY PriorityRules
