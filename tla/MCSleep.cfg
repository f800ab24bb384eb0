SPECIFICATION SleepSpec

CONSTANTS
    Proc = {p1}
    Rend = {r1, r2}
    Waker = {w1, w2}
    Poster = {n1}
    Mach = {m1}
    Kproc = {p1}
    Ctl = {}
    Nrq = 1
    Quanta <- Quanta1
    SlowBury = FALSE
    nil = nil

INVARIANTS SleepTypeOK NoPanic RendezSync NoLostWakeup NoLostNote
PROPERTIES ImplementsRendez NobodyStuck
