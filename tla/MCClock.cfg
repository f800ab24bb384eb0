SPECIFICATION MCSpec
CONSTANTS
    Proc = {p1, p2}
    Rend = {r1, r2}
    Mach = {m0, m1}
    mach0 = m0
    Delay = {1, 2}
    MaxTick = 3
    MaxAlarmTick = 4
    kproc = kproc
    hztimer = hztimer
    Clock0 = {clock0}
    hzPeriod = 2
    clock0Period = 3
    ci = ci
    Ahead = {1, 3}
    Late = 1
    watched = p1
    nil = nil
INVARIANTS ListsOK DueAtHead
PROPERTIES TimeComes
