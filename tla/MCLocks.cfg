SPECIFICATION MCSpec
CONSTANTS
    Proc = {p1, p2, p3, p4, p5}
    Mach = {m1, m2}
    Spinner = {t1, t2}
    Lk = {k}
    ILk = {d}
    off = off
    nil = nil
INVARIANTS QueueOK Exclusion SpinLocksOK
PROPERTIES NoBarging LocksGranted
