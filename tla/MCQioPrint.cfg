SPECIFICATION Spec
CONSTANTS
    Reader = {r1}
    Writer = {w1}
    intr = intr
    ctl = ctl
    Uses = {"print"}
    Sizes = {1, 2}
    Wants = {1, 2}
    Limit = 3
    Limits = {3, 5}
    Hdr = 1
    MaxBlocks = 3
    Labels = 2
    Hazards = {}
    nil = nil
INVARIANT EmptyWakesWriter
