SPECIFICATION MCSpec
CONSTANTS
    Proc = {p1, p2, p3}
    MaxTag = 4
    MaxFree = 2
    MaxEvents = 4
    Worlds <- Either
    Reader = {p1}
    Writer = {p2}
    intr = intr
    ctl = ctl
    Uses = {"pipe", "input", "output", "print"}
    Sizes = {0, 2}
    Wants = {1, 2}
    Limit = 3
    Limits = {3, 5}
    Hdr = 1
    MaxBlocks = 3
    Labels = 2
    Hazards = {}
    nil = nil
INVARIANTS BooksOK OwnReply NobodyForgotten
PROPERTIES ImplementsByteQueue Returns
CHECK_DEADLOCK FALSE
