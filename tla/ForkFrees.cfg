SPECIFICATION Spec
CONSTANTS
    Workers = {w1}
    Caller = c
    Submitters = {u1}
    MaxFrames = 6
    Cap = 2
    MaxKids = 3
    MaxWork = 3
    LeafFrees = TRUE
    w1 = w1
    c = c
    u1 = u1
CHECK_DEADLOCK FALSE
INVARIANTS
    FramesAlive
