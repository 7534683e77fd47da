SPECIFICATION Spec
SYMMETRY Alike
CONSTANTS
    Workers = {w1, w2}
    Posters = {p1}
    Fibers = {f1, f2}
    Kinds = {"semaphore"}
    Does <- BothForUnits
    MaxTurns = 1
    MaxOrders = 0
    CancelActive = {TRUE}
    Early = {f1, f2}
    MaxPosts = 2
    w1 = w1
    w2 = w2
    p1 = p1
    f1 = f1
    f2 = f2
CHECK_DEADLOCK FALSE
INVARIANTS
    EveryUnitHeard
