SPECIFICATION Spec
SYMMETRY Alike
CONSTANTS
    Workers = {w1, w2}
    Publishers = {p1, p2}
    Control = c
    Groups = {g1, g2}
    GroupOf <- OnePerGroup
    Lanes = {"managed"}
    Faulty = {w1, w2}
    Policies = {"sleep", "spin"}
    MaxCalls = 2
    w1 = w1
    w2 = w2
    g1 = g1
    g2 = g2
CHECK_DEADLOCK FALSE
INVARIANTS
    WakesReach
    StopHeard
    LifecycleSound
