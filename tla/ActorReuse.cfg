SPECIFICATION Spec
SYMMETRY Alike
CONSTANTS
    Slots = {a1}
    Nodes = {n1}
    Creators = {o1}
    Senders = {s1}
    Wakers = {s1}
    Retirers = {o1, s1}
    Wavers = {o1, s1}
    Pumps = {p1, s1}
    Threads = {o1, p1, s1}
    May <- Roles
    MaxGen = 2
    MaxFlush = 2
    None = None
INVARIANTS
    GenerationHeld
    StoreAlone
    ActorTripwires
    NothingStranded
    NeverStale
    ReadyCounted
