SPECIFICATION FairSpec
CONSTANTS
    Slots = {a1}
    Nodes = {n1, n2}
    Creators = {o1}
    Senders = {o1}
    Wakers = {o1}
    Retirers = {o1}
    Wavers = {o1, w1}
    Pumps = {p1}
    Threads = {o1, p1, w1}
    May <- Roles
    MaxGen = 1
    MaxFlush = 1
    None = None
INVARIANTS
    OneActivation
PROPERTIES
    ImplementsMailbox
    WakesKept
    MessagesProcessed
    RetirementEnds
