SPECIFICATION FairSpec
CONSTANTS
    K = 2
    SegCap = 1
    Producers = {p1}
    Quota <- QuotaWhole
    Consumers = {c1, c2}
    MaxConsumers = 2
    MaxLeaves = 2
    SqcsOf <- ShrunkFarm
    Runs = 1
    MaxSeq = 1
    IdMod = 2
INVARIANTS
    TalliesAgree
PROPERTIES
    SpaceReturns
    WorkCompletes
