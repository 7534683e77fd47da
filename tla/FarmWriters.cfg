SPECIFICATION Spec
CONSTANTS
    K = 3
    SegCap = 2
    Producers = {p1, p2}
    Quota <- QuotaTiers
    Consumers = {c1}
    MaxConsumers = 1
    MaxLeaves = 1
    SqcsOf <- OneShard
    Runs = 1
    MaxSeq = 7
    IdMod = 1
INVARIANTS
    TypeOK
    WriteTripwires
    WorkNeverLapped
PROPERTIES
    DischargeIsFinal
    OverwriteOnlyDone
