SPECIFICATION Spec
SYMMETRY Views
CONSTANTS
    K = 2
    SegCap = 1
    Producers = {p1}
    Quota <- QuotaWhole
    Consumers = {c1, c2, c3}
    MaxConsumers = 2
    MaxLeaves = 1
    SqcsOf <- OneShard
    Runs = 2
    MaxSeq = 5
    IdMod = 1
CONSTRAINT
    CrowdEarly
INVARIANTS
    AdmissionBounded
    ViewTripwires
    HeldNeverLapped
    NoWorkBehind
PROPERTIES
    ImplementsLog
