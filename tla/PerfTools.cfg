SPECIFICATION ToolsSpec
CHECK_DEADLOCK FALSE
CONSTANTS
    NoFile = NoFile
    Torn = Torn
    NoSummary = NoSummary
    Arguments <- MCArguments
    Hosts <- MCHosts
    ThreadCounts = {2, 3, 4, 5}
    ReportCells <- MCReportCells
    Parser <- MCParser
    Frozen = {"st", "mt"}
    MultiThreaded = {"mt"}
    SixConsumers = {"tail"}
    ReportArgs <- MCReportArgs
    Printed <- MCPrinted
    MaxLaunches = 3
    MaxEdits = 1
    Parts = {1, 2}
    SweepCells = {"mirrored", "counted"}
    MirrorCells = {"mirrored"}
    PerfCells = {"counted"}
    SweepRuns = 2
    TopupRuns = 1
    Results <- MCResults
    OtherRows <- MCOtherRows
    Modes <- MCModes
    CancelModes = {"cancel"}
    Repeats = 3
    MaxAttempts = 5
    SplitCells <- MCSplitCells
    PartsOf <- MCPartsOf
    SplitRuns = 2
INVARIANTS
    PlansSound
    NothingLeft
    EvidenceBound
    ExitHonest
    SummaryAccounts
