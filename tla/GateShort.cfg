SPECIFICATION ToolsSpec
CHECK_DEADLOCK FALSE
CONSTANTS
    NoFile = NoFile
    Torn = Torn
    NoSummary = NoSummary
    Arguments = {}
    Hosts = {}
    ThreadCounts = {}
    ReportCells <- MCReportCells
    Parser <- MCParser
    Frozen = {"st", "mt"}
    MultiThreaded = {"mt"}
    SixConsumers = {"tail"}
    ReportArgs = {}
    Printed <- MCPrinted
    MaxLaunches = 0
    MaxEdits = 0
    Parts = {1, 2}
    SweepCells = {"mirrored", "counted"}
    MirrorCells = {"mirrored"}
    PerfCells = {"counted"}
    SweepRuns = 1
    TopupRuns = 0
    Results <- MCResults
    OtherRows <- MCOtherRows
    Modes <- MCModes
    CancelModes = {"cancel"}
    Repeats = 2
    MaxAttempts = 2
    SplitCells <- MCSplitCells
    PartsOf <- MCPartsOf
    SplitRuns = 1
INVARIANT
    GateComplete
