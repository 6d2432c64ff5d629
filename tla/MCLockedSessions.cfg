SPECIFICATION SessionsSpec
CONSTANTS
    Procs = {p1, p2}
    Kinds = {"rw", "paged"}
    Lockings = {"Enabled", "BestEffort"}
    NoProc = NoProc
    Inline = 1
    MinElements = 1
    MinBlocksBits = 1
    PageElements = 2
    SuperBlocks = 4
    ChunkElems = 2
    Batches = {5, 20}
    Modes <- MCModes
    MaxDim = 25
    MaxUnits = 34
    MaxFaults = 1
INVARIANTS
    LockedSessionsExclude  
    AppendsStay StatisticsCountBlocks LossHappensOnce
\* A dataset that has grown to MaxDim is appended to no more.
CHECK_DEADLOCK FALSE
