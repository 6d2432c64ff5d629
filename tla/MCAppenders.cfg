SPECIFICATION SidesSpec
CONSTANTS
    h1 = h1
    h2 = h2
    NoPath = NoPath
    Handles <- MCHandles
    Paths <- MCPaths
    Datasets <- MCDatasets
    MaxStaged = 3
    Chunk = 2
    ElementSize = 2
    FullBatch = 2
    Maxima = {4}
    Unlimited = Unlimited
    Lengths = {0, 1}
    Submissions = {3, 8}
    MaxBytes = 9
    MaxForeign = 3
    MaxFaults = 1
SYMMETRY Symmetry
INVARIANTS
    FlushIsNotBlocked AppendersExclude
    UnwrittenFollowsWritten 
PROPERTY ClaimedDatasetStays
CHECK_DEADLOCK FALSE
