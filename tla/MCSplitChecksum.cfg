SPECIFICATION Spec
CONSTANTS
    ChunkElems = 2
    Batches = {1, 3}
    Modes <- MCModes
    MaxDim = 6
    MaxUnits = 9
    MaxFaults = 1
    PageEntries = 2
INVARIANT ChecksumsCoverEntries
CHECK_DEADLOCK FALSE
