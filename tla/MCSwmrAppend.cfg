CONSTANTS
    Layouts = {"header_first", "index_first"}
    Inline = 1
    MaxBatch = 2
    MaxDim = 3
    MaxUnits = 5
    MaxCrashes = 1
SPECIFICATION Spec
 
 
INVARIANT ReferencesWithinEof
INVARIANT ReturnedAppendsStay
PROPERTY ReaderCatchesUp
