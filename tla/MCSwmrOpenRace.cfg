CONSTANTS
    Procs = {p1, p2}
    Kinds = {"swmr"}
    Lockings = {"Enabled"}
    NoProc = NoProc
SPECIFICATION OpenSpec
INVARIANT SwmrWriterIsAlone
