\* A session stops when its handles are dropped.
SPECIFICATION Spec
CONSTANTS
    h1 = h1
    h2 = h2
    Handles <- MCHandles
    MaxObjects = 4
    MaxCommits = 3
SYMMETRY Symmetry
INVARIANT ReplacedObjectIsNotAnswered
CHECK_DEADLOCK FALSE
