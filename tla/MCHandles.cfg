SPECIFICATION KindsSpec
CONSTANTS
    w1 = w1
    w2 = w2
    r1 = r1
    r2 = r2
    h1 = h1
    h2 = h2
    Writers <- MCWriters
    Readers <- MCReaders
    Handles <- MCHandleSet
    MaxChanges = 2
    MaxCalls = 2
    MaxObjects = 4
    MaxCommits = 3
SYMMETRY Symmetry
INVARIANTS AnswersAreFresh BelievedMemoIsFresh PublishedHandleAnswers ReplacedObjectStaysHidden
\* A session stops when its handles are dropped.
CHECK_DEADLOCK FALSE
