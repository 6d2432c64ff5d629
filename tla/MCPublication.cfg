SPECIFICATION SessionsSpec
CONSTANTS
    Ranges = {r1, r2, r3}
    MaxSequence = 3
    None = None
    Torn = Torn
    MaxRoots = 3
    MaxEdits = 3
    MaxFaults = 2
    MaxCrashes = 1
    MaxFailures = 2
    Zero = z
    PageSize = 3
    MaxBytes = 3
    Lengths = {1, 2, 3}
    InitLen = 3
    MaxLen = 4
    MaxWrites = 3
INVARIANTS
    ReferencesAreOwned ConfirmedStorageIsExclusive
    PublishedRootIsComplete PublishedEditsStay UnsettledIsRepairable
    QueuedRunsAreSound ImageShowsLastWrites FileShowsRecentWrites
PROPERTY UncertaintyIsFinal
\* An uncertain session stops, and so does one that may stage no more edits.
CHECK_DEADLOCK FALSE
