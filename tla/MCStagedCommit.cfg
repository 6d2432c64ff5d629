CONSTANTS
    MaxAddr = 6
    MaxCommits = 2
SPECIFICATION Spec
INVARIANT CrashLeavesIntactFile
INVARIANT RecordedFreeIsUnreferenced
INVARIANT ReusableIsUnreferenced
PROPERTY CommitIsAtomic
