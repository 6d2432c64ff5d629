\* The file never fails; another handle appends beside the appender.
SPECIFICATION Spec
CONSTANTS
    Chunk = 2
    ElementSize = 2
    FullBatch = 2
    Maxima = {2}
    Unlimited = Unlimited
    Lengths = {0}
    Submissions = {2}
    MaxBytes = 2
    MaxForeign = 2
    MaxFaults = 0
INVARIANT UnwrittenIsTheRest
CHECK_DEADLOCK FALSE
