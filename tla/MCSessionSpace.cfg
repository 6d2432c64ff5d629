SPECIFICATION StrategiesSpec
CONSTANTS
    PageSize = 2
    Thresholds = {1, 3}
    ReserveTails = 1
    Lengths = {1, 3}
    TailLengths = {1, 2}
    InitEoa = 4
    MaxEoa = 6
    MaxLive = 2
    MaxFreed = 1
    Block = 2
    ListThreshold = 2
    Sizes = {1, 2, 3}
    AggregateEoa = 2
    MaxAggregateEoa = 7
    MaxFresh = 2
INVARIANTS
    OneOwnerPerByte PagesAreNotMixed
    SpaceIsPartitioned FreeTailIsCut
PROPERTY TailAvoidsReferencedBytes
