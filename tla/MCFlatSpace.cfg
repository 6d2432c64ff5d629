CONSTANTS
    Threshold = 2
    ReserveTails = 1
    Lengths = {1, 2, 3}
    TailLengths = {1, 2}
    InitEoa = 2
    MaxEoa = 7
SPECIFICATION Spec
INVARIANT OneOwnerPerByte
PROPERTY TailAvoidsReferencedBytes
CHECK_DEADLOCK FALSE
