CONSTANTS
    Store = {a, b}
    Long = long
    Entry = {short, long}
    Size <- MixedSizes
    BufSize = 1
    StreamBuf = 9
    WritesBelowBuffer = FALSE
    ShrinkingRewrites = FALSE
    ShiftedPacks = FALSE
    MaxLen = 3
    Last = 3
    MaxCompacts = 1
    MaxReopens = 1
    MaxCrashes = 0
    MaxIoErrors = 0
SPECIFICATION Spec
SYMMETRY Perms
CHECK_DEADLOCK FALSE
INVARIANTS TypeOK BufferEndsWithStore ReadersAgree
PROPERTY ImplementsLogStore
