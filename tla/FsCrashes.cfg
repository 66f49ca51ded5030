CONSTANTS
    Store = {a}
    Long = long
    Entry = {short, long}
    Size <- MixedSizes
    BufSize = 2
    StreamBuf = 2
    WritesBelowBuffer = FALSE
    ShrinkingRewrites = TRUE
    ShiftedPacks = FALSE
    MaxLen = 3
    Last = 3
    MaxCompacts = 1
    MaxReopens = 1
    MaxCrashes = 1
    MaxIoErrors = 1
SPECIFICATION Spec
CHECK_DEADLOCK FALSE
INVARIANT EarlierEntriesOnDisk
PROPERTY CrashKeepsEntries
