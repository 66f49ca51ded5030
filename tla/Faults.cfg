CONSTANTS
    Server = {s1, s2}
    Value = {v1}
    Nobody = Nobody
    MaxAppendSize = 2
    UlongMax = 1000
    SavesSerialized = TRUE
    Electors = {s1}
    Beating = {s1}
    Hearing = {s2}
    MaxInFlight = 1
    MaxQueued = 2
    MaxTerm = 1
    MaxLog = 2
    MaxErrors = 1
    MaxRestarts = 1
SPECIFICATION FairSpec
CHECK_DEADLOCK FALSE
INVARIANTS BusyPeerAwaitsReply StateMachineSafety CommittedOnMajority
PROPERTY EntriesGetApplied
