CONSTANTS
    Server = {s1, s2}
    Value = {v1}
    Nobody = Nobody
    MaxAppendSize = 2
    UlongMax = 1000
    SavesSerialized = FALSE
    Electors = {s1, s2}
    Beating = {s1, s2}
    Hearing = {s1, s2}
    MaxInFlight = 1
    MaxQueued = 2
    MaxTerm = 2
    MaxLog = 2
    MaxErrors = 0
    MaxRestarts = 1
SPECIFICATION Spec
SYMMETRY Perms
CHECK_DEADLOCK FALSE
INVARIANTS SavedCommitIsApplied TypeOK BusyPeerAwaitsReply
