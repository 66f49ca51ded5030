CONSTANTS
    Server = {s1, s2, s3}
    Value = {}
    Nobody = Nobody
    MaxAppendSize = 2
    UlongMax = 1000
    SavesSerialized = TRUE
    Electors = {s1, s2}
    Beating = {}
    Hearing = {s1}
    MaxInFlight = 2
    MaxQueued = 2
    MaxTerm = 2
    MaxLog = 0
    MaxErrors = 0
    MaxRestarts = 1
SPECIFICATION Spec
SYMMETRY Perms
CHECK_DEADLOCK FALSE
INVARIANTS VoteOncePerTerm VotesAreRemembered CleanElectionSafety
PROPERTY LeaderAppendOnly
