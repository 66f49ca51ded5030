CONSTANTS
    Server = {s1, s2}
    Value = {v1, v2}
    Nobody = Nobody
    MaxAppendSize = 2
    UlongMax = 1000
    SavesSerialized = TRUE
    Electors = {s1, s2}
    Beating = {}
    Hearing = {s1, s2}
    MaxInFlight = 2
    MaxQueued = 2
    MaxTerm = 2
    MaxLog = 2
    MaxErrors = 0
    MaxRestarts = 0
SPECIFICATION Spec
SYMMETRY Perms
CHECK_DEADLOCK FALSE
INVARIANTS StateMachineSafety
