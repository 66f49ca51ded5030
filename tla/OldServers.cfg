CONSTANTS
    Leader = s1
    Member = {s2, s3}
    Joiner = {s4}
    Nobody = Nobody
    StopGap = 1
    BatchSize = 1
    MaxSlow = 2
    ChangesSerialized = TRUE
    LateRequests = FALSE
    Failing = {}
    MaxLog = 4
    MaxChanges = 2
    MaxFaults = 0
SPECIFICATION Spec
CHECK_DEADLOCK FALSE
INVARIANTS OldServerNotElected
