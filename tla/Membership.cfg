CONSTANTS
    Leader = s1
    Member = {s2}
    Joiner = {s3}
    Nobody = Nobody
    StopGap = 1
    BatchSize = 1
    MaxSlow = 2
    ChangesSerialized = TRUE
    LateRequests = FALSE
    Failing = {"join", "sync", "leave"}
    MaxLog = 2
    MaxChanges = 2
    MaxFaults = 1
SPECIFICATION FairSpec
CHECK_DEADLOCK FALSE
INVARIANTS TypeOK OneChangeAtATime ElectableHasCommitted
PROPERTIES LeaversGoDown InvitationsEnd
