CONSTANTS
    Leader = s1
    f1 = f1
    f2 = f2
    Follower = {f1, f2}
    Distance <- Distances
    Blocks = 2
    MaxAppendSize = 2
    UlongMax = 1000
    EmptyLogs = {f2}
    Quiet = {f1}
    MaxLog = 3
    MaxFaults = 1
SPECIFICATION FairSpec
CHECK_DEADLOCK FALSE
INVARIANTS TypeOK CompactedIsInSnapshot NothingSkipped ExitsExplained
PROPERTY FollowerCatchesUp
