CONSTANTS
    Threads = 2
    ConfIdx = {1}
    MaxLog = 2
    MaxExpired = 1
SPECIFICATION FairSpec
CHECK_DEADLOCK FALSE
INVARIANTS TypeOK ElectionTimerArmed HeartbeatArmed LeaderTimerOff
PROPERTIES CommitsInTheEnd JoinerIsArmed ShutdownCompletes
