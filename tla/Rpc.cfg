CONSTANTS
    Request = {r1, r2, r3}
    NoReq = NoReq
    Empty = {r1}
    MaxConns = 2
    MaxBreaks = 1
SPECIFICATION FairSpec
CHECK_DEADLOCK FALSE
INVARIANTS TypeOK
PROPERTIES ImplementsChannel CallbackComes
