CONSTANTS
    x = x
    y = y
    Client = {c1, c2}
    Key = {x, y}
    Asks <- MCAsks
    Hash <- MCHash
    bucket_num_ = 3
    NServers = 2
    PosMod = 3
    Cap = 1
    NONE = none
    PART = part
    MaxConn = 2
    MaxReq = 2
    MaxFaults = 1
    MaxAll = 3
SPECIFICATION Spec
CONSTRAINT Bounds
SYMMETRY Symmetry
INVARIANTS
    TypeOK
    TasksFound
    AnswersReachAskers
    AcceptedIsOwn
    AcknowledgedWritesSeen
    BacklogAnnounced
CHECK_DEADLOCK FALSE
