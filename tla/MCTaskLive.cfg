SPECIFICATION FairSpec
CONSTANTS
    Script <- GoodStreams
    HEAD = 2
    CAP = 5
    WINDOW = 4
    SNDBUF = 2
    RspLen = {3}
    Garbage = {}
PROPERTIES
    CommandsHandled
    ResponsesDrained
    ClosedIsClosed
