SPECIFICATION Spec
CONSTANTS
    Script <- AnyStreams
    HEAD = 2
    CAP = 4
    WINDOW = 5
    SNDBUF = 2
    RspLen = {3}
    Garbage = {"OUT", "ONESHOT"}
INVARIANTS
    TypeOK
    NoSilentBytes
    QueueAnnounced
    NoWrongHangup
