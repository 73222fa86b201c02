CONSTANTS
    a = a
    b = b
    Pid = {p1, p2, p3, p4}
    Write = {a, b}
    NChunks = 2
    Slot <- MCSlot
    NONE = none
    MaxFaults = 0
    MaxKills = 0
SPECIFICATION StaysUpSpec
PROPERTY SavedWhenIdle
CHECK_DEADLOCK FALSE
