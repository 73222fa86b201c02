CONSTANTS
    a = a
    b = b
    Pid = {p1, p2, p3}
    Write = {a, b}
    NChunks = 2
    Slot <- MCSlot
    NONE = none
    MaxFaults = 0
    MaxKills = 0
SPECIFICATION StaysUpSpec
PROPERTY FirstSaveReachesDisk
CHECK_DEADLOCK FALSE
