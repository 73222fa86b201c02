CONSTANTS
    a = a
    b = b
    Pid = {p1, p2, p3, p4}
    Write = {a, b}
    NChunks = 2
    Slot <- MCSlot
    NONE = none
    MaxFaults = 0
    MaxKills = 1
SPECIFICATION Spec
SYMMETRY Symmetry
INVARIANT DbFileAlwaysComplete
CHECK_DEADLOCK FALSE
