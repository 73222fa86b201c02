CONSTANTS
    a = a
    b = b
    Pid = {p1, p2, p3, p4}
    Write = {a, b}
    NChunks = 2
    Slot <- MCSlot
    NONE = none
    MaxFaults = 2
    MaxKills = 1
SPECIFICATION Spec
CONSTRAINT NoRace
SYMMETRY Symmetry
INVARIANTS
    TypeOK
    SaverAlone
    DbFileComplete
    StopSavesAll
PROPERTY SavedGrows
CHECK_DEADLOCK FALSE
