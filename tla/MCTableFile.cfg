CONSTANTS
    Score = {1, 2, 3}
    Member = {a, b, c}
    Node = {n1, n2, n3, n4}
    head_ = head
    QueryScore = {0, 1, 2, 3, 4}
    NULL = null
    MaxLevel = 2
    GROUP = 2
    RankMod = 5
    LEN_ERR = error
    MaxLenth = 5
    MaxLenthSaved = 1
    TornBelow = 3
    MaxAstray = 1
    DelMemCalled = TRUE
SPECIFICATION MCSpec
SYMMETRY Symmetry
INVARIANTS
    TypeOK
    DictInList
    HeapWellFormed
    ListIsDictUntilTied
    RequestsAnswered
    MembersRestored
    FirstEntriesRestored
    DictRestoredUntilTied
CHECK_DEADLOCK FALSE
