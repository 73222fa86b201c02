CONSTANTS
    Score = {1, 2}
    Member = {a, b}
    Node = {n1, n2, n3}
    head_ = head
    QueryScore = {0, 1, 2, 3, 4}
    NULL = null
    MaxLevel = 2
    GROUP = 2
    RankMod = 6
    LEN_ERR = error
    MaxLenth = 5
    MaxLenthSaved = 1
    TornBelow = 0
    MaxAstray = 0
    DelMemCalled = FALSE
SPECIFICATION MCSpec
SYMMETRY Symmetry
INVARIANT DictRestored
CHECK_DEADLOCK FALSE
