CONSTANTS
    Score = {1, 3}
    Member = {a, b, c, d}
    Node = {n1, n2, n3, n4}
    head_ = head
    QueryScore = {0, 1, 2, 3, 4}
    NULL = null
    MaxLevel = 3
    MaxLenth = 8
SPECIFICATION MCSpec
SYMMETRY Symmetry
INVARIANTS
    LinksOK
    ChainsNested
    SpansAreDistances
    BackwardMirrorsForward
    IndexExact
    ScoreRangeExact
    RankExactOrLost
PROPERTY ImplementsScoredList
CHECK_DEADLOCK FALSE
