CONSTANTS
    TreeSize = 5
    TreeData = {1, 2, 3, 4}
    MaxAgain = 1
    RbSize = 8
    RbKey = {1, 2, 3, 4}
    FirstBuckets = 2
    MaxBuckets = 8
    NOVAL = noval
    HashKey = {1, 2, 3, 4}
    HashVal = {a, b}
    Hashed <- MCHashed
    ListSize = 5
    ListVal = {a, b}
    Size = 2
    RingVal = {a, b}
    MaxPush = 9
SPECIFICATION MCSpec
INVARIANTS
    TreeWalkIsContents
    InsertionKeepsRedBlack
    HashNeverStale
    ListBothWaysRound
    QueueInOrder
CHECK_DEADLOCK FALSE
