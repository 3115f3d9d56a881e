SPECIFICATION FairSpec
CONSTANTS
    v1 = v1
    v2 = v2
    observer = observer
    t1 = t1
    t2 = t2
    Node = {v1, v2}
    Validator = {v1, v2}
    Tx = {t1, t2}
    Notice <- TwoNotices
    Place <- TwoPlaces
    BlockId <- FourBlocks
    Lossy = TRUE
    Crashing = {v1}
CHECK_DEADLOCK FALSE
INVARIANTS
    TypeOK
    ChainIsLinked
    VerifiedIsKept
PROPERTY
    VerifiedIsCollected
