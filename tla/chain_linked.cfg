SPECIFICATION Spec
CONSTANTS
    v1 = v1
    v2 = v2
    observer = observer
    t1 = t1
    t2 = t2
    Node = {v1, v2}
    Validator = {v1, v2}
    Tx = {t1, t2}
    Notice <- TwoNotices
    Place <- TwoPlaces
    BlockId <- FourBlocks
    Lossy = FALSE
    Crashing = {}
CHECK_DEADLOCK FALSE
INVARIANTS
    EveryChainIsLinked
