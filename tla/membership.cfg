SPECIFICATION FairSpec
CONSTANTS
    g = g
    n1 = n1
    n2 = n2
    n3 = n3
    Node = {g, n1, n2, n3}
    Genesis = g
    Percent = 50
    Mortal = {n3}
    Restartable = {n3}
INVARIANTS
    TypeOK
    JoinedKnowEachOther
    BootSucceeds
    DrawnAreShared
PROPERTY
    BootEnds
CHECK_DEADLOCK FALSE
