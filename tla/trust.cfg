SPECIFICATION FairSpec
CONSTANTS
    g = g
    n1 = n1
    voted = voted
    started = started
    created = created
    earlier = earlier
    Node = {g, n1}
    Change = {voted, started, created, earlier}
    About <- Abouts
    Amount <- Amounts
    Listed <- Lists
    Plans <- AnyTwice
    Known <- KnownButGenesis
    Past <- TwoRows
    NoTrust = NoTrust
    Lossy = TRUE
    Ageing <- OneOfEach
INVARIANTS
    TypeOK
    AppliedOnce
    TrustIsHistory
    NodesAgree
PROPERTIES
    ChangeArrives
CHECK_DEADLOCK FALSE
