SPECIFICATION FairSpecPopulated
CONSTANTS
    v1 = v1
    v2 = v2
    v3 = v3
    observer = observer
    t1 = t1
    Node = {v1, v2, v3, observer}
    Validator = {v1, v2, v3}
    Tx = {t1}
    NoTx = NoTx
    Sender <- SentByObserver
    Rank <- RegistrationOrder
    Verdict <- OneAgainst
    Lossy = FALSE
    Raising <- LastRaises
    Stalling <- SecondStalls
INVARIANTS
    DecidedByMajority
    Agreement
PROPERTIES
    EntryGetsOwnVote
    EntryIsDecided
CHECK_DEADLOCK FALSE
