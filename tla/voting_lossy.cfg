SPECIFICATION Spec
CONSTANTS
    v1 = v1
    v2 = v2
    v3 = v3
    observer = observer
    t1 = t1
    Node = {v1, v2}
    Validator = {v1, v2}
    Tx = {t1}
    NoTx = NoTx
    Sender <- SentByValidator
    Rank <- RegistrationOrder
    Verdict <- SecondAgainst
    Lossy = TRUE
    Raising = {}
    Stalling = {}
INVARIANTS
    TypeOK
    VotesAreCast
    VerifiedOnSomeYes
PROPERTIES
    DecidesOnce
CHECK_DEADLOCK FALSE
