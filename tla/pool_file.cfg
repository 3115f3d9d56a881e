SPECIFICATION FairSpec
CONSTANTS
    server = server
    verifier = verifier
    s1 = s1
    s2 = s2
    w1 = w1
    t1 = t1
    t2 = t2
    u1 = u1
    u2 = u2
    NoEntry = NoEntry
    Process = {server, verifier}
    Thread = {s1, s2, w1}
    ProcessOf <- TwoProcesses
    Tx = {t1, t2}
    Voter = {u1, u2}
    Calls <- ServerAndVerifier
    Budget <- Few
    Mortal = {verifier}
INVARIANTS
    TypeOK
    SeesFile
    LockExcludes
PROPERTIES
    WritesOneByOne
    RefusesRightly
    OperationEnds
CHECK_DEADLOCK FALSE
