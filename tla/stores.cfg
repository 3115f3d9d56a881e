SPECIFICATION FairSpec
CONSTANTS
    server = server
    verifier = verifier
    worker = worker
    Nobody = Nobody
    Process = {server, verifier, worker}
    Classes <- Distinct
    Budget <- ServerTwice
    Mortal = {worker}
INVARIANTS
    TypeOK
    SeesFile
    GrowsOnlyKeeps
PROPERTIES
    WritesOneByOne
    OperationEnds
CHECK_DEADLOCK FALSE
