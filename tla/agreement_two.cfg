\* Two validators of three nodes, one of two lists, no request lost, a worker of each may die; workers and servers are fair.
SPECIFICATION FairSpec
CONSTANTS
    a = a
    b = b
    c = c
    Node = {a, b, c}
    NodeNumber = 3
    Initial = {a, b}
    Proposal <- StayOrChange
    NoNode = NoNode
    Percent = 20
    Verdict <- AnyVerdict
    Lossy = FALSE
    Crashing = {}
    Mortal <- OneOfEach
    MaxStarts = 2
INVARIANTS
    TypeOK
PROPERTY
    AgreementEnds
CHECK_DEADLOCK FALSE
