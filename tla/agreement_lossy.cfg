\* Two validators of three nodes; every request may fail, and a may crash once.
SPECIFICATION Spec
CONSTANTS
    a = a
    b = b
    c = c
    Node = {a, b, c}
    NodeNumber = 3
    Initial = {a, b}
    Proposal <- Pairs
    NoNode = NoNode
    Percent = 20
    Verdict <- AnyVerdict
    Lossy = TRUE
    Crashing = {a}
    Mortal = {}
    MaxStarts = 2
INVARIANTS
    ValidatorsAreEnough
    NodesShareValidators
    InstalledByMajority
CHECK_DEADLOCK FALSE
