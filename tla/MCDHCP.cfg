SPECIFICATION FairSpec
CONSTANTS
    n1 = n1
    n2 = n2
    n3 = n3
    Node = {n1, n2, n3}
    Silent = {n1}
    Rank <- MCRank
    None = None
    DefaultIP = 1
    r1 = r1
    r2 = r2
    Replica = {r1, r2}
    Starts <- MCStarts
    MaxLoops = 1
    MaxAhead = 1
INVARIANTS
    UniqueWhileComplete
    OneAddressPerNode
PROPERTIES
    EveryoneServed
