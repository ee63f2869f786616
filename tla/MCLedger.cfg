SPECIFICATION Spec
CONSTANTS
    n1 = n1
    n2 = n2
    w1 = w1
    w2 = w2
    w3 = w3
    b1 = b1
    k1 = k1
    v1 = v1
    Node = {n1, n2}
    Bucket = {b1}
    Value = {v1}
    Root = Root
    NoHash = NoHash
    Worker = {w1, w2, w3}
    Home <- HomeRace
    Durable = {n2}
    Key = {k1}
    Entries <- EntriesOne
    MaxCalls = 1
    MaxRestarts = 1
INVARIANTS
    TypeOK
    NothingUnstoredIsSeen
    Grounded
    IndexCountsWrites
PROPERTY
    ImplementsTree
CHECK_DEADLOCK FALSE
