SPECIFICATION Spec
CONSTANTS
    p1 = p1
    t1 = t1
    t2 = t2
    p2 = p2
    p3 = p3
    c1 = c1
    c2 = c2
    c3 = c3
    Peer = {p1, p2}
    Stream = {c1, c2}
    RemotePeer <- OneEach
    None = None
    Tag = {a}
    Val = {1}
    Background = bg
    Caller = {t1, t2}
    LowWater = 1
    HighWater = 2
    MaxTrims = 1
INVARIANTS
    ValueIsSum
    TrackedHasItsStream
    CountCoversConnected
    ProtectedIsNoCandidate
    TrimLeavesLowWater
    TrimmedSinceCalled
SYMMETRY Symmetric
