SPECIFICATION DNSFairSpec
CONSTANTS
    n1 = n1
    n2 = n2
    w1 = w1
    w2 = w2
    w3 = w3
    b1 = b1
    k1 = k1
    k2 = k2
    v1 = v1
    q1 = q1
    x1 = x1
    x2 = x2
    y1 = y1
    s1 = s1
    s2 = s2
    Bucket = {b1}
    Value = {v1}
    Entries = {}
    Root = Root
    NoHash = NoHash
    Node = {n1, n2}
    Worker = {w1, w2, w3}
    Key = {k1, k2}
    Durable = {}
    Home <- Homes
    Tasks <- AllLoops
    MaxCalls = 4
    MaxTries = 1
    MaxRestarts = 1
    Restarting = {n2}
    Query = {q1}
    Question = {x1, x2}
    Matches <- AllMatches
    Typed <- AllTyped
    DNSKey = b1
    Resolving <- AllResolving
    Forwarder = TRUE
    Forward <- Servers
    Answer = {y1}
    CacheSize = 1
    Nothing = Nothing
PROPERTIES
    Resolved
    AnnouncedAtHome
    AnnouncedSettles
    IndicesAgree
CHECK_DEADLOCK FALSE
