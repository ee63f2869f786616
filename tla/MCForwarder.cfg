SPECIFICATION FairForwarderSpec
CONSTANTS
    p1 = p1
    p2 = p2
    c1 = c1
    c2 = c2
    c3 = c3
    w1 = w1
    w2 = w2
    me = me
    other = other
    far = far
    Peer = {p1, p2}
    Stream = {c1, c2, c3}
    RemotePeer <- ThreeStreams
    None = None
    Tag = {}
    Val = {}
    Background = bg
    Caller = {}
    LowWater = 1
    HighWater = 2
    MaxTrims = 0
    Worker = {w1, w2}
    Address = {me, other, far}
    Self = me
    Own = me
    Router = far
    Tables <- AllTables
    Holdings <- Known
    Claims <- AllClaims
    Sent <- AllSent
    Garbled = Garbled
    Buffer = 0
    MaxFrames = 2
    MaxChanges = 1
INVARIANTS
    OpenIsHeld
    RoutedToHolder
PROPERTY
    Stops
CHECK_DEADLOCK FALSE
