SPECIFICATION DecayerFairSpec
CONSTANTS
    p1 = p1  c1 = c1  d1 = d1  d2 = d2
    None = None  g = g  bg = bg
    Peer = {p1}
    Stream = {c1}
    RemotePeer <- MCRemotePeer
    Tag = {}
    Val <- MCVal
    Background = bg
    Caller = {}
    LowWater = 1
    HighWater = 2
    MaxTrims = 0
    DecayingTag = {d1, d2}
    Name <- MCName
    Interval <- MCInterval
    MaxJump = 2
    Delta <- MCDelta
    MaxValue = 2
    CmdSize = 1
    MaxCalls = 1
CHECK_DEADLOCK FALSE
INVARIANTS
    ValueIsTotal
    NoneOverdue
PROPERTIES
    ClosedStaysGone
    IdleTagDecays
