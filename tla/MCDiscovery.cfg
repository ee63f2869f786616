CONSTANTS
    Node <- MCNode
    Length = 2
    Skew <- MCSkew
    OTP = TRUE
    LastWindow = 2
    MaxFaults = 1
SPECIFICATION FairDiscoverySpec
INVARIANTS
    KeepsLast
PROPERTIES
    Met
