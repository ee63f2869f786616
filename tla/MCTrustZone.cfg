SPECIFICATION Spec
CONSTANTS
    a = a
    b = b
    x = x
    Node = {a, b, x}
    Signer = {a, b}
    Networks <- AllNetworks
    Provisioned = {a}
    Cleaner = {a}
    MaxAhead = 1
INVARIANTS
    OnlySigners
    
    NobodyShutOut
CHECK_DEADLOCK FALSE
