SPECIFICATION FairSpec
CONSTANTS
    a = a
    b = b
    Node = {a, b}
    Publisher = {a}
    Cap = 1
    LastWindow = 1
    MaxFailures = 2
INVARIANTS
    SettledIsCurrent
PROPERTY
    KeepsHearing
