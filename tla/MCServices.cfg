SPECIFICATION RolesFairSpec
CONSTANTS
    a = a
    b = b
    e = e
    s = s
    t = t
    f = f
    c = c
    p = p
    q = q
    u = u
    Node = {a, b, e}
    Name = {s, t, f}
    File = {f}
    Call = {c}
    Deployments <- AllDeployments
    Role = {p, q, u}
    Known = {p, q}
    Plans <- AllPlans
    MaxAhead = 2
    MaxFaults = 1
INVARIANTS
    RightService
PROPERTIES
    NothingLeft
    Offered
    RoleTaken
CHECK_DEADLOCK FALSE
