\* An answer cached after the clear.
SPECIFICATION Spec
CONSTANTS
    p1 = p1
    p2 = p2
    p3 = p3
    m1 = m1
    s1 = s1
    s2 = s2
    s3 = s3
    r1 = r1
    r2 = r2
    c1 = c1
    None = None
    Sessions = {s1}
    Providers = {p1, p2}
    Modes = {m1}
    Ttl = 1
    MaxBindings = 4
    Requests = {r1, r2}
    Commands = {c1}
    Calls <- Plain
    Gated = {p1}
    RetryAfters = {1}
    Routes <- TwoProviders
    MaxTime = 0
    MaxEdits = 1
CHECK_DEADLOCK FALSE
SYMMETRY Symmetry
INVARIANT NextRequestReachesFailover
