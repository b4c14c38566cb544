\* Requests that follow one another, three providers, a table of two bindings for three sessions.
SPECIFICATION Spec
CONSTANTS
    p1 = p1
    p2 = p2
    p3 = p3
    m1 = m1
    s1 = s1
    s2 = s2
    s3 = s3
    r1 = r1
    r2 = r2
    c1 = c1
    None = None
    Sessions = {s1, s2, s3}
    Providers = {p1, p2, p3}
    Modes = {m1}
    Ttl = 2
    MaxBindings = 2
    Requests = {r1}
    Commands = {c1}
    Calls <- AnyCall
    Gated = {p2}
    RetryAfters = {0}
    Routes <- ThreeProviders
    MaxTime = 1
    MaxEdits = 1
CHECK_DEADLOCK FALSE
SYMMETRY OtherSessions
INVARIANTS TypeOK CandidatesInRouteOrder LastServerFirst
