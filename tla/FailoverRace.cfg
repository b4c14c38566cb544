\* Two requests of three kinds over two providers, one of which logs in with a token.
SPECIFICATION Spec
CONSTANTS
    p1 = p1
    p2 = p2
    p3 = p3
    r1 = r1
    r2 = r2
    None = None
    Providers = {p1, p2}
    Requests = {r1, r2}
    OAuth = {p1}
    Bridged = {}
    Lists <- Candidates
    Kinds <- Mixed
    Cfg <- MCCfg
    CooldownSecs = 1
    MaxAttempts = 1
    LimitResets = {2}
    FailureWindowSecs = 2
    MaxFailureTimestamps = 3
    HalfOpenRequired = 1
    MaxTime = 2
    MaxStarts = 2
CHECK_DEADLOCK FALSE
SYMMETRY Symmetry
INVARIANTS TypeOK NoCallAfterOpen AnswerFitsCalls RetryAfterNotLate
