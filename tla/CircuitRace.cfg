\* Two concurrent calls on one provider, with configuration reloads.
SPECIFICATION Spec
CONSTANTS
    p1 = p1
    p2 = p2
    c1 = c1
    c2 = c2
    None = None
    Providers = {p1}
    Calls = {c1, c2}
    Configs <- MCConfigs
    MaxOpenSecs = 2
    CooldownSecs = {1}
    FailureWindowSecs = 2
    MaxFailureTimestamps = 4
    HalfOpenRequired = 2
    MaxTime = 5
    LastFailure = 5
    MaxOnTheWay = 0
    MaxRestarts = 0
SYMMETRY CallSymmetry
CHECK_DEADLOCK FALSE
INVARIANTS TypeOK LockoutBounded
PROPERTIES OpensOnRecentFailures ClosesOnlyAfterProbation CooldownKept
