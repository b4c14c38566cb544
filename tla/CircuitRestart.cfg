\* One call at a time, rows that overtake one another or are lost, and a restart:
\* open circuits are left while requests keep coming, whatever the restart finds.
SPECIFICATION FairSpec
CONSTANTS
    p1 = p1
    p2 = p2
    c1 = c1
    c2 = c2
    None = None
    Providers = {p1}
    Calls = {c1}
    Configs <- MCConfigs
    MaxOpenSecs = 2
    CooldownSecs = {1}
    FailureWindowSecs = 2
    MaxFailureTimestamps = 4
    HalfOpenRequired = 2
    MaxTime = 4
    LastFailure = 2
    MaxOnTheWay = 2
    MaxRestarts = 1
CHECK_DEADLOCK FALSE
INVARIANT CircuitShape
PROPERTY OpenCircuitIsLeft
