\* Two workers against a full channel and a backlog at its limit, and a crash: no wakeup
\* is lost and the backlog empties.
SPECIFICATION FairSpec
CONSTANTS
    p1 = p1
    p2 = p2
    p3 = p3
    w1 = w1
    w2 = w2
    f1 = f1
    f2 = f2
    f3 = f3
    Providers = {p1, p2}
    Sequential = {p1}
    Workers = {w1, w2}
    Flushers = {f1, f2, f3}
    QueueCap = 1
    BacklogCap = 1
    BatchMax = 2
    MaxVersion <- MCVersions
    MaxClock = 2
    MaxFaults = 1
    MaxCrashes = 1
CHECK_DEADLOCK FALSE
INVARIANTS TypeOK OneFlusherAttends NewestIsWritten
PROPERTY BacklogDrains
