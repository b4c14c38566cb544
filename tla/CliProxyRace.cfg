SPECIFICATION Spec
CONSTANTS
    o1 = o1
    o2 = o2
    key1 = key1
    key2 = key2
    ph = ph
    none = none
    Files <- TwoFiles
    Origins = {o1, o2}
    Direct = {key1, key2}
    Keys = {key1, key2}
    MayLack = {1}
    Placeholder = ph
    Absent = none
    MeetsSync = FALSE
    MayFail <- ButLastWrite
    MaxEdits = 1
    MaxFaults = 1
    MaxCrashes = 1
INVARIANTS TypeOK DirectKept OffIsDirect
PROPERTIES RestKept OnIsApplied
