SPECIFICATION Spec
CONSTANTS
    r1 = r1
    r2 = r2
    p1 = p1
    p2 = p2
    admin_ = admin_
    none = none
    Requests = {r1, r2}
    Admin = admin_
    Plugins = {p1, p2}
    HookOf <- TwoHooks
    FailClosed = {p1}
    MaxVersion = 2
    MaxHosts = 3
    MaxLocks = 2
    MaxWarm = 1
    MaxFaults = 1
    Threshold = 1
    MaxChanges = 1
    None = none
INVARIANTS TypeOK PluginExclusive
PROPERTIES ServedUndisturbed CallsEnd TriedAgain
