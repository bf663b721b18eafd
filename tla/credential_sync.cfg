CONSTANTS
    None = None
    RotationThreshold = 1
    MaxAssignable = 2
    ExhaustedAt = 3
    MinQuota = 0
    ConfirmationRequired = TRUE
    JsonColumns = TRUE
    Credentials = {c1}
    Machines = {m1}
    Agents = {a1}
    LeaseIds = {l1}
    Allowed <- AnyOwner
    Preferred = {}
    NoFallback = {}
    TTLs = {2}
    DefaultTTL = 2
    ReclaimAfter = 1
    Grace = 0
    Reports = {}
    Readings = {}
    ResetTimes = {}
    AdminFlags = {TRUE}
    ReadingLag = 0
    ClockAhead = 0
    MaxTime = 0
    Procs = {p1, p2}
    PreferredEmails = {}
    Levels = {3}
    MaxCrash = 1
    MaxRefresh = 1
SPECIFICATION SyncSpec
INVARIANTS SyncTypeOK 
PROPERTIES ExhaustedRevoked
