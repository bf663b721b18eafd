CONSTANTS
    None = None
    RotationThreshold = 1
    MaxAssignable = 2
    ExhaustedAt = 3
    MinQuota = 0
    ConfirmationRequired = TRUE
    JsonColumns = TRUE
    Credentials = {c1}
    Machines = {m1}
    Agents = {a1}
    LeaseIds = {l1, l2}
    Allowed <- AnyOwner
    Preferred = {}
    NoFallback = {}
    TTLs = {1}
    DefaultTTL = 1
    ReclaimAfter = 1
    Grace = 0
    Reports = {}
    Readings = {}
    ResetTimes = {}
    AdminFlags = {}
    ReadingLag = 0
    ClockAhead = 0
    MaxTime = 1
    Clients = {p1, p2}
    WriteLock = FALSE
    Operations <- EveryOperation
    Rank <- ByLabel
SPECIFICATION FairTxSpec
PROPERTIES EndedStaysEnded OperationsEnd
