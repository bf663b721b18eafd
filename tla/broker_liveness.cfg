CONSTANTS
    None = None
    RotationThreshold = 1
    MaxAssignable = 2
    ExhaustedAt = 3
    MinQuota = 0
    ConfirmationRequired = TRUE
    JsonColumns = FALSE
    Credentials = {c1}
    Machines = {m1}
    Agents = {a1}
    LeaseIds = {l1, l2}
    Allowed <- AnyOwner
    Preferred = {}
    NoFallback = {}
    TTLs = {3}
    DefaultTTL = 3
    ReclaimAfter = 2
    Grace = 1
    Reports <- StrainReports
    Readings = {}
    ResetTimes = {}
    AdminFlags = {}
    ReadingLag = 0
    ClockAhead = 0
    MaxTime = 3
SPECIFICATION FairSpec
PROPERTIES ExpiredLeaseReclaimed SilentLeaseReclaimed
