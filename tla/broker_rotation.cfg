CONSTANTS
    None = None
    RotationThreshold = 1
    MaxAssignable = 2
    ExhaustedAt = 3
    MinQuota = 0
    ConfirmationRequired = TRUE
    JsonColumns = TRUE
    Credentials = {c1, c2}
    Machines = {m1}
    Agents = {a1, a2}
    LeaseIds = {l1, l2, l3}
    Allowed <- AnyOwner
    Preferred <- Pinned
    NoFallback <- StrictAgent
    TTLs = {2}
    DefaultTTL = 2
    ReclaimAfter = 2
    Grace = 0
    Reports <- UtilReports
    Readings <- CrowdReadings
    ResetTimes = {}
    AdminFlags = {FALSE}
    ReadingLag = 0
    ClockAhead = 0
    MaxTime = 0
SPECIFICATION Spec
SYMMETRY LeaseSymmetry
INVARIANT RotationChain
PROPERTY ImplementsPool
