CONSTANTS
    None = None
    RotationThreshold = 1
    MaxAssignable = 2
    ExhaustedAt = 3
    MinQuota = 0
    ConfirmationRequired = TRUE
    JsonColumns = TRUE
    Credentials = {c1, c2}
    Machines = {m1}
    Agents = {a1}
    LeaseIds = {l1, l2}
    Allowed <- AnyOwner
    Preferred <- First
    NoFallback = {}
    TTLs = {2}
    DefaultTTL = 2
    ReclaimAfter = 2
    Grace = 0
    Reports <- Quiet
    Readings = {}
    ResetTimes = {}
    AdminFlags = {}
    ReadingLag = 0
    ClockAhead = 0
    MaxTime = 2
    Agent = a1
    MinRemaining = 0
    RenewLeeway = 1
    MaxFaults = 1
SPECIFICATION ClientSpec
INVARIANTS ClientTypeOK
PROPERTIES CycleDelivers LeaseObtained
