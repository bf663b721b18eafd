CONSTANTS
    None = None
    RotationThreshold = 1
    MaxAssignable = 2
    ExhaustedAt = 3
    MinQuota = 0
    ConfirmationRequired = TRUE
    JsonColumns = TRUE
    Credentials = {c1}
    Machines = {m1, m2}
    Agents = {a1}
    LeaseIds = {l1, l2}
    Allowed <- AnyOwner
    Preferred = {}
    NoFallback = {}
    TTLs = {1}
    DefaultTTL = 1
    ReclaimAfter = 2
    Grace = 0
    Reports <- HealthReports
    Readings <- MixedReadings
    ResetTimes = {1}
    AdminFlags = {TRUE, FALSE}
    ReadingLag = 1
    ClockAhead = 0
    MaxTime = 1
SPECIFICATION Spec
SYMMETRY Symmetry
INVARIANTS TypeOK NoDoubleLease HeldNotAvailable FreeNotLost DisabledNotOffered
PROPERTIES ResetNeedsReading OnlyFitGranted Lifecycle LateLeaseStaysLate
