\* One request thread: exceptions, purges, a clock that ticks.
CONSTANTS
    t1 = t1
    Threads = {t1}
    Event <- TransferEvents
    AfterHoursStart = 22
    AfterHoursEnd = 6
    VolumeThreshold = 2
    Hour = 2
    RapidCount = 3
    RapidWindow = 1
    Malicious = {}
    Honeypots = {}
    DedupWindow = 1
    Retention = 1
    MinSeverity = 2
    MayFail = TRUE
    MaxAcks = 1
    MaxEvents = 3
    MaxTime = 2
SYMMETRY ThreadSymmetry
CHECK_DEADLOCK FALSE
SPECIFICATION Spec
INVARIANTS NoDuplicates VolumeAlerted MetricsAgree
