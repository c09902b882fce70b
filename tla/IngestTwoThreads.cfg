\* Two request threads, a clock that ticks.
CONSTANTS
    t1 = t1
    t2 = t2
    Threads = {t1, t2}
    Event <- PlugEvents
    AfterHoursStart = 22
    AfterHoursEnd = 6
    VolumeThreshold = 2
    Hour = 2
    RapidCount = 4
    RapidWindow = 1
    Malicious = {}
    Honeypots = {}
    DedupWindow = 1
    Retention = 4
    MinSeverity = 1
    MayFail = FALSE
    MaxAcks = 0
    MaxEvents = 3
    MaxTime = 2
SYMMETRY ThreadSymmetry
CHECK_DEADLOCK FALSE
SPECIFICATION Spec
INVARIANTS DuplicatesBounded FirstConnectAlerted UnknownOnce TablesAgree
