\* Two request threads, three requests of any kind.
CONSTANTS
    NotAnInt = NotAnInt
    t1 = t1
    t2 = t2
    Threads = {t1, t2}
    MaxVersion = 2
    Keys = {"after_hours_start", "rapid_cycle_count"}
    HourKeys = {"after_hours_start"}
    Defaults <- MCDefaults
    Patches <- MCPatches
    MaxRequests = 3
CHECK_DEADLOCK FALSE
SPECIFICATION Spec
INVARIANTS TypeOK FetchedOnce RulesSeeVersions
PROPERTIES ReloadsGoForward EveryCallEnds
