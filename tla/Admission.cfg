\* Two threads, a limit of two in two ticks: late threads of every age.
CONSTANTS
    None = None
    Unusable = Unusable
    k1 = k1
    k2 = k2
    t1 = t1
    t2 = t2
    Threads = {t1, t2}
    ip1 = ip1
    Ips = {ip1}
    Tokens <- MCTokens
    Settings <- MCSettings
    RateMax = 2
    Window = 2
    MaxRequests = 5
    MaxTime = 4
SYMMETRY ThreadSymmetry
CHECK_DEADLOCK FALSE
SPECIFICATION Spec
INVARIANTS OnTimeWithinLimit LateBounded
PROPERTY RefusalsJustified
