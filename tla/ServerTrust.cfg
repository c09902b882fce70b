\* Two request threads, restarts with other keys, one edited row, one agent that
\* checks its files.
CONSTANTS
    None = None
    Unusable = Unusable
    k1 = k1
    k2 = k2
    s1 = s1
    p1 = p1
    p2 = p2
    t1 = t1
    t2 = t2
    Threads = {t1, t2}
    a1 = a1
    a2 = a2
    Agents = {a1, a2}
    h1 = h1
    h2 = h2
    Heads = {h1, h2}
    TlsKeys = {p1, p2}
    Secrets = {s1}
    Starts <- MCStarts
    Tokens = {None, k1, k2}
    Shown = 1
    MaxRows = 2
    MaxEdits = 1
    MaxStarts = 2
    Endpoints = {"e1"}
    MaxVersion = 2
SYMMETRY Symmetry
CHECK_DEADLOCK FALSE
SPECIFICATION Spec
INVARIANTS ValidIsSigned CleanIsSigned KeptKeysKeepAnchors TrustIsVouched
