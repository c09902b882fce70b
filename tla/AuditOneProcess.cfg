\* One server process, two hosts, repeated events, purges.
CONSTANTS
    p1 = p1
    h1 = h1
    h2 = h2
    e1 = e1
    e2 = e2
    Processes = {p1}
    Hosts = {h1, h2}
    Event = {e1, e2}
    Retention = 1
    MaxTime = 3
    MaxRows = 4
SYMMETRY AuditSymmetry
CHECK_DEADLOCK FALSE
SPECIFICATION Spec
INVARIANTS Linked NoAppendSwallowed
PROPERTY OnlyEndsChange
