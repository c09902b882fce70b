\* Two server processes on one database.
CONSTANTS
    p1 = p1
    p2 = p2
    h1 = h1
    e1 = e1
    e2 = e2
    Processes = {p1, p2}
    Hosts = {h1}
    Event = {e1, e2}
    Retention = 1
    MaxTime = 1
    MaxRows = 3
SYMMETRY AuditSymmetry
CHECK_DEADLOCK FALSE
SPECIFICATION Spec
INVARIANT Linked
