\* Two monitors, a queue that overflows, POSTs that outlast the join of stop(), a
\* disk that fails, an event the server fails on, a malformed one that makes it
\* refuse each batch it is in.
CONSTANTS
    m1 = m1
    m2 = m2
    Monitors = {m1, m2}
    MaxQueueSize = 2
    BatchSize = 2
    SlowPost = TRUE
    DiskFails = TRUE
    Malformed = {3}
    Failing = {1}
    MaxEvents = 4
SYMMETRY MonitorSymmetry
SPECIFICATION Spec
INVARIANTS IInv QueueBound Accounted NoOvertaking
PROPERTY UntouchedFlushIsSafe
