\* The flush of stop() beside the flush of the loop, far below capacity.
CONSTANTS
    m1 = m1
    Monitors = {m1}
    MaxQueueSize = 3
    BatchSize = 2
    SlowPost = TRUE
    DiskFails = FALSE
    Malformed = {}
    Failing = {}
    MaxEvents = 3
SPECIFICATION Spec
PROPERTY FlushRemovesDelivered
