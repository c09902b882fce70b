\* One flush at a time, overflow, a disk and a server that fail, crashes and
\* restarts: still an outbox of bounded loss, and under fairness all that was
\* queued is handled in the end.
CONSTANTS
    m1 = m1
    Monitors = {m1}
    MaxQueueSize = 2
    BatchSize = 2
    SlowPost = FALSE
    DiskFails = TRUE
    Malformed = {}
    Failing = {2}
    MaxEvents = 3
SPECIFICATION FairSpec
PROPERTIES IsOutbox EventuallyHandled
