\* Torn lines, power cuts, restarts with the same, another, an invalid or no key.
CONSTANTS
    k1 = k1
    k2 = k2
    Keys = {k1, k2}
    MaxEvents = 3
    MaxFaults = 2
    MaxRestarts = 2
CHECK_DEADLOCK FALSE
SPECIFICATION FairLogSpec
INVARIANTS BreaksAreFaults ReturnedIsOnFile NoFork IntactIsComplete
PROPERTY EventuallyAnchored
