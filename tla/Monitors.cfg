\* Two devices, each backend, two faults.
CONSTANTS
    Keys = {"k1", "k2"}
    Hosts <- MCHosts
    MaxChanges = 2
    MaxFaults = 2
CHECK_DEADLOCK FALSE
SPECIFICATION Spec
INVARIANTS NothingInvented StopsReporting
PROPERTIES PollAlternates CatchesUp
