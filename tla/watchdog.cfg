SPECIFICATION Spec
CONSTANTS
    Works = {w1}
    MaxToggles = 1
    MaxCalls = 1
    MaxFaults = 0
INVARIANT WatchesCancelledBeforeShutdown
CHECK_DEADLOCK FALSE
