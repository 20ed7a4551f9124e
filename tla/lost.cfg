SPECIFICATION Spec
CONSTANTS
    MaxRuns = 2
    Keep = 1
    Faults = {"panel", "wipe"}
    MaxFaults = 2
    Ops = {"power", "backup"}
    MaxRequests = 2
INVARIANT NothingLost
CHECK_DEADLOCK FALSE
