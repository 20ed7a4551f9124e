SPECIFICATION FairSpec
CONSTANTS
    MaxRuns = 3
    Keep = 2
    Faults = {"panel", "agent", "call", "job", "probe", "wipe", "create"}
    MaxFaults = 1
    Ops = {"power", "backup", "restore", "delete"}
    MaxRequests = 2
INVARIANT TypeOK
 
INVARIANT TransitionHasTask
PROPERTY ArchiveReclaims
PROPERTY RunsEnd
 
CHECK_DEADLOCK FALSE
