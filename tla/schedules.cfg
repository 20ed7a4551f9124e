SPECIFICATION MCSpec
CONSTANTS
    MaxRuns = 2
    Versions <- MCVersions
    PerTask = 1
    MaxAge = 5
    MaxEdits = 1
    MaxFaults = 1
INVARIANT TypeOK
 
PROPERTY OnceAMinute
PROPERTY RunsClose
CHECK_DEADLOCK FALSE
