SPECIFICATION Spec
CONSTANTS
    Tasks = {t1, t2}
    Watches = {w1, w2}
    NoWatch = NoWatch
    Ops = {"start", "stop", "kill", "restart", "suspend", "unsuspend", "delete", "forget", "view"}
    Faults = {"crash", "removal"}
    MaxRequests = 2
    MaxFaults = 1
SYMMETRY TaskSymmetry
INVARIANT TypeOK
INVARIANT SingleLiveWatch
PROPERTY NoWatchOutlivesStop
PROPERTY SweepRespectsOwners
CHECK_DEADLOCK FALSE
