SPECIFICATION FairSpec
CONSTANTS
    Tasks = {t1, t2}
    Watches = {w1}
    NoWatch = NoWatch
    Ops = {"start", "stop"}
    Faults = {"crash"}
    MaxRequests = 2
    MaxFaults = 1
PROPERTY StatusConverges
CHECK_DEADLOCK FALSE
