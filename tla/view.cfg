SPECIFICATION Spec
CONSTANTS
    Tasks = {t1, t2}
    Watches = {w1}
    NoWatch = NoWatch
    Ops = {"reinstall", "view"}
    Faults = {}
    MaxRequests = 2
    MaxFaults = 0
PROPERTY ViewRespectsOwners
CHECK_DEADLOCK FALSE
