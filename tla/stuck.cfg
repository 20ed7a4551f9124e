SPECIFICATION Spec
CONSTANTS
    Tasks = {t1, t2}
    Watches = {w1}
    NoWatch = NoWatch
    Ops = {"reinstall", "delete"}
    Faults = {}
    MaxRequests = 2
    MaxFaults = 0
INVARIANT ProvisioningHasOwner
CHECK_DEADLOCK FALSE
