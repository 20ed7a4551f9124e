SPECIFICATION FairSpec
CONSTANTS
    Tasks = {t1, t2}
    Watches = {w1}
    NoWatch = NoWatch
    Ops = {"create", "reinstall", "addPort"}
    Faults = {"crash", "removal"}
    MaxRequests = 2
    MaxFaults = 1
INVARIANT ProvisioningHasOwner
PROPERTY BuildEnds
CHECK_DEADLOCK FALSE
