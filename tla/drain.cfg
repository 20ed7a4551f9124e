SPECIFICATION FairSpec
CONSTANTS
    Works = {w1}
    MaxToggles = 2
    MaxCalls = 2
    MaxFaults = 2
INVARIANT TypeOK
PROPERTY ActivationHolds
PROPERTY ImplementsNodeDrain
PROPERTY IntentReachesAgent
PROPERTY DrainedNodeEmpties
