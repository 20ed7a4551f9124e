SPECIFICATION FairSpec
CONSTANTS
    NumNodes = 3
    Concurrency = 2
    Suspects = {1}
    MaxScans = 1
    MaxChanges = 1
INVARIANT TypeOK
INVARIANT EveryNodeCounted
 
PROPERTY NoBlindSpot
