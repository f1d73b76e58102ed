SPECIFICATION FairSpec
CONSTANTS
    Asks <- ThreeAsks
    Refreshes <- OnlyManual
    MaxPushes = 5
    MaxCrashes = 1
INVARIANTS TypeOK NoLostWakeup RefreshesAsAsked NoRunForNothing
PROPERTY KeepsQueuePromise
