SPECIFICATION FairSpec
CONSTANTS
    v1 = v1
    v2 = v2
    None = None
    Tombstone = Tombstone
    Items <- TwoItems
    Vals <- OneVal
    PageSize = 1
    MaxHead = 4
    MaxEpoch = 1
    MaxDisruptions = 0
PROPERTY PullCatchesUp
