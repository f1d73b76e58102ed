SPECIFICATION FairSpec
CONSTANTS
    v1 = v1
    v2 = v2
    None = None
    Tombstone = Tombstone
    Items <- ThreeItems
    Vals <- TwoVals
    PageSize = 1
    MaxHead = 3
    MaxEpoch = 2
    MaxDisruptions = 2
INVARIANTS TypeOK Inv CaughtUpMirrorIsExact FeedAdvances
PROPERTIES DropsOnlyWithdrawn RequestClearedByResync PullKeepsPromise EventuallyInSync RequestsAreHonoured
CONSTRAINT Affordable
