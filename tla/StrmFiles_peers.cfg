SPECIFICATION FairSpec
CONSTANTS
    Items <- OneItem
    Playable <- OneItem
    Peers <- TwoPeers
    Key <- OwnKey
    Paths <- OwnPaths
    PathOf <- OwnPathOf
    Offer <- AnyOffer
    SameMount = FALSE
    NoPath = NoPath
    NoFile = NoFile
    MaxChanges = 2
    MaxFaults = 2
INVARIANT TypeOK
PROPERTIES OfferedItemKeepsAFile CleanRunIsExact FailedRemovalIsRetried DirectorySettles
