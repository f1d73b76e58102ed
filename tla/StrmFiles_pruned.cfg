SPECIFICATION Spec
CONSTANTS
    Items <- OneItem
    Playable <- OneItem
    Peers <- TwoPeers
    Key <- OwnKey
    Paths <- OwnPaths
    PathOf <- OwnPathOf
    Offer <- AnyOffer
    SameMount = FALSE
    NoPath = NoPath
    NoFile = NoFile
    MaxChanges = 3
    MaxFaults = 0
PROPERTY ExclusionsOfKnownPeersStay
