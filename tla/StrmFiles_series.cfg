SPECIFICATION Spec
CONSTANTS
    Items <- ThreeItems
    Playable <- EpisodesOnly
    Peers <- OnePeer
    Key <- SeriesKey
    Paths <- SharedPaths
    PathOf <- SharedPathOf
    Offer <- PlainOffer
    SameMount = FALSE
    NoPath = NoPath
    NoFile = NoFile
    MaxChanges = 2
    MaxFaults = 1
PROPERTIES HideOutlivesOutages LaterClaimNeverWins OwnFilesStayForeign
