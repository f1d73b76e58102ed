SPECIFICATION FairSpec
CONSTANTS
    Peers = {"uuid", "attic"}
    Uuids = {"uuid"}
    Names = {"attic"}
    NameOf <- OneName
    Streams = {1, 2}
    MaxBytes = 1
    MaxFaults = 2
INVARIANTS TypeOK NoBytesLost ResetIsFinal
PROPERTY TotalsGetStored
