SPECIFICATION FairSpec
CONSTANTS
    Syncs <- TwoSyncs
    MaxChanges = 1
    MaxRuns = 1
    MaxFailures = 1
INVARIANTS NoSyncLeftRunning SuccessIsOfALaterRun ForcedSyncOfCalmPeerIsFresh TypeOK
PROPERTY EverySyncEnds
CHECK_DEADLOCK FALSE
