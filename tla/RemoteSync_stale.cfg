SPECIFICATION Spec
CONSTANTS
    Syncs <- OneSync
    MaxChanges = 1
    MaxRuns = 1
    MaxFailures = 0
INVARIANT ForcedSyncIsFresh
CHECK_DEADLOCK FALSE
