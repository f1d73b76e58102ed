SPECIFICATION FairSpec
CONSTANTS
    WithdrawAfter = 4
    Configured = TRUE
    MaxEdits = 3
INVARIANTS TypeOK EveryPeerIsProbed WithdrawnForMissesOnceSeen 
PROPERTY GonePeerIsWithdrawn
