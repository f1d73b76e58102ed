SPECIFICATION Spec
CONSTANTS
    n1 = n1
    n2 = n2
    i1 = i1
    i2 = i2
    c1 = c1
    c2 = c2
    Nodes <- TwoNodes
    NameOf <- LocalName
    Nameless <- TwoNodes
    Configured <- UnknownListed
    Reserved <- AllReserved
    Invites <- TwoInvites
    Calls <- TwoCalls
    Nobody = Nobody
    NoId = NoId
    MaxNumber = 4
    MaxCalls = 4
SYMMETRY Alike
INVARIANTS TypeOK ClientIdsDiffer InvitesAreSingleUse
PROPERTY StartsKeepPairings
