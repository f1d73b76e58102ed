SPECIFICATION Spec
CONSTANTS
    n1 = n1
    n2 = n2
    i1 = i1
    i2 = i2
    c1 = c1
    c2 = c2
    Nodes <- TwoNodes
    NameOf <- SameName
    Nameless <- NoNodes
    Configured <- BobListed
    Reserved <- NoNodes
    Invites <- OneInvite
    Calls <- OneCall
    Nobody = Nobody
    NoId = NoId
    MaxNumber = 5
    MaxCalls = 1
INVARIANT PairedPeersKeepTheirUrl
