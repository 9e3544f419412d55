SPECIFICATION FairSpec
CONSTANTS
    n1 = n1
    n2 = n2
    n3 = n3
    m1 = m1
    m2 = m2
    NoNode = NoNode
    Nodes = {n1, n2}
    Messages = {m1}
    Bootstrap <- PairPeers
    LocalNodes = {n1, n2}
    Bannable <- BanOther
    Verdicts <- MixedVerdict
    Creators = {n1, n2}
    MaxRestarts = 1
    MaxPartial = 1
    MaxFailures = 1
    MaxControl = 1
INVARIANTS
    IInv
    RepeatsFollowErrors
    StoredWentThroughPipeline
PROPERTIES
    ImplementsDissemination
    KnownReachesPeers
