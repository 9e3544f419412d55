SPECIFICATION Spec
CONSTANTS
    n1 = n1
    n2 = n2
    n3 = n3
    m1 = m1
    m2 = m2
    NoNode = NoNode
    Nodes = {n1, n2}
    Messages = {m1}
    Bootstrap <- PairPeers
    LocalNodes = {}
    Bannable = {}
    Verdicts <- AlwaysApply
    Creators = {n1}
    MaxRestarts = 0
    MaxPartial = 1
    MaxFailures = 0
    MaxControl = 1
INVARIANTS
    EveryStoredWentThroughPipeline
