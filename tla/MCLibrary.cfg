SPECIFICATION LibrarySpec
CONSTANTS
    Nodes = {"n1", "n2"}
    MayReset = {"n2"}
    Messages <- MCMessages
    NoDigest = ""
    AddedDigests = {"f1"}
    Floats <- MCFloats
    Exact = 8
    Infinite = 10
    CacheKeys = {"k1", "k2"}
    CacheValues = {"v1", "v2"}
    CaMessages <- MCCaMessages
    ObjectIds = {"i1", "i2", "i3"}
    KindOf <- MCKindOf
    RgMessages <- MCRgMessages
    Refused <- MCRefused
    Resettable = {"i3"}
    Instances = {"n1", "n2"}
    Ports = {1, 2}
    AnyPort = 0
    NoPort = 3
    MaxStarts = 2
CONSTRAINTS OneAsks OneRestarts StrictTakesThree
CHECK_DEADLOCK FALSE
INVARIANTS
    CoreInv CaInv RgInv RgCountsOnce LcInv
PROPERTIES
    CoreSyncCatchesUp CoreLoopEnds
