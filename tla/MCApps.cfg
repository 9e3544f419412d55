SPECIFICATION AppsSpec
CONSTANTS
    Nodes = {"n1", "n2"}
    MayReset = {"n1"}
    Validators = {"v1", "v2", "v3", "v4"}
    Faulty = {"v4"}
    Weight <- MCWeight
    BlockHashes = {"A", "B"}
    Nil = "nil"
    TmMessages <- MCTmMessages
    BcValidators = {"v1", "v2"}
    Threshold = 2
    Inputs = {1, 2}
    BcMessages <- MCBcMessages
    NodeIds = {"n1", "n2", "v3"}
    SampleThreshold = 2
    Beta = 1
    Colorless = "none"
    SnowVotes <- MCSnowVotes
    MaxProcessed = 3
    Accounts = {"a", "b"}
    Width = 5
    LgMessages <- MCLgMessages
    Rooms = {"room"}
    Keys = {"k1", "k2", "k3"}
    ChMessages <- MCChMessages
CONSTRAINT FewStates
INVARIANTS
    TmInv TmAgreement BcInv SnowInv SnowRoundsDontSplit LgInv LgBacked ChInv
PROPERTIES
    BcFinalizedStays ChRoomsStay
