SPECIFICATION NodeSpec
CONSTANTS
    Blocks <- RestartBlocks
    None = None
    Witnesses = {"w1", "w2"}
    Signer <- SignerOf
    Invalid <- NoBlocks
    MaxDepth = 2
    InOrder = FALSE
    MaxUndoHistory = 3
    ReadAhead = 2
    MaxStops = 2
    Indexes = {"properties", "accounts"}
    PropertyIndex = "properties"
    MaxState = 2
    MaxKills = 4
    Missing = Missing
    Torn = Torn
    Txs = {"a", "b", "c"}
    Cpu <- CpuOf
    Size <- SizeOf
    Growing = {"c"}
    Growth = 3
    MaxUntilExpiration = 3
    MaxBlockSize = 4
    BlockCpuLimit = 3
    MaxTime = 5
    MaxLength = 3
    MaxPending = 3
INVARIANTS
    NodeTypeOK
    
    
    
    FilesWhole
    AppliedOnce
    OwnBlockApplies
PROPERTIES
    ImplementsStore
    NotLost
    
