SPECIFICATION CallSpec
CONSTANTS
    Blocks <- ForkedBlocks
    None = None
    Witnesses = {"w1", "w2"}
    Signer <- SignerOf
    Invalid <- ForkedInvalid
    MaxUndoHistory = 5
    MaxDepth = 3
    InOrder = FALSE
INVARIANTS
    TypeOK
    UndoIsHistory
    PushCatchesUp
    UndoReachesReversible
    IrreversibleKept
PROPERTIES
    PushReturns
