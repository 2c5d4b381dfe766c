SPECIFICATION Spec
CONSTANTS
    Blocks <- SwitchBlocks
    None = None
    Witnesses = {"w1", "w2"}
    Signer <- SignerOf
    Invalid <- SwitchInvalid
    MaxUndoHistory = 10
    MaxDepth = 2
    InOrder = TRUE
INVARIANTS
    PushUnwinds
