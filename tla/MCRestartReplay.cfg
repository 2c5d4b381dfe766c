SPECIFICATION RSpec
CONSTANTS
    Blocks <- RestartBlocks
    None = None
    Witnesses = {"w1", "w2"}
    Signer <- SignerOf
    Invalid <- NoBlocks
    MaxDepth = 2
    InOrder = TRUE
    MaxUndoHistory = 3
    ReadAhead = 2
    MaxStops = 1
INVARIANTS
    ReplayRebuilds
