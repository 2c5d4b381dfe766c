SPECIFICATION HSpec
CONSTANTS
    Indexes = {ix1}
    MaxNumber = 1
    Keys = {k1, k2}
    Data = {d1, d2}
    MaxSizes <- MCMaxSizes
    MaxStack = 3
    None = None
INVARIANTS
    RevertNeverThrows
    MergeMatrixSound
    HistoryExact
    
PROPERTIES
    ImplementsSnapshots
