SPECIFICATION ProgressSpec
CONSTANTS
    Blocks <- PartitionBlocks
    None = None
    Witnesses = {"w1", "w2"}
    Signer <- SignerOf
    Invalid <- NoBlocks
    MaxUndoHistory = 10
    MaxDepth = 2
    InOrder = TRUE
    Candidates = {1, 2, 3, 4}
    VotesFor = {0, 1, 3}
    Pledges = {0, 2}
    MinedPledges = {0, 1}
    MaxTime = 15
    TopMax = 1
    RestMax = 1
    PledgeMax = 1
    MinProducePledge = 2
    MaxScheduleCalls = 3
INVARIANTS
    LogMatchesChain
    PushUnwinds
    ScheduleSound
PROPERTIES
    PartitionConverges
    TurnsCome
