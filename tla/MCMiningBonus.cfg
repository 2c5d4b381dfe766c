SPECIFICATION MiningSpec
CONSTANTS
    MaxPledgeReleasing = 2
    Miners = {1, 2}
    MiningAmounts = {0, 1, 2}
    MinerBalance = 3
    MiningDelay = 2
    WitnessPledge = 2
    BonusRate = 50
    BlockPay = 12
    BonusPrecision = 10
    BonusInterval = 3
    TwoTo64 = 1000
    MaxMiningHead = 5
    MaxMiningCalls = 6
INVARIANT MiningConserves
CHECK_DEADLOCK FALSE
