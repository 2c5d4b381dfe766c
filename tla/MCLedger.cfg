SPECIFICATION LedgerSpec
CONSTANTS
    Traders = {"alice", "bob"}
    Voters = {"alice"}
    MinVotingBalance = 3
    Supply <- MCSupply
    FeePercent <- MCFeePercent
    MaxMarketFee <- MCMaxMarketFee
    RewardPercent <- MCRewardPercent
    ReferrerPercent = 50
    Referrer = "alice"
    Registrar = "bob"
    Offers <- MCOffers
    Lifetimes = {1}
    MaxOrders = 4
    MaxClock = 1
    Uids = {1, 2, 3}
    Candidates = {8}
    Referred = {}
    Platform = 9
    Balances = {0, 4}
    MinVoting = 2
    MaxVoted = 1
    MaxLevel = 2
    ExpireBlocks = 2
    VotesWindow = 2
    UpdateInterval = 1
    MaxExpiredPerBlock = 1
    MaxResignedPerBlock = 1
    MaxHead = 6
    MaxCalls = 4
    MaxPledgeReleasing = 2
    Miners = {1, 2}
    MiningAmounts = {0, 1, 2, 3}
    MinerBalance = 3
    MiningDelay = 3
    WitnessPledge = 2
    BonusRate = 50
    BlockPay = 12
    BonusPrecision = 10
    BonusInterval = 3
    TwoTo64 = 1000
    MaxMiningHead = 4
    MaxMiningCalls = 4
    Holders = {1, 2}
    HolderBalance = 2
    CsafAmounts = {0, 1, 2}
    UnlockDelay = 2
    Minute = 2
    CsafWindow = 4
    CsafRate = 1
    MaxCsaf = 2
    LockModulus = 50
    CollectOffset = 2
    LeaseTimes = {1, 2}
    MaxNow = 6
    MaxCsafCalls = 4
    Signatories = {"x", "y", "z"}
    StartFunds <- MCStartFunds
    ProposedOps <- MCProposedOps
    ProposalLifetimes = {1, 2}
    Reviews = {0, 1}
    MaxProposals = 2
    MaxProposalTime = 4
    MaxProposalCalls = 5
    Committees = {{1}, {1, 2}}
    ProposalItems <- MCProposalItems
    Schedules <- MCSchedules
    Registrars = {"p", "q"}
    RegistrarAccounts = {"p", "q", "r"}
    OwnerBalance = 3
    PlatformPledges = {0, 2, 3}
    MinPlatformPledge = 2
    PlatformDelay = 2
    CommitteeInterval = 3
    MaxOpenProposals = 2
    MaxCommitteeCalls = 3
    MaxCommitteeHead = 4
INVARIANTS
    LedgerTypeOK
    MarketConserves
    BookSettled
    FairFills
    VotesFollowOrders
    VotesTallied
    ReferencesKept
    MiningLocked
    BalanceCovers
    CsafEarned
    ProposalsWhole
    RunsAsApproved
    CommitteeApproved
    
CHECK_DEADLOCK FALSE
