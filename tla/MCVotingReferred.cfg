SPECIFICATION VotingSpec
CONSTANTS
    Uids = {1, 2}
    Candidates = {9}
    Referred = {1}
    Platform = 9
    Balances = {0, 4}
    MinVoting = 2
    MaxVoted = 1
    MaxLevel = 2
    ExpireBlocks = 2
    VotesWindow = 2
    UpdateInterval = 1
    MaxExpiredPerBlock = 1
    MaxResignedPerBlock = 1
    MaxHead = 4
    MaxCalls = 3
INVARIANT ReferredVotes
CHECK_DEADLOCK FALSE
