SPECIFICATION CommitteeSpec
CONSTANTS
    MaxPledgeReleasing = 2
    Committees = {{1}, {1, 2}}
    ProposalItems <- MCProposalItems
    Schedules <- MCSchedules
    Registrars = {"p", "q"}
    RegistrarAccounts = {"p", "q", "r"}
    OwnerBalance = 3
    PlatformPledges = {0, 2, 3}
    MinPlatformPledge = 2
    PlatformDelay = 2
    CommitteeInterval = 3
    MaxOpenProposals = 2
    MaxCommitteeCalls = 3
    MaxCommitteeHead = 4
INVARIANT CommitteeConserves
CHECK_DEADLOCK FALSE
