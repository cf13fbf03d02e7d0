SPECIFICATION FairSpec
CONSTANTS
    v1 = v1
    v2 = v2
    s1 = s1
    s2 = s2
    Validators = {v1}
    Substitutable = {}
    Services = {s1, s2}
    BaseServices = {s2}
    TicketIds = {}
    Amounts = {1}
    Configs <- TimingConfigs
    InitialConfig <- Default
    MaxValidators = 1
    MaxValidatorsPerSlash = 10
    MaxAllocationsPerRebalance = 10
    MaxProposals = 2
    MaxU64 = 1
    MaxU32 = 100000
    Horizon = 2
    NoService = NoService
PROPERTIES
    ProposalEventuallySettled
    ImplementsGovernance
