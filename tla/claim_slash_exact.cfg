SPECIFICATION Spec
CONSTANTS
    v1 = v1
    v2 = v2
    s1 = s1
    s2 = s2
    Validators = {v1, v2}
    Substitutable = {}
    Services = {s1, s2}
    BaseServices = {}
    TicketIds = {}
    Amounts = {1, 2}
    Configs <- OnlyDefault
    InitialConfig <- Default
    MaxValidators = 2
    MaxValidatorsPerSlash = 10
    MaxAllocationsPerRebalance = 10
    MaxProposals = 2
    MaxU64 = 4
    MaxU32 = 100000
    Horizon = 2
    NoService = NoService
PROPERTIES
    SlashTakesWhatStakeLoses
