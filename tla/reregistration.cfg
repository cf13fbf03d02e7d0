SPECIFICATION Spec
CONSTANTS
    v1 = v1
    v2 = v2
    s1 = s1
    s2 = s2
    Validators = {v1}
    Substitutable = {v1}
    Services = {s1}
    BaseServices = {}
    TicketIds = {0}
    Amounts = {1, 2}
    Configs <- PauseConfigs
    InitialConfig <- Default
    MaxValidators = 2
    MaxValidatorsPerSlash = 10
    MaxAllocationsPerRebalance = 10
    MaxProposals = 2
    MaxU64 = 3
    MaxU32 = 100000
    Horizon = 2
    NoService = NoService
INVARIANTS
    AllocationShape
    ServiceTotals
