SPECIFICATION Spec
CONSTANTS
    v1 = v1
    v2 = v2
    s1 = s1
    s2 = s2
    Validators = {v1, v2}
    Substitutable = {v1, v2}
    Services = {s1, s2}
    BaseServices = {}
    TicketIds = {}
    Amounts = {1, 2}
    Configs <- WindowConfigs
    InitialConfig <- Default
    MaxValidators = 2
    MaxValidatorsPerSlash = 1
    MaxAllocationsPerRebalance = 1
    MaxProposals = 2
    MaxU64 = 2
    MaxU32 = 100000
    Horizon = 2
    NoService = NoService
INVARIANTS
    NetworkTotals
    SlashedServiceFrozen
PROPERTIES
    SettledIsFinal
    NoCascade
SYMMETRY FullSymmetry
