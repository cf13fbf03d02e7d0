SPECIFICATION Spec
CONSTANTS
    v1 = v1
    v2 = v2
    s1 = s1
    s2 = s2
    Validators = {v1, v2}
    Substitutable = {}
    Services = {s1}
    BaseServices = {}
    TicketIds = {0, 1}
    Amounts = {1, 2}
    Configs <- FeeConfigs
    InitialConfig <- Default
    MaxValidators = 3
    MaxValidatorsPerSlash = 10
    MaxAllocationsPerRebalance = 10
    MaxProposals = 1
    MaxU64 = 2
    MaxU32 = 100000
    Horizon = 2
    NoService = NoService
INVARIANTS
    PendingIsOpenTickets
    VaultConservation
SYMMETRY ValidatorSymmetry
