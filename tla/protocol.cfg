SPECIFICATION Spec
CONSTANTS
    v1 = v1
    v2 = v2
    s1 = s1
    s2 = s2
    Validators = {v1}
    Substitutable = {}
    Services = {s1, s2}
    BaseServices = {}
    TicketIds = {0}
    Amounts = {1, 2}
    Configs <- OnlyDefault
    InitialConfig <- Default
    MaxValidators = 1
    MaxValidatorsPerSlash = 10
    MaxAllocationsPerRebalance = 10
    MaxProposals = 1
    MaxU64 = 3
    MaxU32 = 100000
    Horizon = 2
    NoService = NoService
INVARIANTS
    TypeOK
    DepositBounds
    ExposureBounds
PROPERTIES
    VaultOutflow
    SlashIsPermanent
    StretchOnWrite
SYMMETRY FullSymmetry
