SPECIFICATION Spec
CONSTANTS
    k1 = k1
    k2 = k2
    Wallets = {k1, k2}
    Deployer = k1
    NoKey = NoKey
    Nobody = Nobody
    oracle = oracle
    bridge = bridge
    consensus = consensus
    overlong = overlong
    steep = steep
    InitialNames <- OneService
    NewNames = {bridge, consensus, overlong, steep}
    TooLong = {overlong}
    HighThreshold = {steep}
    OtherMint = {}
    BaseNames = {consensus}
    MaxServices = 3
    MaxProposals = 2
    MaxCalls = 2
    MaxAbandoned = 1
INVARIANTS
    TypeOK
    RegistryDense
    ReceiptsHold
    RefusalExplained
PROPERTIES
    AdministeredByAuthority
CHECK_DEADLOCK FALSE
