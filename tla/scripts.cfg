SPECIFICATION Spec
CONSTANTS
    oracle = oracle
    bridge = bridge
    sequencer = sequencer
    Names <- Services
    TicketIds = {0}
    MaxDegree = 2
    MaxCalls = 4
    MaxInFlight = 1
    MaxRuns = 2
INVARIANTS
    FilesAgree
    TokensAccounted
    AllocationsBacked
PROPERTIES
    FaultlessRunRegistersAll
CHECK_DEADLOCK FALSE
