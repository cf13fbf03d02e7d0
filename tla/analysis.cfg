SPECIFICATION Spec
CONSTANTS
    v1 = v1
    v2 = v2
    NoParameters = NoParameters
    NoMargin = NoMargin
    Networks <- SmallNetworks
    Parameters <- ValidParameters
    Iterations = 4
INVARIANTS
    TypeOK
    VerdictIsExact
    BudgetIsLeast
    ClosedFormIsExact
    BestIsFirst
    MinStakeIsLeast
CHECK_DEADLOCK FALSE
