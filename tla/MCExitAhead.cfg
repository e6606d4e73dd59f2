SPECIFICATION Spec
CONSTANTS
    Agents = {1}
    Operators = {11}
    DeclaredTiers = {1}
    BondAmounts = {40, 50}
    Scores = {9500}
    LimitChoices <- MCLimitChoices
    InitialLimits <- MCLimits
    UnbondingPeriod = 4
    MaxBond = 50
    MaxTime = 5
    Requests = {r1, r2}
    Notionals = {10}
    Fees = {1}
    DeliveryOffsets = {2}
    ParamChoices <- MCParamChoices
    InitialParams <- MCParams
    LastRequestAt = 3
SYMMETRY RequestSymmetry
INVARIANTS
    NoExitAheadOfSettlement
CHECK_DEADLOCK FALSE
