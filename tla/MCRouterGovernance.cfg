SPECIFICATION FairSpec
CONSTANTS
    Agents = {1}
    Operators = {11}
    DeclaredTiers = {0, 2}
    BondAmounts = {20}
    Scores = {5000, 9500}
    LimitChoices <- MCGovernedLimits
    InitialLimits <- MCLimits
    UnbondingPeriod = 4
    MaxBond = 20
    MaxTime = 6
    Requests = {r1}
    Notionals = {0, 10}
    Fees = {0, 1}
    DeliveryOffsets = {1, 2}
    ParamChoices <- MCGovernedParams
    InitialParams <- MCParams
    LastRequestAt = 1
INVARIANTS
    EscrowExact
PROPERTIES
    BlownDeadlineIsFaulted
    EveryRequestEnds
CHECK_DEADLOCK FALSE
