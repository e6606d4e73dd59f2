SPECIFICATION Spec
CONSTANTS
    Agents = {1}
    Operators = {11}
    DeclaredTiers = {1, 3}
    BondAmounts = {10, 20}
    Scores = {5000, 9500}
    LimitChoices <- MCLimitChoices
    InitialLimits <- MCLimits
    UnbondingPeriod = 4
    MaxBond = 20
    MaxTime = 6
    Requests = {r1, r2}
    Notionals = {0, 10}
    Fees = {1}
    DeliveryOffsets = {1, 2}
    ParamChoices <- MCParamChoices
    InitialParams <- MCParams
    LastRequestAt = 1
SYMMETRY RequestSymmetry
INVARIANTS
    AccountsExact
    ChallengeEndsBeforeSettleBy
PROPERTIES
    EarlyExitOwesNothing
    SecondTierRiseIsGold
    ImplementsBook
    FollowsRequestChain
CHECK_DEADLOCK FALSE
