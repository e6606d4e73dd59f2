SPECIFICATION RegistrySpec
CONSTANTS
    Agents = {1, 2}
    Operators = {o1, o2, o3}
    DeclaredTiers = {1, 3}
    BondAmounts = {1, 2}
    Scores = {9500}
    LimitChoices <- MCLimitChoices
    InitialLimits <- MCLimits
    UnbondingPeriod = 1
    MaxBond = 2
    MaxTime = 1
SYMMETRY OperatorSymmetry
INVARIANTS
    VaultBacksBonds
    UnbondingWithinBond
    OperatorIndexExact
PROPERTIES
    TierRatchets
CHECK_DEADLOCK FALSE
