SPECIFICATION Spec
SYMMETRY AgentSymmetry
CONSTANTS
    Agents = {a1,a2}
    Consumers = {c1}
    Outcomes <- MCMixedOutcomes
    Notionals = {3,12}
    Tolerances = {10}
    ProtocolFees = {1}
    ParamChoices <- MCGovernedParams
    InitialParams <- MCParams
    MaxBudget = 8
    MaxReports = 3
    MaxTime = 6
INVARIANTS
    VoicePaysForWeight
    FaultNeverPays
    InfluenceBounded
PROPERTIES
    TimeIsNoMerit
CHECK_DEADLOCK FALSE
