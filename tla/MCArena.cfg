SPECIFICATION FairSpec
CONSTANTS
    Agents = {a1}
    Requests = {1, 2}
    DeliverWindows = {1}
    RejectionWindow = 0
    ChallengeWindow = 0
    EscalationWindow = 0
    SettlementWindow = 2
    Outright = {FALSE}
    MaxLag = 1
    LastRequestAt = 2
    MaxTime = 6
    Hold = 1
    Cooldown = 1
    FeeBudgets = {1, 2}
    Attempts = 2
    MaxFaults = 1
INVARIANTS
    SpendHasACause
    OneOpenJob
    ClosedHasACause
PROPERTIES
    JobsCloseUnlessRejected
CHECK_DEADLOCK FALSE
