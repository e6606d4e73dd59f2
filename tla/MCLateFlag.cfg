SPECIFICATION Spec
CONSTANTS
    Agents = {a1}
    Requests = {1}
    DeliverWindows = {1}
    RejectionWindow = 0
    ChallengeWindow = 1
    EscalationWindow = 0
    SettlementWindow = 3
    Outright = {FALSE}
    MaxLag = 0
    LastRequestAt = 2
    MaxTime = 8
    Hold = 2
    Cooldown = 1
    FeeBudgets = {1}
    Attempts = 2
    MaxFaults = 1
INVARIANT
    OnTimeIsNotLate
CHECK_DEADLOCK FALSE
