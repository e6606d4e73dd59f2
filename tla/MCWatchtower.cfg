SPECIFICATION FairSpec
CONSTANTS
    Requests = {r1}
    DeliverWindows = {1}
    RejectionWindow = 0
    ChallengeWindow = 1
    EscalationWindow = 2
    SettlementWindow = 3
    Outright = {FALSE}
    MaxLag = 1
    LastRequestAt = 2
    MaxTime = 9
    Lookback = 7
    Attempts = 2
    MaxCrashes = 1
INVARIANTS
    OnlyRacesAreLost
    NothingForgotten
PROPERTIES
    EndsUnlessMisread
CHECK_DEADLOCK FALSE
