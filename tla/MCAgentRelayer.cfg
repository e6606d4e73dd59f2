SPECIFICATION FairSpec
CONSTANTS
    Requests = {r1}
    DeliverWindows = {2}
    RejectionWindow = 1
    ChallengeWindow = 1
    EscalationWindow = 1
    SettlementWindow = 2
    Outright = {FALSE}
    MaxLag = 1
    LastRequestAt = 1
    MaxTime = 5
    Lookback = 2
    DeliverAttempts = 2
    RejectAttempts = 2
    GoldDeployed = TRUE
    Invocations = 2
    MaxCrashes = 1
INVARIANTS
    FaultHasACause
    DoneIsAnswered
    AnsweredOnce
PROPERTIES
    JobsEnd
CHECK_DEADLOCK FALSE
