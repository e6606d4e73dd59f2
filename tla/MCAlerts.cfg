SPECIFICATION MCFairSpec
CONSTANTS
    d1 = d1
    d2 = d2
    Keys = {"fault", "score"}
    ScoreKeys = {"score"}
    Already = {"fault", "score"}
    Signatures <- MCSignatures
    Daemons = {d1, d2}
    Scores = {"high", "low"}
    LogWindow = 1
    BatchSize = 1
    MaxFailures = 2
    MaxLag = 1
    MaxHead = 2
    MaxCuts = 1
INVARIANTS
    PassedForACause
    PostedAgainForACause
    SignatureActsOnce
    CrossingNotCondition
PROPERTIES
    QueueDrains
CHECK_DEADLOCK FALSE
