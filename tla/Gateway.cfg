\* Two requests at a time; the registry may learn of a pool late.
CONSTANTS
    N = 3
    Token = {t1, t2}
    Kinds = {"program", "pool", "poolRegistered", "both", "query"}
    Concurrency = 2
    MaxStops = 1
    Lag = TRUE
SPECIFICATION FairSpec
CHECK_DEADLOCK FALSE
INVARIANTS
    OwnTokensAnswered
    BothMeansBoth
PROPERTIES
    AnswerNotOlder
    AnsweredUnlessLost
