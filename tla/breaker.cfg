CONSTANTS
    Workers = {w1, w2}
    Engine = engine
    Threshold = 2
    Lazy = FALSE
    Probed = TRUE
    MaxFailures = 2
    MaxDeaths = 1
SPECIFICATION FairSpec
PROPERTY Recovers
INVARIANT OpensOnlyAfterThreshold
PROPERTY FailFast
