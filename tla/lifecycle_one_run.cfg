CONSTANTS
    r1 = r1
    Runs = {r1}
    NumSteps = 3
    FromStep = 1
    ToStep = 3
    StageOf <- MCStageOf
    Services = {"DISK_PRESSURE"}
    NoService = "none"
    Exceptions = {"transient", "fatal", "blocked", "rollback"}
    UtcOffset = "utc"
    RetryLimit = 2
    MaxBlocks = 1
    MaxDeaths = 1
    MaxResumes = 2
    MaxDrains = 1
SPECIFICATION Spec
INVARIANTS TypeOK OnePlace CacheFollowsTask RetryBudget StepOrder
PROPERTIES DroppedOnlyAsKnown ImplementsContract
