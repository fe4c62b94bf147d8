CONSTANTS
    r1 = r1
    Runs = {r1}
    NumSteps = 2
    FromStep = 1
    ToStep = 2
    StageOf <- MCStageOf
    Services = {"DISK_PRESSURE"}
    NoService = "none"
    Exceptions = {"transient"}
    UtcOffset = "utc"
    RetryLimit = 3
    MaxBlocks = 0
    MaxDeaths = 0
    MaxResumes = 0
    MaxDrains = 0
SPECIFICATION FairSpec
PROPERTIES RetriesRun
