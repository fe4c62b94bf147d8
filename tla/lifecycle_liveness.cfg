CONSTANTS
    r1 = r1
    r2 = r2
    Runs = {r1, r2}
    NumSteps = 3
    FromStep = 1
    ToStep = 3
    StageOf <- MCStageOf
    Services = {"DISK_PRESSURE"}
    NoService = "none"
    Exceptions = {"rollback", "blocked"}
    UtcOffset = "utc"
    RetryLimit = 1
    MaxBlocks = 1
    MaxDeaths = 0
    MaxResumes = 1
    MaxDrains = 1
SPECIFICATION FairSpec
PROPERTIES AllRunsEnd
