SPECIFICATION Spec
CHECK_DEADLOCK FALSE
CONSTANTS
    Threads = {1, 2, 3}
    MaxSize = 2
    MaxCloses = 1
    DiskReadings = {74, 84, 85, 95}
    MemReadings = {79, 90}
    Cooldown = 3
    Cluster <- GateCluster
    Costs <- GateCosts
    Tasks = {1, 2}
    Stages = {"a", "b"}
    StepOf <- TaskSteps
    MaxExpiries = 1
    Importers = {1, 2}
    Provides <- ModuleKeys
    ImportOrder <- ModuleOrder
    Broken = {"ext"}
    Keys = {"f", "g", "e", "x"}
    MaxLookups = 4
    Runs = {1, 2}
    Dates = {"d", "e"}
    MaxStarts = 2
    MaxCalls = 1
    Plans <- TransformPlans
    PartitionDates <- TransformDates
    Versions = {1, 2}
    Nested = "sub"
    MaxAttempts = 2
    Handles = {"a", ""}
    UserKeys <- CacheKeys
    Values = {1}
    Definitions <- CreateAllChecks
    Pipelines <- ReportPipelines
    RowCounts = {1, 2}
    MaxExecutions = 4
    MaxPolls = 1
    LastDay = 4
    DayOf <- RowDays
    Hash <- RowHashes
    ColumnCount = 2
    MaxCells = 4
    MinRows = 2
    Settings <- ExtractSettings
    MaxRuns = 2
    TargetConfigs <- TableDatasets
    SourceFrames <- TableFrames
    ExistingColumns <- TableColumns
    MaxReloads = 1
    PreparedFrames <- TablePrepared
    MetaNames <- TableMeta
    OwedColumns <- TableOwed
    HookActions <- HookSteps
    HookConfigs <- HookLists
    Routines <- HookRoutines
    HookPlaces = {"inbox", "vault"}
    HookFiles <- HookSources
    LateFiles <- HookLate
INVARIANTS
    BudgetOfOneQuery
    PoolSound
    GateTruthful
    ConfigurationAsWritten
    ExtractExact
    ColumnsLand
    RowsAsAsked
    Interchangeable
    HooksAsWritten
    TransformReported
    KeptUntilRemoved
    ReportTruthful
    LookupsFind
    VerdictSound
