CONSTANTS
    A = A
    B = B
    Runs = {A, B}
    Days = {1, 2}
    Old = Old
    NoPayload = NoPayload
    Scenarios <- MCScenarios
    MaxRows = 2
    Sources <- MCSources
    MaxFaults = 1
    MaxTries = 1
SPECIFICATION Spec
CHECK_DEADLOCK FALSE
INVARIANTS
    VaultExact
    ConfirmedDayWhole
    PromotionRepeatable
PROPERTIES
    UndisturbedRunPublishes
