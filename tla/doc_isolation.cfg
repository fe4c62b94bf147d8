CONSTANTS
    A = A
    B = B
    Runs = {A, B}
    Days = {1, 2}
    Old = Old
    NoPayload = NoPayload
    Scenarios <- SharedScenarios
    MaxRows = 2
    Sources <- MCSources
    MaxFaults = 0
    MaxTries = 1
SPECIFICATION Spec
CHECK_DEADLOCK FALSE
INVARIANTS
    WorkingTableIsolated
