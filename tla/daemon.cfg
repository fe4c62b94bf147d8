CONSTANTS
    Runs = {r1}
    Kinds = {"STOP_force", "RESUME_id", "RECOVER_ALL"}
    MaxPolls = 2
    MaxEvents = 2
SPECIFICATION FairSpec
INVARIANTS NoLostWakeup CommandsRunOnce
PROPERTIES VerdictHandled StopEnds
CHECK_DEADLOCK FALSE
