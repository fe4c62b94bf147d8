CONSTANTS
    Runs = {r1}
    Kinds = {"STOP_force"}
    MaxPolls = 1
    MaxEvents = 1
SPECIFICATION PollingSpec
PROPERTIES ForceStopNoticed
CHECK_DEADLOCK FALSE
