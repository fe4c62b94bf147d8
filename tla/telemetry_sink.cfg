CONSTANTS
    Updates = {u1, u2, u3}
    Appenders = {"engine", "poll"}
    Flushers = {"poll", "flush"}
    MaxFaults = 2
    MaxCrashes = 1
SPECIFICATION Spec
INVARIANTS InOneFile ArchivedLoadedOnce
PROPERTIES EventuallyLoaded
CHECK_DEADLOCK FALSE
