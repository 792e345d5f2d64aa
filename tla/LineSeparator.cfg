SPECIFICATION Spec
CONSTANTS
    Sids = {s1}
    Separated <- MCSeparated
    DiskFaults = FALSE
    MaxCrashes = 0
    MaxResets = 0
    MaxStops = 0
    MaxEmergencies = 0
INVARIANT MirrorsLog
CHECK_DEADLOCK FALSE
