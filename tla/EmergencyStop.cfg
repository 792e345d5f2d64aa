SPECIFICATION Spec
CONSTANTS
    Sids = {s1, s2}
    Separated = {}
    DiskFaults = FALSE
    MaxCrashes = 0
    MaxResets = 0
    MaxStops = 0
    MaxEmergencies = 1
INVARIANT EntryRemovedAtEnd
CHECK_DEADLOCK FALSE
