SPECIFICATION Spec
CONSTANTS
    Sids = {s1, s2}
    Separated = {}
    DiskFaults = FALSE
    MaxCrashes = 0
    MaxResets = 0
    MaxStops = 1
    MaxEmergencies = 0
PROPERTY RestartRuns
CHECK_DEADLOCK FALSE
