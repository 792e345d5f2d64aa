SPECIFICATION FairSpec
CONSTANTS
    Sids = {s1}
    Separated = {}
    DiskFaults = TRUE
    MaxCrashes = 1
    MaxResets = 0
    MaxStops = 0
    MaxEmergencies = 0
PROPERTY ComesBack
CHECK_DEADLOCK FALSE
