SPECIFICATION Spec
CONSTANTS
    Sids = {s1, s2}
    Separated = {}
    DiskFaults = TRUE
    MaxCrashes = 1
    MaxResets = 1
    MaxStops = 1
    MaxEmergencies = 1
SYMMETRY Symmetry
INVARIANTS
    NoPromptLost
    RepliesFollowPrompts
CHECK_DEADLOCK FALSE
