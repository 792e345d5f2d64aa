SPECIFICATION Spec
CONSTANTS
    Sids = {s1, s2, s3}
    Separated = {}
    DiskFaults = FALSE
    MaxCrashes = 2
    MaxResets = 1
    MaxStops = 1
    MaxEmergencies = 1
SYMMETRY Symmetry
INVARIANTS
    TypeOK
    ContextIsSnapshot
    EndedLeavesNoEntry
    MirrorsLog
    OneReply
    ThreadExtendsContext
    RestoredInOrder
PROPERTIES
    NoRunWhenStopped
    ImplementsDurable
CHECK_DEADLOCK FALSE
