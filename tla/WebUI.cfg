SPECIFICATION FairUISpec
CONSTANTS
    Sids = {s1, s2}
    Separated <- MCSeparated
    DiskFaults = FALSE
    MaxCrashes = 2
    MaxResets = 1
    MaxStops = 1
    MaxEmergencies = 0
    Tabs = {t1}
    Follows <- MCFollows
    MaxBreaks = 1
INVARIANTS
    UITypeOK
    ShownIsFinal
    ShownStaysOnPage
    ToldTheOutcome
PROPERTIES
    TabsClose
    EventuallyEnds
CHECK_DEADLOCK FALSE
