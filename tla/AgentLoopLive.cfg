SPECIFICATION FairSpec
CONSTANTS
    Sids <- MCSids
    Backlog <- MCTwoLeft
    Plans <- MCOneCall
    MaxTasks = 2
    Model = "model"
    MaxRounds = 2
    MaxCancels = 1
    MaxResets = 1
INVARIANTS
    CardFollowsAgent
    GaugeCountsOpen
PROPERTIES
    NoGhostCards
    SessionsEnd
CHECK_DEADLOCK FALSE
