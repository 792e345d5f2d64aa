SPECIFICATION Spec
CONSTANTS
    Sids <- MCSids
    Backlog <- MCOneLeft
    Plans <- MCOneCall
    MaxTasks = 2
    Model = "model"
    MaxRounds = 2
    MaxCancels = 1
    MaxResets = 0
INVARIANTS
    FailedCards
CHECK_DEADLOCK FALSE
