SPECIFICATION Spec
CONSTANTS
    Sids = {a, b, c}
    Backlog <- MCNothingLeft
    Plans <- MCTwoCalls
    MaxTasks = 2
    Model = "model"
    MaxRounds = 2
    MaxCancels = 1
    MaxResets = 1
SYMMETRY Symmetry
INVARIANTS
    TypeOK
    CardFollowsAgent
    DoneCards
    FsmFollowsSession
PROPERTIES
    NoGhostCards
CHECK_DEADLOCK FALSE
