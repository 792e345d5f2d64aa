SPECIFICATION TurnSpec
CONSTANTS
    Sids <- MCSids
    Backlog <- MCOneLeft
    Plans <- MCNoPlans
    MaxTasks = 2
    Model = "model"
    MaxRounds = 2
    MaxCancels = 1
    MaxResets = 1
    PathOf <- MCPathOf
    Topics <- MCTopics
    Links <- MCLinks
    Answers <- MCAnswers
INVARIANTS
    PayloadFollowsDocs
    EchoIsWhatRan
    CardIsTranscript
PROPERTIES
    Confined
    KnowledgeKept
CHECK_DEADLOCK FALSE
