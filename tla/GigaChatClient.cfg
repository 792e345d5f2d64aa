SPECIFICATION FairSpec
CONSTANTS
    Callers = {a, b, c}
    Closers = {stop, restart}
    Lead = 1
    Lifetimes = {1, 3}
    MaxTime = 2
    MaxCalls = 2
INVARIANTS
    TypeOK
PROPERTIES
    TokensAdvance
    NeededRequests
    FreshOnSend
    OrphansOnlyByOverlap
    CallsEnd
CHECK_DEADLOCK FALSE
