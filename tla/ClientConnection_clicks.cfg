SPECIFICATION FairSpec
CONSTANTS
    NumConnects = 2
    NumLeaves = 2
    Timeout = 1
INVARIANTS
    TypeOK
    NoLeakedInterval
    ShownIsTrue
PROPERTIES
    PromptIsNotExpired
    AbandonedSessionsEnd
    ConnectingEnds
CHECK_DEADLOCK FALSE
