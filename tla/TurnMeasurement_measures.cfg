SPECIFICATION Spec
CONSTANTS
    SeenLimit = 2
    MaxClock = 1
    MaxJobs = 1
    MaxLost = 1
    ChannelSize = 1
    NumSessions = 2
    NumEvents = 5
INVARIANTS
    TypeOK
    OffsetsNotNegative
    PartialIsShown
    EndsAgree
    TurnsAreRecorded
    FileFollowsMemory
    LockHasItsTask
CHECK_DEADLOCK FALSE
