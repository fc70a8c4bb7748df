SPECIFICATION FairSpec
CONSTANTS
    HoldTime = 2
    CueTime = 1
    GreetTime = 1
    WinkTime = 1
    NumSessions = 2
    NumEvents = 3
    ChannelSize = 2
    WakeMode = TRUE
INVARIANTS
    TypeOK
    FaceIsTrue
    SleepsWithGate
PROPERTIES
    SeenInFull
    LooksEnd
    MouthCloses
CHECK_DEADLOCK FALSE
