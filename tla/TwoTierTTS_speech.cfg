SPECIFICATION FairSpec
CONSTANTS
    NumSentences = 2
    Chunks = 1
    QueueSize = 1
    MaxPuts = 2
INVARIANTS
    TypeOK
    OneVoicePerSentence
    NoThreadLeftBehind
    NothingSkipped
PROPERTY LockComesFree
CHECK_DEADLOCK FALSE
