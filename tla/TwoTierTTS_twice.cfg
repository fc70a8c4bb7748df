SPECIFICATION Spec
CONSTANTS
    NumSentences = 1
    Chunks = 2
    QueueSize = 1
    MaxPuts = 2
INVARIANT NoChunkTwice
CHECK_DEADLOCK FALSE
