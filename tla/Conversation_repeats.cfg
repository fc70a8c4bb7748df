SPECIFICATION Spec
CONSTANTS
    Said = {"greeting"}
    Canned = {r1}
    MaxTurns = 2
    SummaryTurns = 1
    MaxSentences = 1
    MaxWords = 1
    IdleTimeout = 1
    SttWindow = 1
    DedupTtl = 2
    NumTurns = 2
    MaxReply = 2
INVARIANT RepeatsPass
CHECK_DEADLOCK FALSE
