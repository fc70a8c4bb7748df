SPECIFICATION Spec
CONSTANTS
    Said = {"greeting", "plea", "chat"}
    Canned = {r1}
    MaxTurns = 2
    SummaryTurns = 2
    MaxSentences = 1
    MaxWords = 2
    IdleTimeout = 0
    SttWindow = 0
    DedupTtl = 1
    NumTurns = 5
    MaxReply = 3
INVARIANTS
    TypeOK
    NotesFitLastWords
    RequestBounded
    AllTurnsRemembered
    ResetForgets
    
CHECK_DEADLOCK FALSE
