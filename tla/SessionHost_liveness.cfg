SPECIFICATION FairSpec
CONSTANTS
    NumSessions = 2
    Offers = {o1}
    Deletes = {d1}
    Cleaner = Cleaner
    Stopper = Stopper
    NoOffer = NoOffer
    MaxSessions = 2
    MaxLocalStt = 2
    Timeout = 1
    ClosedRetention = 1
    ErrorRetention = 2
    MaxRetained = 1
PROPERTIES
    SilentSessionsExpire
    ClosingCompletes
CHECK_DEADLOCK FALSE
