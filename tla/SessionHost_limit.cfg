SPECIFICATION Spec
CONSTANTS
    NumSessions = 2
    Offers = {o1, o2}
    Deletes = {}
    Cleaner = Cleaner
    Stopper = Stopper
    NoOffer = NoOffer
    MaxSessions = 1
    MaxLocalStt = 1
    Timeout = 1
    ClosedRetention = 1
    ErrorRetention = 2
    MaxRetained = 1
INVARIANT WorkersWithinLimit
CHECK_DEADLOCK FALSE
