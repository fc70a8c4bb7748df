SPECIFICATION Spec
CONSTANTS
    NumSessions = 2
    Offers = {o1, o2}
    Deletes = {d1}
    Cleaner = Cleaner
    Stopper = Stopper
    NoOffer = NoOffer
    MaxSessions = 2
    MaxLocalStt = 1
    Timeout = 1
    ClosedRetention = 1
    ErrorRetention = 2
    MaxRetained = 1
SYMMETRY RequestSymmetry
INVARIANTS
    TypeOK
    Capacity
    LiveSessionHasItsWorker
    SoleRegisteredWorker
    CleanupHasOneOwner
    ReleasedAfterCancel
    StoppedHostHasNoLiveSession
PROPERTY ImplementsAdmission
CHECK_DEADLOCK FALSE
