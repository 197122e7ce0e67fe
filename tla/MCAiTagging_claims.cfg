CONSTANTS
    c1 = c1
    c2 = c2
    e1 = e1
    RouteCalls = {c1, c2}
    Runs = {}
    Enqueuers = {e1}
    Kind = "file"
    ForceChoices = {TRUE, FALSE}
    MaxStartAttempts = 3
    MaxStalledCount = 1
    MaxCrashes = 0
    NoCall = NoCall
    Earlier = Earlier
SPECIFICATION FairSpec
INVARIANTS
    ClaimHasHolder
    JobHasFinalizer
PROPERTIES ReservationEnds RunningOnlyFromPending ImplementsLifecycle
CHECK_DEADLOCK FALSE
