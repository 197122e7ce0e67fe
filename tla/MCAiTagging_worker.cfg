CONSTANTS
    w1 = w1
    w2 = w2
    e1 = e1
    e2 = e2
    RouteCalls = {}
    Runs = {w1, w2}
    Enqueuers = {e1, e2}
    Kind = "file"
    ForceChoices = {TRUE, FALSE}
    MaxStartAttempts = 2
    MaxStalledCount = 1
    MaxCrashes = 1
    NoCall = NoCall
    Earlier = Earlier
VIEW View
SYMMETRY Symmetry
SPECIFICATION Spec
INVARIANTS
    SuccessIsBacked
    TaggingInv
CHECK_DEADLOCK FALSE
