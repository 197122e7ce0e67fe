CONSTANTS
    r1 = r1
    t1 = t1
    t2 = t2
    d1 = d1
    d2 = d2
    Runs = {r1}
    Targets = {t1, t2}
    Deliveries = {d1, d2}
    MaxAttempts = 1
    MaxStalledCount = 1
    LiveStalls = FALSE
    MaxCrashes = 1
    None = None
SPECIFICATION Spec
INVARIANT SuccessIsComplete
CHECK_DEADLOCK FALSE
