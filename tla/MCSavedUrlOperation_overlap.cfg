CONSTANTS
    r1 = r1
    r2 = r2
    t1 = t1
    t2 = t2
    d1 = d1
    d2 = d2
    Runs = {r1, r2}
    Targets = {t1, t2}
    Deliveries = {d1, d2}
    MaxAttempts = 1
    MaxStalledCount = 1
    LiveStalls = TRUE
    MaxCrashes = 0
    None = None
VIEW View
SYMMETRY Symmetry
SPECIFICATION Spec
INVARIANTS CancelStopsRun RetriedOutcomeMatchesItems
CONSTRAINT RetryOrStall
CHECK_DEADLOCK FALSE
