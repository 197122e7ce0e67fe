SPECIFICATION FairSpec
CONSTANTS
    Requests = {q1}
    Contents = {x, y}
    MaxRevisions = 3
    MaxTries = 2
    MaxStalledCount = 1
    MaxCrashes = 1
    SlowJobs = FALSE
    None = None
VIEW View
INVARIANTS IngestionInv
PROPERTIES JobsEnd RunningEnds
CHECK_DEADLOCK FALSE
