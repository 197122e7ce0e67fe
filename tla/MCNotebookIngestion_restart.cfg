SPECIFICATION FairSpec
CONSTANTS
    Requests = {q1, q2}
    Contents = {x}
    MaxRevisions = 3
    MaxTries = 1
    MaxStalledCount = 1
    MaxCrashes = 0
    SlowJobs = FALSE
    None = None
VIEW View
PROPERTY RetryRestarts
CHECK_DEADLOCK FALSE
