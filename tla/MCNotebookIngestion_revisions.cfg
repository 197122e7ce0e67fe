SPECIFICATION Spec
CONSTANTS
    Requests = {q1, q2}
    Contents = {x, y}
    MaxRevisions = 3
    MaxTries = 1
    MaxStalledCount = 1
    MaxCrashes = 0
    SlowJobs = FALSE
    None = None
SYMMETRY Symmetry
VIEW View
INVARIANT OneActiveRevision
PROPERTIES EvidenceIsImmutable ImplementsLog
CHECK_DEADLOCK FALSE
