SPECIFICATION RecordsSpec
CONSTANTS
    None = None
    Callers = {c1, c2}
    Captured = {d1, d2}
    UrlIds = {u1, u2}
    Requests = {c1, c2}
    Pages = {d1, d2}
    Collections = {t1, t2}
    Nobody = None
    Nothing = None
    UrlRow = UrlRow
    Results = {t1, t2, t3}
    OneResult = {t3}
    Snapshots = {c1, c2, s3}
    Agencies = {d1, d2, a3}
    NoOne = None
    Absent = None
    Missing = None
    Notebooks = {c1, c2}
    MaxLoads = 2
    Operations = {t1, t2, t3}
    Questions = {t1, t2}
    OneSnapshot = {s3}
    OneAgency = {a3}
    MaxRow = 4
    MaxDeleted = 1
    MaxPages = 2
    MaxEpoch = 3
    MaxText = 3
    Documents <- ShortTexts
    Batches = 2
    MaxWindow = 2
    MinSplit = 1
    MaxAttempts = 2
    CriticSize = 2
    Lengths = {1, 3, 6, 12}
    Gaps = {2, 3}
    MaxBlocks = 4
    MaxBlank = 1
    MaxExtra = 1
    MaxChars = 7
    Overlap = 4
    MinChunk = 2
SYMMETRY RecordsSymmetry
INVARIANTS
    AllTypesOK
    RevisionsInOrder
    TracesOfOneResult
    SavingIsComplete
    ShownIsCurrent
    TextIsCovered
PROPERTIES
    AssignmentReplaces
    CanceledStays
CHECK_DEADLOCK FALSE
