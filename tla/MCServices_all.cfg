SPECIFICATION ServicesSpec
CONSTANTS
    Callers = {r1, r2}
    Kinds = {"status", "login", "search", "pdf", "inspect", "text"}
    MaxPages = 2
    MaxStrays = 1
    Tasks = {t1, t2}
    MaxRetries = 1
    MaxStops = 1
    Library = Library
    Page = Page
INVARIANTS
    AllTypesOK
    TurnsAreExclusive
    UploadIsUsed
PROPERTIES
    LoginSurvives
    RequestsAnswered
    JobsEnd
CHECK_DEADLOCK FALSE
