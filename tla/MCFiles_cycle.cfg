SPECIFICATION FilesSpec
CONSTANTS
    Requests = {q1, q2}
    Movers = {q1, q2}
    Filers = {q1, q2}
    Folders = {f1, f2, f3}
    Files = {x1}
    Root = root
    MaxHops = 3
    None = None
    Editors = {e1, e2}
    n1 = n1
    n2 = n2
    n3 = n3
    Names = {n1, n2, n3}
    SafeName <- Sanitized
    Tags = {t1}
    Likes = {TRUE, FALSE}
    MaxFavorites = 2
    Nothing = Nothing
    Total = 2
    Slots = {h1, h2}
SYMMETRY FilesSymmetry
INVARIANT Forest
CHECK_DEADLOCK FALSE
