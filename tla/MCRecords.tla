------------------------------ MODULE MCRecords ------------------------------
(* What the library keeps and derives, for TLC: saved URLs with their        *)
(* collections and purposes, the revision history of documents, the          *)
(* governance rows of tagging results, the map and the chunks of a text,     *)
(* the searches of the collector page and the chat of a notebook.  No two    *)
(* have a variable in common, so each is explored while the others rest: the *)
(* initial state says which.                                                 *)
(* They share their model values, which keeps the symmetry small.            *)
EXTENDS DocumentHistory, GovernanceProjection, UrlLibrary, Views, Texts, TLC

CONSTANTS OneResult, OneSnapshot, OneAgency, MaxText

VARIABLE side

(* Every text of at most MaxText characters.                                 *)
ShortTexts == UNION {{d \in [1..n -> 1..MaxText] :
                         FoldLeft(+, 0, d) <= MaxText} : n \in 0..MaxText}
-----------------------------------------------------------------------------
NoHistory ==
    /\ url = None /\ stored = None /\ snapshot = None /\ urlOf = None
    /\ document = {} /\ revision = [f \in Captured |-> None]
    /\ event = None /\ step = None
    /\ subject = None /\ captures = None /\ knownUrl = None /\ ordinal = None
    /\ urlDeleted = FALSE /\ fileDeleted = FALSE

NoProjection ==
    /\ captured = <<>> /\ linked = {} /\ trashed = {} /\ outcome = None /\ trace = {}
    /\ agency = {} /\ about = None /\ names = None /\ phase = None
    /\ traceSubject = None /\ doomed = None /\ named = None /\ locked = None
    /\ overlapped = TRUE /\ deleted = TRUE

NoLibrary ==
    /\ next = None /\ rows = None /\ members = {} /\ links = {} /\ open = {}
    /\ scheduled = {} /\ gone = {}
    /\ ask = [r \in Requests |-> [kind |-> "none"]]
    /\ at = [r \in Requests |-> "ok"]
    /\ item = None /\ row = None /\ made = None /\ cleared = None
    /\ disturbed = {}

NoSearch ==
    /\ epoch = None /\ controller = None /\ shown = {} /\ query = None
    /\ nextPage = FALSE /\ loading = FALSE /\ loadingMore = FALSE
    /\ recovering = FALSE /\ cooling = FALSE /\ pc = None
    /\ kind = [o \in Operations |-> "none"]
    /\ job = [o \in Operations |-> "none"]
    /\ born = None /\ aborted = None /\ merged = None /\ root = None
    /\ page = None /\ old = {}

NoMap ==
    /\ grounding = None /\ rest = None /\ units = None /\ windows = None
    /\ packed = None /\ batch = None /\ stack = None /\ attempt = None
    /\ mapped = None /\ failed = None /\ items = None /\ judged = {}
    /\ accepted = {} /\ criticFailed = None /\ stage = None

NoChunks ==
    /\ blocks = <<>> /\ piece = Missing /\ cursor = Missing /\ chunks = <<>>
    /\ ended = TRUE /\ pageStarts = None /\ extra = None

NoChat ==
    /\ selected = None /\ messages = {} /\ pending = FALSE
    /\ loadingHistory = FALSE /\ abortRef = None
    /\ client = [q \in Questions |-> "none"] /\ asked = None /\ heard = None
    /\ loads = {} /\ stream = None
    /\ handler = None /\ closed = {} /\ runs = {} /\ existing = {}

(* Two results with two agencies and two snapshots, or three results with    *)
(* one of each, which is neither trashed nor deleted: what else there could  *)
(* be never begins.                                                          *)
IsSmall ==
    LET with == IF side = "pair" THEN Results \ OneResult ELSE Results
        files == IF side = "pair" THEN Snapshots \ OneSnapshot ELSE OneSnapshot
        bodies == IF side = "pair" THEN Agencies \ OneAgency ELSE OneAgency
    IN  /\ \A t \in Results :
             IF t \in with
             THEN about[t] \in files \cup {UrlRow} /\ ToSet(names[t]) \subseteq bodies
             ELSE about[t] = UrlRow /\ names[t] = <<>> /\ phase[t] = "waiting"
        /\ ToSet(captured) \subseteq files
        /\ side = "triple" => trashed = {} /\ ~deleted

(* Beside a request of another kind an assignment asks for one collection;   *)
(* beside one that saves two pages the collections are empty at first.       *)
IsModest ==
    \A r, s \in Requests :
        ask[r].kind # ask[s].kind =>
            /\ ask[r].kind = "assign" => Cardinality(ask[r].want) = 1
            /\ Len(ask[s].pages) = 2 => members = {}

(* Texts of MaxBlocks blocks have regular pages and no stripped characters.  *)
IsPlain == Len(blocks) = MaxBlocks => Regular(blocks) /\ extra = 0

RecordsInit ==
    \/ /\ side = "history" /\ Init
       /\ NoProjection /\ NoLibrary /\ NoSearch /\ NoMap /\ NoChunks /\ NoChat
    \/ /\ side \in {"pair", "triple"} /\ ProjectionInit /\ IsSmall
       /\ NoHistory /\ NoLibrary /\ NoSearch /\ NoMap /\ NoChunks /\ NoChat
    \/ /\ side = "library" /\ LibraryInit /\ IsModest
       /\ NoHistory /\ NoProjection /\ NoSearch /\ NoMap /\ NoChunks /\ NoChat
    \/ /\ side = "search" /\ SearchInit
       /\ NoHistory /\ NoProjection /\ NoLibrary /\ NoMap /\ NoChunks /\ NoChat
    \/ /\ side = "map" /\ MapInit
       /\ NoHistory /\ NoProjection /\ NoLibrary /\ NoSearch /\ NoChunks /\ NoChat
    \/ /\ side = "chunks" /\ ChunkInit
       /\ NoHistory /\ NoProjection /\ NoLibrary /\ NoSearch /\ NoMap /\ NoChat
    \/ /\ side = "chat" /\ ChatInit
       /\ NoHistory /\ NoProjection /\ NoLibrary /\ NoSearch /\ NoMap /\ NoChunks

HistorySide ==
    /\ side = "history" /\ Next
    /\ UNCHANGED <<side, projectionVars, libraryVars, searchVars, mapVars,
                   chunkVars, chatVars>>
ProjectionSide ==
    /\ side \in {"pair", "triple"} /\ UNCHANGED side /\ ProjectionNext /\ IsSmall'
    /\ UNCHANGED <<historyVars, libraryVars, searchVars, mapVars, chunkVars, chatVars>>
LibrarySide ==
    /\ side = "library" /\ LibraryNext
    /\ UNCHANGED <<side, historyVars, projectionVars, searchVars, mapVars,
                   chunkVars, chatVars>>
SearchSide ==
    /\ side = "search" /\ SearchNext
    /\ UNCHANGED <<side, historyVars, projectionVars, libraryVars, mapVars,
                   chunkVars, chatVars>>
MapSide ==
    /\ side = "map" /\ MapNext
    /\ UNCHANGED <<side, historyVars, projectionVars, libraryVars, searchVars,
                   chunkVars, chatVars>>
ChunksSide ==
    /\ side = "chunks" /\ ChunkNext /\ IsPlain'
    /\ UNCHANGED <<side, historyVars, projectionVars, libraryVars, searchVars,
                   mapVars, chatVars>>

ChatSide ==
    /\ side = "chat" /\ ChatNext
    /\ UNCHANGED <<side, historyVars, projectionVars, libraryVars, searchVars,
                   mapVars, chunkVars>>

RecordsNext ==
    HistorySide \/ ProjectionSide \/ LibrarySide \/ SearchSide \/ MapSide
    \/ ChunksSide \/ ChatSide

RecordsSpec ==
    RecordsInit /\ [][RecordsNext]_<<side, historyVars, projectionVars,
                                     libraryVars, searchVars, mapVars,
                                     chunkVars, chatVars>>

RecordsSymmetry ==
    Permutations(Callers) \cup Permutations(Captured) \cup Permutations(Questions)
-----------------------------------------------------------------------------
(* Properties by the names they have in their modules; the others are        *)
(* checked as they are.                                                      *)

(* Every component keeps its inductive invariant.                            *)
AllTypesOK ==
    /\ side = "history" => HistoryInv
    /\ side \in {"pair", "triple"} => ProjectionInv
    /\ side = "library" => LibraryInv
    /\ side = "search" => SearchInv
    /\ side = "map" => MapInv
    /\ side = "chunks" => ChunkInv
    /\ side = "chat" => ChatInv
=============================================================================
