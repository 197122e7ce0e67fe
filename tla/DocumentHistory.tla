--------------------------- MODULE DocumentHistory --------------------------
(* The revision history of documents (document.service.ts): each stored file *)
(* is one revision of one document.  Snapshots of a page share the document  *)
(* of their Url row, an upload has a document of its own.  All the files     *)
(* here come from one address, or are uploads.                               *)
EXTENDS Naturals, FiniteSets

CONSTANTS
    Callers,    \* requests and jobs that capture files or ask for revisions
    Captured,   \* ids of files
    UrlIds,     \* ids of Url rows of the address, each used once
    None

VARIABLES
    url,        \* state of each Url row
    stored,     \* state of each StoredFile row
    snapshot,   \* is it a snapshot of the address, or an upload?
    urlOf,      \* StoredFile.urlId
    document,   \* the documents there are, named by what they are about
    revision,   \* the DocumentRevision of a file
    event,      \* has it a CaptureEvent?
    step,       \* the query a caller is about to make
    subject,    \* the file it is about
    captures,   \* is it capturing the file, or only asking for its revision?
    knownUrl,   \* the urlId it goes on with
    ordinal,    \* the ordinal it has computed
    urlDeleted, fileDeleted

historyVars == <<url, stored, snapshot, urlOf, document, revision, event, step,
                 subject, captures, knownUrl, ordinal, urlDeleted, fileDeleted>>
tables == <<url, stored, snapshot, urlOf, document, revision, event>>

Keys == UrlIds \cup Captured
Steps == {"idle", "look", "linked", "findUrl", "createUrl", "relink",
          "document", "count", "create", "event"}
Revisions == [document : Keys, ordinal : Nat]
RowStates == {"absent", "live", "gone"}

TypeOK ==
    /\ url \in [UrlIds -> RowStates]
    /\ stored \in [Captured -> RowStates]
    /\ snapshot \in [Captured -> BOOLEAN]
    /\ urlOf \in [Captured -> UrlIds \cup {None}]
    /\ document \subseteq Keys
    /\ revision \in [Captured -> Revisions \cup {None}]
    /\ event \in [Captured -> BOOLEAN]
    /\ step \in [Callers -> Steps]
    /\ subject \in [Callers -> Captured \cup {None}]
    /\ captures \in [Callers -> BOOLEAN]
    /\ knownUrl \in [Callers -> UrlIds \cup {None}]
    /\ ordinal \in [Callers -> Nat]
    /\ {urlDeleted, fileDeleted} \subseteq BOOLEAN

Init ==
    /\ url = [u \in UrlIds |-> "absent"]
    /\ stored = [f \in Captured |-> "absent"]
    /\ snapshot \in [Captured -> BOOLEAN]
    /\ urlOf = [f \in Captured |-> None]
    /\ document = {}
    /\ revision = [f \in Captured |-> None]
    /\ event = [f \in Captured |-> FALSE]
    /\ step = [c \in Callers |-> "idle"]
    /\ subject = [c \in Callers |-> None]
    /\ captures = [c \in Callers |-> FALSE]
    /\ knownUrl = [c \in Callers |-> None]
    /\ ordinal = [c \in Callers |-> 0]
    /\ urlDeleted = FALSE /\ fileDeleted = FALSE

LiveUrls == {u \in UrlIds : url[u] = "live"}
RevisionsOf(d) ==
    {f \in Captured : revision[f] # None /\ revision[f].document = d}
Goto(c, label) == step' = [step EXCEPT ![c] = label]
Keep(c) == UNCHANGED <<subject, captures, knownUrl, ordinal>>

(* The caller is done, or gives up with an error.                            *)
End(c) ==
    /\ Goto(c, "idle")
    /\ subject' = [subject EXCEPT ![c] = None]
    /\ captures' = [captures EXCEPT ![c] = FALSE]
    /\ knownUrl' = [knownUrl EXCEPT ![c] = None]
    /\ ordinal' = [ordinal EXCEPT ![c] = 0]

Begin(c, f, isCapture) ==
    /\ step[c] = "idle"
    /\ Goto(c, "look")
    /\ subject' = [subject EXCEPT ![c] = f]
    /\ captures' = [captures EXCEPT ![c] = isCapture]
    /\ UNCHANGED <<knownUrl, ordinal>>
-----------------------------------------------------------------------------
(* persistFile and the upload handlers create the row of the file first.     *)
(* A crawl may save a page without a urlId.                                  *)
CaptureFile(c) ==
    \E f \in Captured :
        /\ stored[f] = "absent"
        /\ stored' = [stored EXCEPT ![f] = "live"]
        /\ \E u \in LiveUrls \cup {None} :
             /\ u # None => snapshot[f]
             /\ urlOf' = [urlOf EXCEPT ![f] = u]
        /\ Begin(c, f, TRUE)
        /\ UNCHANGED <<url, snapshot, document, revision, event, urlDeleted,
                       fileDeleted>>

(* Ingestion, a metadata refresh and the list of revisions ask for it later. *)
AskForRevision(c) ==
    \E f \in Captured :
        /\ stored[f] = "live"
        /\ Begin(c, f, FALSE)
        /\ UNCHANGED <<tables, urlDeleted, fileDeleted>>

LookUpFile(c) ==
    /\ step[c] = "look"
    /\ IF stored[subject[c]] = "live"
       THEN /\ Goto(c, "linked")
            /\ knownUrl' = [knownUrl EXCEPT ![c] = urlOf[subject[c]]]
            /\ UNCHANGED <<subject, captures, ordinal>>
       ELSE End(c)
    /\ UNCHANGED <<tables, urlDeleted, fileDeleted>>

(* A file that is linked is left alone; a capture goes on with its event.    *)
LookUpRevision(c) ==
    /\ step[c] = "linked"
    /\ LET f == subject[c]
       IN  IF revision[f] # None
           THEN IF captures[c] THEN Goto(c, "event") /\ Keep(c) ELSE End(c)
           ELSE /\ Goto(c, IF snapshot[f] /\ knownUrl[c] = None
                           THEN "findUrl" ELSE "document")
                /\ Keep(c)
    /\ UNCHANGED <<tables, urlDeleted, fileDeleted>>

(* The repair of a snapshot without a urlId: by the address, whose canonical *)
(* form is unique among the Url rows.                                        *)
FindUrl(c) ==
    /\ step[c] = "findUrl"
    /\ IF LiveUrls = {} THEN Goto(c, "createUrl") /\ Keep(c)
       ELSE /\ \E u \in LiveUrls : knownUrl' = [knownUrl EXCEPT ![c] = u]
            /\ Goto(c, "relink")
            /\ UNCHANGED <<subject, captures, ordinal>>
    /\ UNCHANGED <<tables, urlDeleted, fileDeleted>>

CreateUrl(c) ==
    /\ step[c] = "createUrl"
    /\ IF LiveUrls # {} THEN End(c) /\ UNCHANGED url
       ELSE \E u \in UrlIds :
              /\ url[u] = "absent"
              /\ url' = [url EXCEPT ![u] = "live"]
              /\ knownUrl' = [knownUrl EXCEPT ![c] = u]
              /\ Goto(c, "relink")
              /\ UNCHANGED <<subject, captures, ordinal>>
    /\ UNCHANGED <<stored, snapshot, urlOf, document, revision, event,
                   urlDeleted, fileDeleted>>

RelinkFile(c) ==
    /\ step[c] = "relink"
    /\ IF stored[subject[c]] = "live" /\ url[knownUrl[c]] = "live"
       THEN /\ urlOf' = [urlOf EXCEPT ![subject[c]] = knownUrl[c]]
            /\ Goto(c, "document") /\ Keep(c)
       ELSE End(c) /\ UNCHANGED urlOf
    /\ UNCHANGED <<url, stored, snapshot, document, revision, event, urlDeleted,
                   fileDeleted>>

OwnDocument(c) == subject[c]                                       \* mutant
DocumentKey(c) == IF snapshot[subject[c]] THEN knownUrl[c] ELSE subject[c]

(* upsert; the foreign keys refuse a document of a row that is gone.         *)
EnsureDocument(c) ==
    /\ step[c] = "document"
    /\ LET d == DocumentKey(c)
       IN  IF (d \in UrlIds => url[d] = "live")
                /\ (d \in Captured => stored[d] = "live")
           THEN /\ document' = document \cup {d}
                /\ Goto(c, "count") /\ Keep(c)
           ELSE End(c) /\ UNCHANGED document
    /\ UNCHANGED <<url, stored, snapshot, urlOf, revision, event, urlDeleted,
                   fileDeleted>>

OrdinalsOf(d) == {revision[f].ordinal : f \in RevisionsOf(d)}
NextOrdinal(d) ==
    IF OrdinalsOf(d) = {} THEN 1
    ELSE 1 + (CHOOSE n \in OrdinalsOf(d) : \A k \in OrdinalsOf(d) : k <= n)

ComputeOrdinal(c) ==
    /\ step[c] = "count"
    /\ ordinal' = [ordinal EXCEPT ![c] = NextOrdinal(DocumentKey(c))]
    /\ Goto(c, "create")
    /\ UNCHANGED <<tables, subject, captures, knownUrl, urlDeleted, fileDeleted>>

(* One revision per file, one file per ordinal of a document.                *)
CreateRevision(c) ==
    /\ step[c] = "create"
    /\ LET f == subject[c]
           d == DocumentKey(c)
       IN  IF /\ stored[f] = "live" /\ d \in document
              /\ revision[f] = None
              /\ ordinal[c] \notin OrdinalsOf(d)
           THEN /\ revision' = [revision EXCEPT ![f] =
                                  [document |-> d, ordinal |-> ordinal[c]]]
                /\ IF captures[c] THEN Goto(c, "event") /\ Keep(c) ELSE End(c)
           ELSE End(c) /\ UNCHANGED revision
    /\ UNCHANGED <<url, stored, snapshot, urlOf, document, event, urlDeleted,
                   fileDeleted>>

(* recordCaptureEvent; after it persistFile asks for the revision once more, *)
(* which it finds unless the file has gone.                                  *)
RecordEvent(c) ==
    /\ step[c] = "event"
    /\ event' = [event EXCEPT ![subject[c]] =
                   stored[subject[c]] = "live" /\ revision[subject[c]] # None]
    /\ End(c)
    /\ UNCHANGED <<url, stored, snapshot, urlOf, document, revision, urlDeleted,
                   fileDeleted>>

(* Rows go by other requests; history outlives its Url row.                  *)
SaveUrl ==
    /\ LiveUrls = {}
    /\ \E u \in UrlIds : url[u] = "absent" /\ url' = [url EXCEPT ![u] = "live"]
    /\ UNCHANGED <<stored, snapshot, urlOf, document, revision, event, step,
                   subject, captures, knownUrl, ordinal, urlDeleted, fileDeleted>>

DeleteUrl ==
    /\ \E u \in LiveUrls :
         /\ url' = [url EXCEPT ![u] = "gone"]
         /\ urlOf' = [f \in Captured |-> IF urlOf[f] = u THEN None ELSE urlOf[f]]
    /\ urlDeleted' = TRUE
    /\ UNCHANGED <<stored, snapshot, document, revision, event, step, subject,
                   captures, knownUrl, ordinal, fileDeleted>>

DeleteStoredFile ==
    /\ \E f \in Captured :
         /\ stored[f] = "live"
         /\ stored' = [stored EXCEPT ![f] = "gone"]
         /\ revision' = [revision EXCEPT ![f] = None]
         /\ event' = [event EXCEPT ![f] = FALSE]
         /\ document' = document \ {f}
    /\ fileDeleted' = TRUE
    /\ UNCHANGED <<url, snapshot, urlOf, step, subject, captures, knownUrl,
                   ordinal, urlDeleted>>

EnsureStep(c) ==
    \/ LookUpFile(c) \/ LookUpRevision(c) \/ FindUrl(c) \/ CreateUrl(c)
    \/ RelinkFile(c) \/ EnsureDocument(c) \/ ComputeOrdinal(c)
    \/ CreateRevision(c)

Next ==
    \/ \E c \in Callers :
         CaptureFile(c) \/ AskForRevision(c) \/ EnsureStep(c) \/ RecordEvent(c)
    \/ SaveUrl \/ DeleteUrl \/ DeleteStoredFile

Spec == Init /\ [][Next]_historyVars
-----------------------------------------------------------------------------
(* Properties.                                                               *)

(* "Monotonic per-document revision number": whatever captures run at once,  *)
(* the revisions of a document are numbered 1, 2, ... without a gap, until a *)
(* file is deleted.                                                          *)
NoOrdinalGaps ==
    ~fileDeleted => \A d \in document : OrdinalsOf(d) = 1..Cardinality(RevisionsOf(d))

(* A snapshot is a revision of the document of its Url row, also when two    *)
(* callers repair a missing urlId at once, until a Url row is deleted: a     *)
(* repair by way of a new row may then meet one by way of the old.           *)
SnapshotInItsDocument ==
    ~urlDeleted =>
        \A f \in Captured :
            (revision[f] # None /\ snapshot[f]) => revision[f].document = urlOf[f]

RevisionsInOrder == NoOrdinalGaps /\ SnapshotInItsDocument

(* Why: an ordinal that waits to be created is at most one ahead of those    *)
(* that are there, and the others are refused as taken;                      *)
OrdinalInv ==
    ~fileDeleted =>
        /\ \A d \in Keys : OrdinalsOf(d) = 1..Cardinality(RevisionsOf(d))
        /\ \A c \in Callers :
             step[c] = "create" =>
                 ordinal[c] \in 1..(Cardinality(RevisionsOf(DocumentKey(c))) + 1)

(* callers work on files that are there or were, and know the Url row of a   *)
(* snapshot before they create its document;                                 *)
Placing == {"document", "count", "create"}
FoundUrl(c) == \/ step[c] = "linked" /\ knownUrl[c] # None
               \/ step[c] \in Placing /\ snapshot[subject[c]]

SubjectInv ==
    /\ \A f \in Captured : revision[f] # None => stored[f] = "live"
    /\ \A c \in Callers : step[c] # "idle" =>
         subject[c] # None /\ stored[subject[c]] # "absent"
    /\ \A c \in Callers :
         step[c] = "relink" \/ (step[c] \in Placing /\ snapshot[subject[c]]) =>
             knownUrl[c] # None

(* and until a Url row is deleted there is one row at most for the address,  *)
(* which every repair finds.                                                 *)
AddressInv ==
    ~urlDeleted =>
        /\ \A u, v \in LiveUrls : u = v
        /\ \A f \in Captured : urlOf[f] # None => urlOf[f] \in LiveUrls
        /\ \A c \in Callers : knownUrl[c] # None => knownUrl[c] \in LiveUrls
        /\ \A c \in Callers : FoundUrl(c) => urlOf[subject[c]] # None
        /\ \A f \in Captured :
             (revision[f] # None /\ snapshot[f]) => revision[f].document = urlOf[f]

HistoryInv == TypeOK /\ OrdinalInv /\ SubjectInv /\ AddressInv
=============================================================================
