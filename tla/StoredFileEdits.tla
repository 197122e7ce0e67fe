--------------------------- MODULE StoredFileEdits --------------------------
(* One file of the file manager: its row, the place of its bytes on disk,    *)
(* and the requests and background jobs that edit them.  Each reads the row, *)
(* works, and writes some of its columns back; disk operations are           *)
(* synchronous, so they take place when the handler goes on after its read.  *)
EXTENDS Naturals, FiniteSets

CONSTANTS
    Editors,    \* handlers and jobs; one starts anew when it is done
    Names,      \* file names
    SafeName,   \* a name with unsafe characters replaced
    Tags,
    Likes,      \* what requests set isFavorited to
    None,
    MaxFavorites

VARIABLES
    row,        \* the columns of the StoredFile row, or None
    disk,       \* the paths at which there are bytes of this file
    request,    \* what an editor is doing, None if it is idle
    seen,       \* the row an editor has read
    target,     \* the storagePath it will write, None before its disk work
    overlapped, \* has an editor written while another one was under way?
    died,       \* has the process died in the middle of an edit?
    unlinked,   \* has a deletion removed the bytes?
    retagged    \* has a tag been renamed or deleted everywhere?

editVars == <<row, disk, request, seen, target, overlapped, died, unlinked,
              retagged>>

Uploaded == "uploaded"              \* where an upload has put the bytes
Paths == {Uploaded} \cup Names
Rows == [name : Names, path : Paths, tags : SUBSET Tags,
         user : (SUBSET Tags) \cup {None}, ai : SUBSET Tags,
         favorite : BOOLEAN, favorites : 0..MaxFavorites]

Patch(n, ts, f) == [op |-> "patch", name |-> n, tags |-> ts, favorite |-> f]
EditRequests ==
    {Patch(n, None, None) : n \in Names}
    \cup {Patch(None, ts, None) : ts \in SUBSET Tags}
    \cup {Patch(None, None, f) : f \in Likes}
    \cup [op : {"rename"}, name : Names]
    \cup [op : {"refresh", "delete"}]
    \cup [op : {"retag"}, from : Tags, to : Tags \cup {None}]
    \cup [op : {"result"}, tags : SUBSET Tags]
    \cup [op : {"transfer"}, user : SUBSET Tags, ai : SUBSET Tags]

EditInit ==
    /\ \E n \in Names, ts \in SUBSET Tags :
         row = [name |-> n, path |-> Uploaded, tags |-> ts, user |-> None,
                ai |-> {}, favorite |-> FALSE, favorites |-> 0]
    /\ disk = {Uploaded}
    /\ request = [q \in Editors |-> None]
    /\ seen = [q \in Editors |-> None]
    /\ target = [q \in Editors |-> None]
    /\ overlapped = FALSE /\ died = FALSE /\ unlinked = FALSE /\ retagged = FALSE

EditTypeOK ==
    /\ row \in Rows \cup {None}
    /\ disk \subseteq Paths
    /\ request \in [Editors -> EditRequests \cup {None}]
    /\ seen \in [Editors -> Rows \cup {None}]
    /\ target \in [Editors -> Paths \cup {None}]
    /\ {overlapped, died, unlinked, retagged} \subseteq BOOLEAN
-----------------------------------------------------------------------------
(* Tags are in two buckets of tagsMeta; the column tags is their union.      *)
(* A row whose meta names no user tags has those that are not the tagger's.  *)
UserTags(r) == IF r.user # None THEN r.user ELSE r.tags \ r.ai
ShownTags(r) == UserTags(r) \cup r.ai

Given(new, old) == IF new # None THEN new ELSE old

Favorites(f, old) ==
    IF f \in {None, old.favorite} THEN old.favorites
    ELSE IF f THEN old.favorites + 1
    ELSE IF old.favorites = 0 THEN 0 ELSE old.favorites - 1

(* PATCH /files/:id writes every column, from its request or from its read.  *)
PatchedColumns(r, old, path) ==
    [name |-> Given(r.name, old.name), path |-> path,
     tags |-> IF r.tags = None THEN old.tags ELSE r.tags \cup old.ai,
     user |-> Given(r.tags, old.user), ai |-> old.ai,
     favorite |-> Given(r.favorite, old.favorite),
     favorites |-> Favorites(r.favorite, old)]

(* PATCH /tags/rename and DELETE /tags/:tag, the part about this file.       *)
RetaggedColumns(r, old) ==
    [tags |-> (old.tags \ {r.from}) \cup ({r.to} \ {None})]

LosesShownTags(r, old) ==                                          \* mutant
    [tags |-> r.tags, user |-> UserTags(old), ai |-> r.tags]
ResultColumns(r, old) ==
    [tags |-> UserTags(old) \cup r.tags, user |-> UserTags(old), ai |-> r.tags]

(* The tags of a saved URL are copied onto a file captured from it.          *)
TransferColumns(r, old) ==
    [tags |-> old.tags \cup r.user \cup UserTags(old) \cup r.ai \cup old.ai,
     user |-> UserTags(old) \cup r.user, ai |-> old.ai \cup r.ai]

Columns(r, old, path) ==
    CASE r.op = "patch" -> PatchedColumns(r, old, path)
      [] r.op = "rename" -> [name |-> r.name, path |-> path]
      [] r.op = "refresh" -> [user |-> old.user, ai |-> old.ai]
      [] r.op = "retag" -> RetaggedColumns(r, old)
      [] r.op = "result" -> ResultColumns(r, old)
      [] r.op = "transfer" -> TransferColumns(r, old)

Updated(cols) ==
    [c \in DOMAIN row |-> IF c \in DOMAIN cols THEN cols[c] ELSE row[c]]
-----------------------------------------------------------------------------
Beside(q) == \E p \in Editors \ {q} : request[p] # None

Done(q) ==
    /\ request' = [request EXCEPT ![q] = None]
    /\ seen' = [seen EXCEPT ![q] = None]
    /\ target' = [target EXCEPT ![q] = None]

(* Read the row; a missing one ends the request.  Renaming or deleting a tag *)
(* everywhere selects the files that have it.                                *)
ReadFile(q) ==
    /\ request[q] = None
    /\ row # None
    /\ \E r \in EditRequests :
         /\ r.op = "retag" => r.from \in row.tags /\ r.from # r.to
         /\ request' = [request EXCEPT ![q] = r]
    /\ seen' = [seen EXCEPT ![q] = row]
    /\ UNCHANGED <<row, disk, target, overlapped, died, unlinked, retagged>>

Renames(q) ==
    /\ request[q].op \in {"patch", "rename"}
    /\ request[q].name \notin {None, seen[q].name}

NewPath(q) == SafeName[request[q].name]

UnlinksSource(from, to) ==                                         \* mutant
    IF from \in disk THEN (disk \cup {to}) \ {from} ELSE disk
MovedOnDisk(from, to) ==
    IF from \in disk THEN (disk \ {from}) \cup {to} ELSE disk

(* What a handler does on disk once it has its row, before it writes: rename *)
(* the file if it is where the row says, or unlink it.                       *)
WorkOnDisk(q) ==
    /\ request[q] # None /\ target[q] = None
    /\ IF request[q].op = "delete"
       THEN /\ disk' = disk \ {seen[q].path}
            /\ target' = [target EXCEPT ![q] = seen[q].path]
            /\ unlinked' = TRUE
       ELSE /\ IF Renames(q)
               THEN /\ disk' = MovedOnDisk(seen[q].path, NewPath(q))
                    /\ target' = [target EXCEPT ![q] = NewPath(q)]
               ELSE /\ target' = [target EXCEPT ![q] = seen[q].path]
                    /\ UNCHANGED disk
            /\ UNCHANGED unlinked
    /\ overlapped' = (overlapped \/ (disk' # disk /\ Beside(q)))
    /\ UNCHANGED <<row, request, seen, died, retagged>>

WrittenPath(q) == target[q]

(* The update, or the deletion of the row; it throws when the row is gone.   *)
WriteRow(q) ==
    /\ target[q] # None
    /\ LET r == request[q]
       IN  IF row = None THEN UNCHANGED <<row, retagged>>
           ELSE /\ row' = IF r.op = "delete" THEN None
                          ELSE Updated(Columns(r, seen[q], WrittenPath(q)))
                /\ retagged' = (retagged \/ r.op = "retag")
    /\ overlapped' = (overlapped \/ Beside(q))
    /\ Done(q)
    /\ UNCHANGED <<disk, died, unlinked>>

(* The process dies; all that was under way is forgotten.                    *)
Die ==
    /\ \E q \in Editors : request[q] # None
    /\ died' = TRUE
    /\ request' = [q \in Editors |-> None]
    /\ seen' = [q \in Editors |-> None]
    /\ target' = [q \in Editors |-> None]
    /\ UNCHANGED <<row, disk, overlapped, unlinked, retagged>>

EditNext ==
    \/ \E q \in Editors : ReadFile(q) \/ WorkOnDisk(q) \/ WriteRow(q)
    \/ Die

EditSpec == EditInit /\ [][EditNext]_editVars
-----------------------------------------------------------------------------
(* Properties.                                                               *)

(* Whatever renames, edits, deaths and result writes interleave: the bytes   *)
(* of a file that is not being deleted are on disk, at exactly one path.     *)
BytesAreKept == (row # None /\ ~unlinked) => \E p \in Paths : disk = {p}

(* The comment "Keep favoritesCount consistent with isFavorited": they are   *)
(* written together, from one read, so even stale writes keep them so.       *)
FavoriteIsCounted ==
    row # None => row.favorites = IF row.favorite THEN 1 ELSE 0

(* storagePath is the "absolute path to file on disk" of the schema whenever *)
(* no edit is under way and no process has died during one, ...              *)
PathIsOnDisk ==
    (row # None /\ ~died /\ \A q \in Editors : request[q] = None)
    => row.path \in disk

(* ... and it is so as long as edits do not overlap.                         *)
PathIsOnDiskAlone == ~overlapped => PathIsOnDisk

(* The column tags holds the tags that are shown from the two buckets, as    *)
(* long as edits do not overlap and no tag is changed everywhere.            *)
TagsMatchBuckets ==
    (row # None /\ ~overlapped /\ ~retagged) => row.tags = ShownTags(row)

ColumnsAgree == PathIsOnDiskAlone /\ TagsMatchBuckets /\ FavoriteIsCounted

(* Why: every read is of a row whose favorites are counted, and until edits  *)
(* overlap it is of the row that is there;                                   *)
Counted(r) == r.favorites = IF r.favorite THEN 1 ELSE 0

ReadInv ==
    /\ row # None => Counted(row)
    /\ \A q \in Editors :
        /\ request[q] # None <=> seen[q] # None
        /\ target[q] # None => request[q] # None
        /\ seen[q] # None => Counted(seen[q])
        /\ ~overlapped /\ request[q] # None => seen[q] = row

(* and the bytes are where the row says, or an edit has moved or removed     *)
(* them whose write is still to come: a second one finds nothing to move.    *)
InPlace ==
    /\ row.path \in disk
    /\ \A q \in Editors :
        target[q] # None => request[q].op # "delete" /\ target[q] \in disk

OnTheWay(q) ==
    /\ target[q] # None
    /\ \/ request[q].op = "delete"
       \/ request[q].op \in {"patch", "rename"} /\ target[q] \in disk

BytesInv ==
    /\ ~unlinked => \E p \in Paths : disk = {p}
    /\ row # None /\ ~overlapped /\ ~died =>
         InPlace \/ (row.path \notin disk /\ \E q \in Editors : OnTheWay(q))

EditInv == EditTypeOK /\ ReadInv /\ BytesInv /\ TagsMatchBuckets
=============================================================================
