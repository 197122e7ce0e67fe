------------------------------- MODULE MCFiles -------------------------------
(* The file manager for TLC: its folder tree, the edits of one file, and one *)
(* chunked upload.  They have no variable in common, so each is explored     *)
(* while the others rest: the initial state says which.                      *)
EXTENDS FolderTree, StoredFileEdits, ChunkUpload, TLC

CONSTANTS n1, n2, n3

VARIABLE side

(* Two names that differ in an unsafe character only.                        *)
Sanitized == [n \in {n1, n2, n3} |-> IF n = n3 THEN n2 ELSE n]

(* Edits of the name, of the tags, and of the favorite mark: some of the     *)
(* behaviours of EditSpec, whose properties hold for all of them.            *)
NameEdits == INSTANCE StoredFileEdits WITH Tags <- {}, Likes <- {}
TagEdits == INSTANCE StoredFileEdits WITH Names <- {n1}, Likes <- {}
LikeEdits == INSTANCE StoredFileEdits WITH Names <- {n1}, Tags <- {}
-----------------------------------------------------------------------------
NoFolders ==
    /\ folder = [f \in Folders |-> "gone"] /\ parent = [f \in Folders |-> Root]
    /\ file = [x \in Files |-> "gone"] /\ place = [x \in Files |-> Root]
    /\ pc = [q \in Requests |-> "idle"] /\ op = [q \in Requests |-> "none"]
    /\ arg = [q \in Requests |-> Root] /\ dest = [q \in Requests |-> Root]
    /\ cur = [q \in Requests |-> Root] /\ hops = [q \in Requests |-> 0]
    /\ todo = [q \in Requests |-> {}] /\ found = [q \in Requests |-> {}]
    /\ again = [q \in Requests |-> {}] /\ doomed = [q \in Requests |-> {}]
    /\ raced = FALSE

NoEdits ==
    /\ row = None /\ disk = {}
    /\ request = None /\ seen = None /\ target = None
    /\ overlapped = FALSE /\ died = FALSE /\ unlinked = FALSE
    /\ retagged = FALSE

NoUpload ==
    /\ status = "pending" /\ next = 0 /\ acked = {} /\ awaited = Nothing
    /\ finalizes = FALSE /\ gotFile = FALSE
    /\ handlerPc = Nothing /\ body = Nothing /\ pos = Nothing /\ sum = Nothing
    /\ parts = Nothing /\ final = Nothing /\ record = Nothing
    /\ valid = FALSE /\ expired = FALSE /\ spoiled = FALSE /\ uploadRaced = FALSE

(* All folders and no file, or one folder less and all the files.            *)
SmallInit ==
    /\ Init
    /\ LET left == {f \in Folders : folder[f] = "absent"}
       IN  \/ left = Folders /\ \A x \in Files : file[x] = "gone"
           \/ /\ Cardinality(left) = Cardinality(Folders) - 1
              /\ \A x \in Files : file[x] = "absent"

FilesInit ==
    \/ side = "folders" /\ SmallInit /\ NoEdits /\ NoUpload
    \/ side = "names" /\ NameEdits!EditInit /\ row.name = n1 /\ NoFolders /\ NoUpload
    \/ side = "tags" /\ TagEdits!EditInit /\ NoFolders /\ NoUpload
    \/ side = "likes" /\ LikeEdits!EditInit /\ NoFolders /\ NoUpload
    \/ side = "upload" /\ UploadInit /\ NoFolders /\ NoEdits

FolderSide == side = "folders" /\ Next /\ UNCHANGED <<side, editVars, uploadVars>>
NameSide == side = "names" /\ NameEdits!EditNext /\ UNCHANGED <<side, vars, uploadVars>>
TagSide == side = "tags" /\ TagEdits!EditNext /\ UNCHANGED <<side, vars, uploadVars>>
LikeSide == side = "likes" /\ LikeEdits!EditNext /\ UNCHANGED <<side, vars, uploadVars>>
UploadSide == side = "upload" /\ UploadNext /\ UNCHANGED <<side, vars, editVars>>

FilesNext == FolderSide \/ NameSide \/ TagSide \/ LikeSide \/ UploadSide

FilesSpec == FilesInit /\ [][FilesNext]_<<side, vars, editVars, uploadVars>>

FilesSymmetry ==
    Permutations(Folders) \cup Permutations(Editors) \cup Permutations(Slots)
-----------------------------------------------------------------------------
(* The type invariant of all the sides; the other properties are checked by  *)
(* the names they have in their modules.                                     *)

(* Every variable keeps its type, and each side its inductive invariant.     *)
AllTypesOK ==
    /\ side = "folders" => FolderInv
    /\ side \in {"names", "tags", "likes"} => EditInv
    /\ side = "upload" => UploadInv
=============================================================================
